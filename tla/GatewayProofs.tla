--------------------------- MODULE GatewayProofs ---------------------------
(***************************************************************************)
(* Theorems about EndpointWorkers, for any number of requests at a time,    *)
(* any endpoints, and whatever fails; then about ModelHosting, which the    *)
(* same two processes run, for any catalog, prices, sizes and demand.       *)
(***************************************************************************)
EXTENDS EndpointWorkers, HostingPlan, FiniteSetTheorems, WellFoundedInduction, TLAPS

-----------------------------------------------------------------------------
(* The inductive invariant. *)

ReqType == [pc : {"idle", "waiting", "inspecting", "removing", "running", "polling",
                  "listing", "posting", "answering", "replied"},
            proc : Procs \cup {None}, key : Endpoints \cup {None}, stream : BOOLEAN,
            on : BOOLEAN, reply : {None, "output", "empty", "error"}]

WorkerType == [state : {"absent", "up", "down"}, size : Sizes \cup {None},
               by : Procs \cup {None}]

Typed == /\ worker \in [Used -> WorkerType]
         /\ weights \subseteq Endpoints /\ size \in Sizes
         /\ req \in [Tasks -> ReqType]
         /\ lock \in [Procs -> Tasks \cup {None}]

(* A lock is held by a request of its process that is provisioning. *)
LockOK(p) == lock[p] # None => req[lock[p]].proc = p /\ req[lock[p]].pc \in Provisioning

(* A request at work has a worker of its own kind, transcriptions at the     *)
(* gateway only; it provisions under its lock; it waits for a live worker.   *)
Shape(t) ==
  /\ ~ At(t, "idle") => req[t].proc \in Procs /\ req[t].key \in Endpoints
  /\ req[t].pc \notin {"idle", "replied"} =>
       /\ Kind(t) \in Kinds
       /\ Kind(t) = "whisper" => req[t].proc = Gateway
  /\ At(t, "listing") => Kind(t) = "text"
  /\ req[t].pc \in Provisioning => lock[req[t].proc] = t
  /\ req[t].on => At(t, "answering") /\ Up(Kind(t))

(* Once the look at a Whisper worker was passed, one that runs has the size *)
(* wanted, until the gateway is started again and this request is gone.      *)
Current(t) ==
  /\ req[t].pc \in {"polling", "posting", "answering"}
  /\ Kind(t) = "whisper"
  /\ Up("whisper")
  => worker["whisper"].size = size

(* What a request is about to remove is unfit, or the other process's. *)
Unfit(t) == At(t, "removing") => ~ Fits(t) \/ worker[Kind(t)].by # req[t].proc

TaskOK(t) == Shape(t) /\ Current(t) /\ Unfit(t)

Inv == Typed /\ (\A p \in Procs : LockOK(p)) /\ (\A t \in Tasks : TaskOK(t))

-----------------------------------------------------------------------------
(* What a step does to its own request. *)

Others(t) == \A u \in Tasks : u # t => req'[u] = req[u]

Moves(t, pc, on) ==
  /\ req' \in [Tasks -> ReqType] /\ Others(t)
  /\ req'[t].proc = req[t].proc /\ req'[t].key = req[t].key
  /\ req'[t].pc = pc /\ req'[t].on = on

LEMMA GotoMoves ==
  ASSUME req \in [Tasks -> ReqType], NEW t \in Tasks,
         NEW pc \in {"inspecting", "removing", "running", "polling", "listing", "posting"},
         Goto(t, pc)
  PROVE  Moves(t, pc, req[t].on)
<1> DEFINE n == [req[t] EXCEPT !.pc = pc]
<1>1. n \in ReqType /\ n.proc = req[t].proc /\ n.key = req[t].key
      /\ n.pc = pc /\ n.on = req[t].on
  BY DEF ReqType
<1>2. req' = [req EXCEPT ![t] = n]
  BY DEF Goto
<1> HIDE DEF n
<1>3. QED
  BY <1>1, <1>2 DEF Moves, Others

LEMMA ReplyMoves ==
  ASSUME req \in [Tasks -> ReqType], NEW t \in Tasks,
         NEW r \in {"output", "empty", "error"}, Reply(t, r)
  PROVE  Moves(t, "replied", FALSE)
<1> DEFINE m == [req[t] EXCEPT !.pc = "replied"]
           l == [m EXCEPT !.reply = r]
           n == [l EXCEPT !.on = FALSE]
<1>1. m \in ReqType /\ m.proc = req[t].proc /\ m.key = req[t].key /\ m.pc = "replied"
  BY DEF ReqType
<1>2. req' = [req EXCEPT ![t] = n]
  BY DEF Reply
<1> HIDE DEF m
<1>3. l \in ReqType /\ l.proc = req[t].proc /\ l.key = req[t].key /\ l.pc = "replied"
  BY <1>1 DEF ReqType
<1> HIDE DEF l
<1>4. n \in ReqType /\ n.proc = req[t].proc /\ n.key = req[t].key
      /\ n.pc = "replied" /\ n.on = FALSE
  BY <1>3 DEF ReqType
<1> HIDE DEF n
<1>5. QED
  BY <1>2, <1>4 DEF Moves, Others

LEMMA NothingTyped ==
  /\ Nothing \in ReqType /\ Nothing.pc = "idle" /\ Nothing.on = FALSE
BY DEF Nothing, ReqType

(* The workers' table. *)
LEMMA WorkerKinds ==
  /\ \A k \in Kinds : Worker[k].sized <=> k = "whisper"
  /\ \A k \in Kinds : Worker[k].loads <=> k = "text"
<1>1. /\ Worker["text"] = TextWorker /\ Worker["whisper"] = WhisperWorker
      /\ Worker["tts"] = TtsWorker /\ Worker["image"] = ImageWorker
      /\ Worker["video"] = VideoWorker
  BY DEF Worker
<1>2. QED
  BY <1>1 DEF Kinds, TextWorker, WhisperWorker, TtsWorker, ImageWorker, VideoWorker

(* A request at work uses a worker. *)
LEMMA KindUsed ==
  ASSUME Inv, NEW t \in Tasks, req[t].pc \notin {"idle", "replied"}
  PROVE  Kind(t) \in Used
BY DEF Inv, TaskOK, Shape, Used, Kind, At

(* A step of one request that leaves the workers alone and only takes or     *)
(* gives back its own lock need only be right for that request.              *)
LEMMA OneRequest ==
  ASSUME Inv, NEW t \in Tasks, UNCHANGED <<worker, size>>, weights' \subseteq Endpoints,
         req' \in [Tasks -> ReqType], Others(t), lock' \in [Procs -> Tasks \cup {None}],
         \A p \in Procs : lock'[p] = lock[p] \/ (lock[p] \in {None, t} /\ lock'[p] \in {None, t}),
         \A p \in Procs : lock'[p] = t => LockOK(p)',
         TaskOK(t)'
  PROVE  Inv'
<1>1. Typed'
  BY DEF Inv, Typed
<1>2. ASSUME NEW u \in Tasks, u # t
      PROVE  TaskOK(u)'
  <2>1. TaskOK(u) /\ req'[u] = req[u]
    BY <1>2 DEF Inv, Others
  <2>2. req[u].proc \in Procs /\ lock[req[u].proc] = u => lock'[req[u].proc] = u
    BY <1>2, KindsAssumption
  <2>3. Shape(u)'
    BY <2>1, <2>2 DEF TaskOK, Shape, At, Kind, Up, Provisioning
  <2>4. Current(u)' /\ Unfit(u)'
    BY <2>1 DEF TaskOK, Current, Unfit, Fits, At, Kind, Up
  <2>5. QED
    BY <2>3, <2>4 DEF TaskOK
<1>3. ASSUME NEW p \in Procs
      PROVE  LockOK(p)'
  <2>1. CASE lock'[p] = t
    BY <2>1
  <2>2. CASE lock'[p] # t /\ lock'[p] # None
    <3>1. lock'[p] = lock[p] /\ lock[p] \in Tasks
      BY <2>2 DEF Inv, Typed
    <3>2. QED
      BY <2>2, <3>1 DEF Inv, LockOK, Others
  <2>3. QED
    BY <2>1, <2>2 DEF LockOK
<1>4. QED
  BY <1>1, <1>2, <1>3 DEF Inv

-----------------------------------------------------------------------------
(* The steps. *)

LEMMA InitInv == Init => Inv
<1> SUFFICES ASSUME Init PROVE Inv
  OBVIOUS
<1>1. Absent \in WorkerType
  BY DEF Absent, WorkerType
<1>2. Typed
  BY <1>1, NothingTyped DEF Init, Typed
<1>3. \A p \in Procs : LockOK(p)
  BY DEF Init, LockOK
<1>4. \A t \in Tasks : req[t].pc = "idle" /\ req[t].on = FALSE
  BY NothingTyped DEF Init
<1>5. \A t \in Tasks : TaskOK(t)
  BY <1>4 DEF TaskOK, Shape, Current, Unfit, At, Provisioning
<1>6. QED
  BY <1>2, <1>3, <1>5 DEF Inv

LEMMA ServeInv ==
  ASSUME Inv, NEW t \in Tasks, NEW p \in Procs, NEW k \in Endpoints, NEW stream \in BOOLEAN,
         At(t, "idle"), Serve(t, p, k, stream), UNCHANGED <<worker, weights, lock, size>>
  PROVE  Inv'
<1> DEFINE asked == [Nothing EXCEPT !.proc = p, !.key = k, !.stream = stream]
           there == [asked EXCEPT !.pc = "waiting"]
           error == [asked EXCEPT !.pc = "replied"]
           here == [error EXCEPT !.reply = "error"]
<1>1. asked \in ReqType /\ asked.proc = p /\ asked.key = k /\ asked.on = FALSE
  BY DEF Nothing, ReqType
<1>2. there \in ReqType /\ there.proc = p /\ there.key = k /\ there.on = FALSE
      /\ there.pc = "waiting"
  <2> HIDE DEF asked
  <2>1. QED
    BY <1>1 DEF ReqType
<1>3. here \in ReqType /\ here.proc = p /\ here.key = k /\ here.on = FALSE
      /\ here.pc = "replied"
  <2>1. error \in ReqType /\ error.proc = p /\ error.key = k /\ error.on = FALSE
        /\ error.pc = "replied"
    <3> HIDE DEF asked
    <3>1. QED
      BY <1>1 DEF ReqType
  <2> HIDE DEF error
  <2>2. QED
    BY <2>1 DEF ReqType
<1>4. req' = [req EXCEPT ![t] = IF ServesItself(p, k) THEN here ELSE there]
  BY DEF Serve
<1> HIDE DEF asked, there, here, error
<1>5. req' \in [Tasks -> ReqType] /\ Others(t)
  BY <1>2, <1>3, <1>4 DEF Inv, Typed, Others
<1>6. req'[t] = here \/ (~ ServesItself(p, k) /\ req'[t] = there)
  BY <1>4 DEF Inv, Typed
<1>7. ~ ServesItself(p, k) => /\ KindOf[k] \in Kinds
                              /\ KindOf[k] = "whisper" => p = Gateway
  BY KindsAssumption DEF ServesItself, Procs
<1>8. TaskOK(t)'
  BY <1>2, <1>3, <1>6, <1>7 DEF TaskOK, Shape, Current, Unfit, At, Kind, Provisioning
<1>9. \A q \in Procs : lock'[q] = t => LockOK(q)'
  BY KindsAssumption DEF Inv, LockOK, At, Provisioning
<1>10. QED
  BY <1>5, <1>8, <1>9, OneRequest DEF Inv, Typed

LEMMA EnterInv ==
  ASSUME Inv, NEW t \in Tasks, Enter(t)
  PROVE  Inv'
<1>1. Moves(t, "inspecting", req[t].on) /\ req[t].proc \in Procs
  BY GotoMoves DEF Enter, Inv, Typed, TaskOK, Shape, At
<1>2. TaskOK(t)'
  BY <1>1 DEF Enter, Inv, Typed, TaskOK, Shape, Current, Unfit, Moves, At, Kind, Provisioning
<1>3. \A p \in Procs : lock'[p] = t => LockOK(p)'
  BY <1>1, KindsAssumption DEF Enter, Inv, Typed, LockOK, Moves, At, Provisioning
<1>4. QED
  BY <1>1, <1>2, <1>3, OneRequest DEF Enter, Inv, Typed, Moves

(* A request that holds its lock keeps it or gives it back. *)
LEMMA HolderInv ==
  ASSUME Inv, NEW t \in Tasks, req[t].pc \in Provisioning, NEW pc, NEW on,
         Moves(t, pc, on), UNCHANGED <<worker, size>>, weights' \subseteq Endpoints,
         \/ UNCHANGED lock /\ pc \in Provisioning
         \/ Unlock(t) /\ pc \notin Provisioning,
         TaskOK(t)'
  PROVE  Inv'
<1>1. lock[req[t].proc] = t /\ req[t].proc \in Procs
  BY DEF Inv, TaskOK, Shape, Provisioning, At
<1>2. \A p \in Procs : lock[p] = t => p = req[t].proc
  BY KindsAssumption DEF Inv, LockOK
<1>3. \A p \in Procs : lock'[p] = t => LockOK(p)'
  BY <1>1, <1>2, KindsAssumption DEF Unlock, Inv, Typed, LockOK, Moves
<1>4. QED
  BY <1>1, <1>3, OneRequest DEF Unlock, Inv, Typed, Moves

LEMMA StartedInv ==
  ASSUME Inv, NEW t \in Tasks, req[t].pc \in {"inspecting", "polling"}, Started(t),
         req[t].pc = "inspecting" => Fits(t), UNCHANGED <<worker, weights, size>>
  PROVE  Inv'
<1>1. req[t].pc \in Provisioning /\ Kind(t) \in Kinds /\ Shape(t) /\ Current(t)
  BY DEF Inv, TaskOK, Shape, Provisioning
<1>2. Kind(t) = "whisper" /\ Up("whisper") => worker["whisper"].size = size
  BY <1>1, WorkerKinds DEF Fits, Current
<1>3. CASE Worker[Kind(t)].loads
  <2>1. Moves(t, "listing", req[t].on) /\ UNCHANGED lock
    BY <1>3, GotoMoves DEF Started, Inv, Typed
  <2>2. TaskOK(t)'
    BY <1>1, <1>3, <2>1, WorkerKinds
       DEF TaskOK, Shape, Current, Unfit, Moves, At, Kind, Provisioning
  <2>3. QED
    BY <1>1, <2>1, <2>2, HolderInv DEF Inv, Typed, Provisioning
<1>4. CASE ~ Worker[Kind(t)].loads
  <2>1. Moves(t, "posting", req[t].on) /\ Unlock(t)
    BY <1>4, GotoMoves DEF Started, Inv, Typed
  <2>2. TaskOK(t)'
    BY <1>1, <1>2, <2>1 DEF TaskOK, Shape, Current, Unfit, Moves, At, Kind, Provisioning, Up
  <2>3. QED
    BY <1>1, <2>1, <2>2, HolderInv DEF Inv, Typed, Provisioning
<1>5. QED
  BY <1>3, <1>4

LEMMA InspectInv ==
  ASSUME Inv, NEW t \in Tasks, Inspect(t)
  PROVE  Inv'
<1>1. CASE Fits(t)
  BY <1>1, StartedInv DEF Inspect, At
<1>2. CASE ~ Fits(t)
  <2>1. Moves(t, "removing", req[t].on) /\ UNCHANGED <<worker, weights, lock, size>>
    BY <1>2, GotoMoves DEF Inspect, Inv, Typed
  <2>2. Shape(t) /\ At(t, "inspecting")
    BY DEF Inspect, Inv, TaskOK
  <2>3. TaskOK(t)'
    BY <1>2, <2>1, <2>2 DEF TaskOK, Shape, Current, Unfit, Moves, At, Kind, Fits, Up,
       Provisioning
  <2>4. QED
    BY <2>1, <2>2, <2>3, HolderInv DEF Inv, Typed, At, Provisioning
<1>3. QED
  BY <1>1, <1>2

LEMMA EnsureModelInv ==
  ASSUME Inv, NEW t \in Tasks, EnsureModel(t)
  PROVE  Inv'
<1>1. /\ At(t, "listing") /\ Unlock(t) /\ UNCHANGED <<worker, size>>
      /\ weights' \in {weights, weights \cup {req[t].key}}
      /\ Goto(t, "posting") \/ Reply(t, "error")
  BY DEF EnsureModel
<1>2. Shape(t) /\ req[t].key \in Endpoints /\ weights' \subseteq Endpoints
  BY <1>1 DEF Inv, Typed, TaskOK, Shape, At
<1>3. CASE Reply(t, "error")
  <2>1. Moves(t, "replied", FALSE)
    BY <1>3, ReplyMoves DEF Inv, Typed
  <2>2. TaskOK(t)'
    BY <1>1, <1>2, <2>1 DEF TaskOK, Shape, Current, Unfit, Moves, At, Kind, Provisioning
  <2>3. QED
    BY <1>1, <1>2, <2>1, <2>2, HolderInv DEF At, Provisioning
<1>4. CASE Goto(t, "posting")
  <2>1. Moves(t, "posting", req[t].on)
    BY <1>4, GotoMoves DEF Inv, Typed
  <2>2. TaskOK(t)'
    BY <1>1, <1>2, <2>1 DEF TaskOK, Shape, Current, Unfit, Moves, At, Kind, Provisioning
  <2>3. QED
    BY <1>1, <1>2, <2>1, <2>2, HolderInv DEF At, Provisioning
<1>5. QED
  BY <1>1, <1>3, <1>4

(* Cutting requests off leaves them otherwise as they are. *)
CutOff(u) == [req[u] EXCEPT !.on = FALSE]

LEMMA CutOffTyped ==
  ASSUME req \in [Tasks -> ReqType], NEW u \in Tasks
  PROVE  /\ CutOff(u) \in ReqType /\ CutOff(u).on = FALSE
         /\ CutOff(u).pc = req[u].pc /\ CutOff(u).proc = req[u].proc
         /\ CutOff(u).key = req[u].key
BY DEF CutOff, ReqType

(* Under its lock a request removes the container of its kind; others that   *)
(* wait for it are cut off.                                                  *)
LEMMA RemoveEffect ==
  ASSUME Inv, NEW t \in Tasks, Remove(t)
  PROVE  /\ req' \in [Tasks -> ReqType]
         /\ \A u \in Tasks \ {t} :
              /\ req'[u].pc = req[u].pc /\ req'[u].proc = req[u].proc
              /\ req'[u].key = req[u].key
              /\ req'[u].on => req[u].on /\ ~ (At(u, "answering") /\ Kind(u) = Kind(t))
              /\ req'[u].on # req[u].on => At(u, "answering") /\ Kind(u) = Kind(t)
         /\ req'[t].proc = req[t].proc /\ req'[t].key = req[t].key /\ req'[t].on = FALSE
         /\ \/ req'[t].pc = "running" /\ UNCHANGED lock
            \/ req'[t].pc = "replied" /\ Unlock(t)
<1> DEFINE cut == [u \in Tasks |-> IF At(u, "answering") /\ Kind(u) = Kind(t)
                                     THEN CutOff(u) ELSE req[u]]
           go == [req[t] EXCEPT !.pc = "running"]
           gone == [req[t] EXCEPT !.pc = "replied"]
           stop == [gone EXCEPT !.reply = "error"]
<1>1. /\ At(t, "removing") /\ req \in [Tasks -> ReqType] /\ req[t].on = FALSE
  BY DEF Remove, Inv, Typed, TaskOK, Shape, At, ReqType
<1>2. cut \in [Tasks -> ReqType] /\ cut[t] = req[t]
  BY <1>1, CutOffTyped DEF At
<1>3. \/ req' = [cut EXCEPT ![t] = go] /\ UNCHANGED lock
      \/ req' = [cut EXCEPT ![t] = stop] /\ Unlock(t)
  <2> HIDE DEF go, stop, gone, cut
  <2>1. [cut EXCEPT ![t].pc = "running"] = [cut EXCEPT ![t] = go]
    BY <1>2 DEF go
  <2>2. [cut EXCEPT ![t].pc = "replied", ![t].reply = "error"] = [cut EXCEPT ![t] = stop]
    BY <1>2 DEF stop, gone
  <2>3. \/ req' = [cut EXCEPT ![t].pc = "running"] /\ UNCHANGED lock
        \/ req' = [cut EXCEPT ![t].pc = "replied", ![t].reply = "error"] /\ Unlock(t)
    BY DEF Remove, cut, CutOff
  <2>4. QED
    BY <2>1, <2>2, <2>3
<1>4. /\ go \in ReqType /\ go.pc = "running" /\ go.proc = req[t].proc
      /\ go.key = req[t].key /\ go.on = FALSE
  BY <1>1 DEF ReqType
<1>5. /\ stop \in ReqType /\ stop.pc = "replied" /\ stop.proc = req[t].proc
      /\ stop.key = req[t].key /\ stop.on = FALSE
  <2>1. /\ gone \in ReqType /\ gone.pc = "replied" /\ gone.proc = req[t].proc
        /\ gone.key = req[t].key /\ gone.on = FALSE
    BY <1>1 DEF ReqType
  <2> HIDE DEF gone
  <2>2. QED
    BY <2>1 DEF ReqType
<1>6. \A u \in Tasks \ {t} : cut[u] = IF At(u, "answering") /\ Kind(u) = Kind(t)
                                        THEN CutOff(u) ELSE req[u]
  OBVIOUS
<1> HIDE DEF cut, go, stop, gone
<1>7. \A u \in Tasks \ {t} : req'[u] = cut[u]
  BY <1>2, <1>3
<1>8. ASSUME NEW u \in Tasks \ {t}
      PROVE  /\ req'[u].pc = req[u].pc /\ req'[u].proc = req[u].proc
             /\ req'[u].key = req[u].key
             /\ req'[u].on => req[u].on /\ ~ (At(u, "answering") /\ Kind(u) = Kind(t))
             /\ req'[u].on # req[u].on => At(u, "answering") /\ Kind(u) = Kind(t)
  BY <1>1, <1>6, <1>7, <1>8, CutOffTyped
<1>9. req' \in [Tasks -> ReqType] /\ req'[t] \in {go, stop}
  BY <1>2, <1>3, <1>4, <1>5
<1>10. QED
  BY <1>2, <1>3, <1>4, <1>5, <1>8, <1>9

LEMMA RemoveInv ==
  ASSUME Inv, NEW t \in Tasks, Remove(t)
  PROVE  Inv'
<1> USE RemoveEffect
<1>1. At(t, "removing") /\ UNCHANGED <<weights, size>>
      /\ worker' = [worker EXCEPT ![Kind(t)] = Absent]
  BY DEF Remove
<1>2. Kind(t) \in Used /\ Absent \in WorkerType /\ Absent.state = "absent"
  BY <1>1, KindUsed DEF At, Absent, WorkerType
<1>3. worker' \in [Used -> WorkerType] /\ ~ Up(Kind(t))'
  <2>1. worker' \in [Used -> WorkerType] /\ worker'[Kind(t)] = Absent
    BY <1>1, <1>2 DEF Inv, Typed
  <2>2. Kind(t)' = Kind(t)
    BY DEF Kind
  <2>3. QED
    BY <1>2, <2>1, <2>2 DEF Up
<1>4. Shape(t) /\ lock[req[t].proc] = t /\ req[t].proc \in Procs
  BY <1>1 DEF Inv, TaskOK, Shape, At, Provisioning
<1>5. Typed'
  BY <1>1, <1>3, <1>4 DEF Inv, Typed, Unlock
<1>6. ASSUME NEW p \in Procs
      PROVE  LockOK(p)'
  <2>1. LockOK(p) /\ t # None
    BY KindsAssumption DEF Inv
  <2>2. CASE lock[p] = t
    <3>1. req[t].proc = p
      BY <2>1, <2>2 DEF LockOK
    <3>2. CASE req'[t].pc = "running" /\ UNCHANGED lock
      BY <2>2, <3>1, <3>2 DEF LockOK, Provisioning
    <3>3. CASE Unlock(t)
      BY <3>1, <3>3 DEF LockOK, Unlock, Inv, Typed
    <3>4. QED
      BY <3>2, <3>3
  <2>3. CASE lock[p] # t
    <3>1. lock'[p] = lock[p]
      BY <1>4, <2>3 DEF Inv, Typed, Unlock
    <3>2. lock[p] # None => lock[p] \in Tasks \ {t}
      BY <2>3 DEF Inv, Typed
    <3>3. ASSUME NEW u \in Tasks \ {t}
          PROVE  req'[u].pc = req[u].pc /\ req'[u].proc = req[u].proc
      BY <3>3
    <3>4. QED
      BY <2>1, <3>1, <3>2, <3>3 DEF LockOK
  <2>4. QED
    BY <2>2, <2>3
<1>7. ASSUME NEW u \in Tasks
      PROVE  TaskOK(u)'
  <2>1. TaskOK(u) /\ Kind(u)' = Kind(u)
    BY DEF Inv, Kind
  <2>2. \A k \in Used : Up(k)' => k # Kind(t) /\ Up(k) /\ worker'[k] = worker[k]
    BY <1>1, <1>2 DEF Inv, Typed, Up
  <2>3. CASE u = t
    <3>1. Shape(t)'
      BY <1>1, <1>4, <2>1, <2>3 DEF Shape, At, Provisioning
    <3>2. QED
      BY <2>3, <3>1 DEF TaskOK, Current, Unfit, At
  <2>4. CASE u # t
    <3>1. lock[req[u].proc] = u /\ req[u].proc \in Procs => lock'[req[u].proc] = u
      BY <1>4, <2>4 DEF Inv, Typed, Unlock
    <3>2. req'[u].on => Up(Kind(u))'
      <4>1. ASSUME req'[u].on
            PROVE  Up(Kind(u))'
        <5>1. At(u, "answering") /\ Up(Kind(u)) /\ Kind(u) # Kind(t)
          BY <2>1, <2>4, <4>1 DEF TaskOK, Shape
        <5>2. Kind(u) \in Used
          BY <5>1, KindUsed DEF At
        <5>3. worker'[Kind(u)] = worker[Kind(u)]
          BY <1>1, <5>1, <5>2 DEF Inv, Typed
        <5>4. QED
          BY <2>1, <5>1, <5>3 DEF Up
      <4>2. QED
        BY <4>1
    <3>3. Shape(u)'
      BY <2>1, <2>4, <3>1, <3>2 DEF TaskOK, Shape, At, Provisioning
    <3>4. Current(u)'
      <4>1. "whisper" \in Used \/ ~ (req[u].pc \in {"polling", "posting", "answering"}
                                      /\ Kind(u) = "whisper")
        BY KindUsed
      <4>2. QED
        BY <1>1, <2>1, <2>2, <2>4, <4>1 DEF TaskOK, Current, At
    <3>5. Unfit(u)'
      <4>1. ASSUME At(u, "removing"), Fits(u)'
            PROVE  worker'[Kind(u)].by # req[u].proc
        <5>1. Kind(u) \in Used /\ Up(Kind(u))'
          BY <2>1, <4>1, KindUsed DEF At, Fits
        <5>2. worker'[Kind(u)] = worker[Kind(u)] /\ Up(Kind(u))
          BY <2>1, <2>2, <5>1
        <5>3. Fits(u)
          BY <1>1, <2>1, <4>1, <5>2 DEF Fits
        <5>4. QED
          BY <2>1, <4>1, <5>2, <5>3 DEF TaskOK, Unfit
      <4>2. QED
        BY <2>1, <2>4, <4>1 DEF Unfit, At
    <3>6. QED
      BY <3>3, <3>4, <3>5 DEF TaskOK
  <2>5. QED
    BY <2>3, <2>4
<1>8. QED
  BY <1>5, <1>6, <1>7 DEF Inv

(* A container made under the lock has the size that is wanted now. *)
LEMMA RunInv ==
  ASSUME Inv, NEW t \in Tasks, Run(t)
  PROVE  Inv'
<1>1. /\ At(t, "running") /\ UNCHANGED <<weights, size>>
      /\ Shape(t) /\ req[t].pc \in Provisioning
  BY DEF Run, Inv, TaskOK, At, Provisioning
<1>2. CASE Reply(t, "error") /\ Unlock(t) /\ UNCHANGED worker
  <2>1. Moves(t, "replied", FALSE)
    BY <1>2, ReplyMoves DEF Inv, Typed
  <2>2. TaskOK(t)'
    BY <1>1, <2>1 DEF TaskOK, Shape, Current, Unfit, Moves, At, Kind, Provisioning
  <2>3. QED
    BY <1>1, <1>2, <2>1, <2>2, HolderInv DEF Inv, Typed, Provisioning
<1>3. CASE /\ worker[Kind(t)] = Absent /\ Goto(t, "polling") /\ UNCHANGED lock
           /\ worker' = [worker EXCEPT ![Kind(t)] =
                [state |-> "up", by |-> req[t].proc,
                 size |-> IF Worker[Kind(t)].sized THEN size ELSE None]]
  <2> DEFINE new == [state |-> "up", by |-> req[t].proc,
                     size |-> IF Worker[Kind(t)].sized THEN size ELSE None]
  <2>1. Moves(t, "polling", req[t].on)
    BY <1>3, GotoMoves DEF Inv, Typed
  <2>2. Kind(t) \in Used /\ Kind(t) \in Kinds /\ req[t].proc \in Procs /\ ~ req[t].on
    BY <1>1, KindUsed DEF At, Shape
  <2>3. new \in WorkerType /\ new.state = "up" /\ new.by = req[t].proc
        /\ (Kind(t) = "whisper" => new.size = size)
    BY <2>2, WorkerKinds DEF WorkerType, Inv, Typed
  <2> HIDE DEF new
  <2>4. /\ worker' \in [Used -> WorkerType] /\ worker'[Kind(t)] = new
        /\ \A k \in Used : k # Kind(t) => worker'[k] = worker[k]
    BY <1>3, <2>2, <2>3 DEF Inv, Typed, new
  <2>5. ~ Up(Kind(t)) /\ (\A u \in Tasks : Kind(u)' = Kind(u))
    BY <1>3, <2>1 DEF Up, Absent, Kind, Moves, Others
  <2>6. \A k \in Used : Up(k)' <=> Up(k) \/ k = Kind(t)
    BY <2>3, <2>4 DEF Up
  <2>7. \A p \in Procs : LockOK(p)'
    BY <1>1, <1>3, <2>1 DEF Inv, Typed, LockOK, Moves, Others, Provisioning
  <2>8. ASSUME NEW u \in Tasks
        PROVE  TaskOK(u)'
    <3>1. TaskOK(u) /\ Kind(u)' = Kind(u)
      BY <2>5 DEF Inv
    <3>2. CASE u = t
      <4>1. Shape(t)'
        BY <1>1, <1>3, <2>1, <2>2, <3>1, <3>2 DEF Shape, Moves, At, Provisioning
      <4>2. Current(t)'
        BY <1>1, <2>3, <2>4, <3>1, <3>2 DEF Current, Moves
      <4>3. QED
        BY <2>1, <3>2, <4>1, <4>2 DEF TaskOK, Unfit, Moves, At
    <3>3. CASE u # t
      <4>1. req'[u] = req[u]
        BY <2>1, <3>3 DEF Moves, Others
      <4>2. Shape(u)'
        <5>1. req[u].on => Kind(u) \in Used
          BY <3>1, KindUsed DEF TaskOK, Shape, At
        <5>2. req[u].on => Up(Kind(u))'
          BY <2>6, <3>1, <5>1 DEF TaskOK, Shape
        <5>3. QED
          BY <1>3, <3>1, <4>1, <5>2 DEF TaskOK, Shape, At, Up
      <4>3. Current(u)'
        <5>1. ASSUME req[u].pc \in {"polling", "posting", "answering"},
                     Kind(u) = "whisper", Up("whisper")'
              PROVE  worker'["whisper"].size = size
          <6>1. "whisper" \in Used
            BY <5>1, KindUsed
          <6>2. CASE Kind(t) = "whisper"
            BY <2>3, <2>4, <6>2
          <6>3. CASE Kind(t) # "whisper"
            BY <2>4, <2>6, <3>1, <5>1, <6>1, <6>3 DEF TaskOK, Current
          <6>4. QED
            BY <6>2, <6>3
        <5>2. QED
          BY <1>1, <3>1, <4>1, <5>1 DEF Current
      <4>4. Unfit(u)'
        <5>1. ASSUME At(u, "removing"), Fits(u)'
              PROVE  worker'[Kind(u)].by # req[u].proc
          <6>1. Kind(u) \in Used
            BY <5>1, KindUsed DEF At
          <6>2. CASE Kind(u) = Kind(t)
            <7>1. lock[req[u].proc] = u /\ lock[req[t].proc] = t
              BY <1>1, <3>1, <5>1 DEF TaskOK, Shape, At, Provisioning
            <7>2. QED
              BY <2>3, <2>4, <3>3, <6>2, <7>1
          <6>3. CASE Kind(u) # Kind(t)
            <7>1. worker'[Kind(u)] = worker[Kind(u)] /\ Up(Kind(u))
              BY <2>4, <2>6, <3>1, <5>1, <6>1, <6>3 DEF Fits
            <7>2. Fits(u)
              BY <1>1, <3>1, <5>1, <7>1 DEF Fits
            <7>3. QED
              BY <3>1, <5>1, <7>1, <7>2 DEF TaskOK, Unfit
          <6>4. QED
            BY <6>2, <6>3
        <5>2. QED
          BY <3>1, <4>1, <5>1 DEF Unfit, At
      <4>5. QED
        BY <4>2, <4>3, <4>4 DEF TaskOK
    <3>4. QED
      BY <3>2, <3>3
  <2>9. Typed'
    BY <1>1, <1>3, <2>1, <2>4 DEF Inv, Typed, Moves
  <2>10. QED
    BY <2>7, <2>8, <2>9 DEF Inv
<1>4. QED
  BY <1>2, <1>3 DEF Run

(* Outside the lock only the request itself changes. *)
LEMMA UnlockedInv ==
  ASSUME Inv, NEW t \in Tasks, req[t].pc \notin Provisioning,
         UNCHANGED <<worker, weights, lock, size>>,
         req' \in [Tasks -> ReqType], Others(t), TaskOK(t)'
  PROVE  Inv'
<1>1. \A p \in Procs : lock[p] # t
  BY KindsAssumption DEF Inv, LockOK
<1>2. QED
  BY <1>1, OneRequest DEF Inv, Typed

LEMMA ReplyInv ==
  ASSUME Inv, NEW t \in Tasks, req[t].pc \in {"posting", "answering"},
         NEW r \in {"output", "empty", "error"}, Reply(t, r),
         UNCHANGED <<worker, weights, lock, size>>
  PROVE  Inv'
<1>1. Moves(t, "replied", FALSE) /\ Shape(t)
  BY ReplyMoves DEF Inv, Typed, TaskOK
<1>2. TaskOK(t)'
  BY <1>1 DEF TaskOK, Shape, Current, Unfit, Moves, At, Kind, Provisioning
<1>3. QED
  BY <1>1, <1>2, UnlockedInv DEF Moves, Provisioning

LEMMA PostInv ==
  ASSUME Inv, NEW t \in Tasks, Post(t)
  PROVE  Inv'
<1> DEFINE m == [req[t] EXCEPT !.pc = "answering"]
           n == [m EXCEPT !.on = TRUE]
<1>1. /\ m \in ReqType /\ m.pc = "answering"
      /\ m.proc = req[t].proc /\ m.key = req[t].key
  BY DEF Inv, Typed, ReqType
<1>2. /\ n \in ReqType /\ n.pc = "answering" /\ n.on = TRUE
      /\ n.proc = req[t].proc /\ n.key = req[t].key
  <2> HIDE DEF m
  <2>1. QED
    BY <1>1 DEF ReqType
<1>3. req' = [req EXCEPT ![t] = n]
  BY DEF Post
<1> HIDE DEF m, n
<1>4. Moves(t, "answering", TRUE)
  BY <1>2, <1>3 DEF Inv, Typed, Moves, Others
<1>5. /\ TaskOK(t) /\ At(t, "posting") /\ Up(Kind(t)) /\ Kind(t)' = Kind(t)
      /\ UNCHANGED <<worker, weights, lock, size>>
  BY <1>4 DEF Inv, Post, Kind, Moves
<1>6. TaskOK(t)'
  BY <1>4, <1>5 DEF TaskOK, Shape, Current, Unfit, Moves, At, Up, Provisioning
<1>7. QED
  BY <1>4, <1>5, <1>6, UnlockedInv DEF Moves, At, Provisioning

LEMMA TakeInv ==
  ASSUME Inv, NEW t \in Tasks, Take(t)
  PROVE  Inv'
<1>1. req' \in [Tasks -> ReqType] /\ Others(t) /\ req'[t].pc = "idle" /\ req'[t].on = FALSE
  BY NothingTyped DEF Take, Inv, Typed, Others
<1>2. TaskOK(t)'
  BY <1>1 DEF TaskOK, Shape, Current, Unfit, At, Provisioning
<1>3. QED
  BY <1>1, <1>2, UnlockedInv DEF Take, At, Provisioning

(* A worker that dies cuts off those that wait for it. *)
LEMMA DieInv ==
  ASSUME Inv, NEW w \in Used, Die(w)
  PROVE  Inv'
<1>1. UNCHANGED <<weights, lock, size>>
  BY DEF Die
<1>2. /\ worker' \in [Used -> WorkerType] /\ ~ Up(w)'
      /\ \A k \in Used : k # w => worker'[k] = worker[k]
  <2> DEFINE n == [worker[w] EXCEPT !.state = "down"]
  <2>1. n \in WorkerType /\ n.state = "down"
    BY DEF Inv, Typed, WorkerType
  <2>2. worker' = [worker EXCEPT ![w] = n]
    BY DEF Die
  <2> HIDE DEF n
  <2>3. QED
    BY <2>1, <2>2 DEF Inv, Typed, Up
<1>3. req' \in [Tasks -> ReqType]
  BY CutOffTyped DEF Die, Inv, Typed, CutOff
<1>4. ASSUME NEW u \in Tasks
      PROVE  /\ req'[u].pc = req[u].pc /\ req'[u].proc = req[u].proc
             /\ req'[u].key = req[u].key
             /\ req'[u].on => req[u].on /\ ~ (At(u, "answering") /\ Kind(u) = w)
  <2>1. req'[u] = IF At(u, "answering") /\ Kind(u) = w THEN CutOff(u) ELSE req[u]
    BY DEF Die, CutOff
  <2>2. QED
    BY <2>1, CutOffTyped DEF Inv, Typed
<1>5. ASSUME NEW u \in Tasks
      PROVE  TaskOK(u)'
  <2>1. TaskOK(u) /\ Kind(u)' = Kind(u)
    BY <1>4 DEF Inv, Kind
  <2>2. req[u].pc \notin {"idle", "replied"} => Kind(u) \in Used
    BY KindUsed
  <2>3. \A k \in Used : Up(k)' => k # w /\ Up(k) /\ worker'[k] = worker[k]
    BY <1>2 DEF Up
  <2>4. Shape(u)'
    <3>1. ASSUME req'[u].on
          PROVE  At(u, "answering") /\ Up(Kind(u))'
      <4>1. At(u, "answering") /\ Up(Kind(u)) /\ Kind(u) # w
        BY <1>4, <2>1, <3>1 DEF TaskOK, Shape
      <4>2. worker'[Kind(u)] = worker[Kind(u)]
        BY <1>2, <2>2, <4>1 DEF At
      <4>3. QED
        BY <2>1, <4>1, <4>2 DEF Up
    <3>2. QED
      BY <1>1, <1>4, <2>1, <3>1 DEF TaskOK, Shape, At, Provisioning
  <2>5. Current(u)'
    BY <1>1, <1>4, <2>1, <2>2, <2>3 DEF TaskOK, Current
  <2>6. Unfit(u)'
    <3>1. ASSUME At(u, "removing"), Fits(u)'
          PROVE  worker'[Kind(u)].by # req[u].proc
      <4>1. worker'[Kind(u)] = worker[Kind(u)] /\ Up(Kind(u))
        BY <2>1, <2>2, <2>3, <3>1 DEF At, Fits
      <4>2. Fits(u)
        BY <1>1, <2>1, <3>1, <4>1 DEF Fits
      <4>3. QED
        BY <2>1, <3>1, <4>1, <4>2 DEF TaskOK, Unfit
    <3>2. QED
      BY <1>4, <2>1, <3>1 DEF Unfit, At
  <2>7. QED
    BY <2>4, <2>5, <2>6 DEF TaskOK
<1>6. \A p \in Procs : LockOK(p)'
  BY <1>1, <1>4 DEF Inv, Typed, LockOK
<1>7. QED
  BY <1>1, <1>2, <1>3, <1>5, <1>6 DEF Inv, Typed

(* With its process go its requests and its lock; transcriptions at the      *)
(* gateway never see two sizes.                                               *)
LEMMA RestartInv ==
  ASSUME Inv, NEW p \in Procs, NEW s \in Sizes, Restart(p, s)
  PROVE  Inv'
<1>1. /\ UNCHANGED <<worker, weights>>
      /\ size' = (IF p = Gateway THEN s ELSE size)
      /\ lock' = [lock EXCEPT ![p] = None]
      /\ req' = [t \in Tasks |-> IF req[t].proc = p THEN Nothing ELSE req[t]]
  BY DEF Restart
<1>2. Typed'
  BY <1>1, NothingTyped DEF Inv, Typed
<1>3. ASSUME NEW q \in Procs
      PROVE  LockOK(q)'
  BY <1>1 DEF Inv, Typed, LockOK
<1>4. ASSUME NEW u \in Tasks
      PROVE  TaskOK(u)'
  <2>1. CASE req[u].proc = p
    <3>1. req'[u].pc = "idle" /\ req'[u].on = FALSE
      BY <1>1, <2>1, NothingTyped
    <3>2. QED
      BY <3>1 DEF TaskOK, Shape, Current, Unfit, At, Provisioning
  <2>2. CASE req[u].proc # p
    <3>1. req'[u] = req[u] /\ TaskOK(u) /\ Kind(u)' = Kind(u)
      BY <1>1, <2>2 DEF Inv, Kind
    <3>2. lock'[req[u].proc] = lock[req[u].proc]
      BY <1>1, <2>2 DEF Inv, Typed
    <3>3. req[u].pc \notin {"idle", "replied"} /\ Kind(u) = "whisper" => size' = size
      BY <1>1, <2>2, <3>1 DEF TaskOK, Shape
    <3>4. Shape(u)' /\ Current(u)'
      BY <1>1, <3>1, <3>2, <3>3 DEF TaskOK, Shape, Current, At, Up
    <3>5. Unfit(u)'
      <4>1. At(u, "removing") => (Fits(u)' <=> Fits(u))
        BY <1>1, <3>1, <3>3, WorkerKinds DEF TaskOK, Shape, Fits, Up, At
      <4>2. QED
        BY <1>1, <3>1, <4>1 DEF TaskOK, Unfit, At
    <3>6. QED
      BY <3>4, <3>5 DEF TaskOK
  <2>3. QED
    BY <2>1, <2>2
<1>5. QED
  BY <1>2, <1>3, <1>4 DEF Inv

LEMMA NextInv == Inv /\ [Next]_vars => Inv'
<1> SUFFICES ASSUME Inv, [Next]_vars PROVE Inv'
  OBVIOUS
<1>1. ASSUME NEW t \in Tasks, NEW k \in Endpoints, RunEndpoint(t, k) \/ RunEndpointStream(t, k)
      PROVE  Inv'
  <2>1. PICK p \in Procs, stream \in BOOLEAN :
          /\ At(t, "idle") /\ Serve(t, p, k, stream)
          /\ UNCHANGED <<worker, weights, lock, size>>
    BY <1>1 DEF RunEndpoint, RunEndpointStream, Procs
  <2>2. QED
    BY <2>1, ServeInv
<1>2. ASSUME NEW t \in Tasks, Handle(t)
      PROVE  Inv'
  <2>1. CASE Inspect(t) \/ Remove(t) \/ Run(t) \/ EnsureModel(t) \/ Post(t) \/ Take(t)
    BY <2>1, InspectInv, RemoveInv, RunInv, EnsureModelInv, PostInv, TakeInv
  <2>2. CASE Poll(t)
    BY <2>2, StartedInv DEF Poll, At
  <2>3. CASE Fail(t)
    BY <2>3, ReplyInv DEF Fail, At
  <2>4. CASE Answer(t)
    <3>1. PICK r \in {"output", "empty", "error"} : Reply(t, r)
      BY <2>4 DEF Answer
    <3>2. QED
      BY <2>4, <3>1, ReplyInv DEF Answer, At
  <2>5. CASE AnswerStream(t)
    BY <2>5, ReplyInv DEF AnswerStream, At
  <2>6. QED
    BY <1>2, <2>1, <2>2, <2>3, <2>4, <2>5 DEF Handle
<1>3. CASE UNCHANGED vars
  BY <1>3 DEF vars, Inv, Typed, LockOK, TaskOK, Shape, Current, Unfit, Fits, At, Kind, Up
<1>4. QED
  BY <1>1, <1>2, <1>3, EnterInv, DieInv, RestartInv DEF Next

-----------------------------------------------------------------------------
(* Theorems. *)

(* Every variable keeps its type, and a lock that is held is held by a       *)
(* request of its process that is provisioning: no exit of any worker's      *)
(* start-up leaves it taken (gateway.rs worker_lock).                        *)
THEOREM WorkersTypeCorrect == Spec => []TypeOK
<1>1. Inv => TypeOK
  BY DEF Inv, Typed, ReqType, WorkerType, LockOK, TypeOK
<1>2. QED
  BY <1>1, InitInv, NextInv, PTL DEF Spec

(* However many requests wait, whatever dies and however often the gateway   *)
(* comes back with another size: who waits for a transcription waits for a   *)
(* worker of the size that is reported (gateway.rs run_whisper_worker).      *)
THEOREM TranscriptionsAreCurrent == Spec => []ReportsWhatServed
<1>1. Inv => ReportsWhatServed
  <2> SUFFICES ASSUME Inv, NEW t \in Tasks, req[t].on, Kind(t) = "whisper"
               PROVE  worker["whisper"].size = size
    BY DEF ReportsWhatServed
  <2>1. Shape(t) /\ Current(t)
    BY DEF Inv, TaskOK
  <2>2. QED
    BY <2>1 DEF Shape, Current, At
<1>2. QED
  BY <1>1, InitInv, NextInv, PTL DEF Spec

(* Between the look at a container and its removal a process may only find   *)
(* that the other process made a new one: its own requests are spared        *)
(* (gateway.rs:53).                                                          *)
THEOREM OwnRequestsSpared == Spec => ProvisioningSparesRequests
<1>1. ASSUME Inv, NEW t \in Tasks, NEW u \in Tasks, Remove(t), t # u,
             req[u].proc = req[t].proc, worker[Kind(t)].by = req[t].proc
      PROVE  req'[u].on = req[u].on
  <2>1. SUFFICES ASSUME req'[u].on # req[u].on PROVE FALSE
    OBVIOUS
  <2>2. At(u, "answering") /\ Kind(u) = Kind(t) /\ req[u].on
    <3>1. /\ req'[u].on # req[u].on => At(u, "answering") /\ Kind(u) = Kind(t)
          /\ req'[u].on => req[u].on
          /\ req' \in [Tasks -> ReqType] /\ req \in [Tasks -> ReqType]
      BY <1>1, RemoveEffect DEF Inv, Typed
    <3>2. QED
      BY <2>1, <3>1 DEF ReqType
  <2>3. Shape(u) /\ Current(u) /\ Shape(t) /\ Unfit(t) /\ At(t, "removing")
    BY <1>1 DEF Inv, TaskOK, Remove
  <2>4. Fits(t)
    BY <2>2, <2>3, WorkerKinds DEF Shape, Current, Fits, At, Up
  <2>5. QED
    BY <1>1, <2>3, <2>4 DEF Unfit
<1>2. Inv /\ [Next]_vars =>
        [\A t, u \in Tasks :
           /\ Remove(t) /\ t # u /\ req[u].proc = req[t].proc
           /\ worker[Kind(t)].by = req[t].proc
           => req'[u].on = req[u].on]_vars
  BY <1>1
<1>3. QED
  BY <1>2, InitInv, NextInv, PTL DEF Spec, ProvisioningSparesRequests

-----------------------------------------------------------------------------
(* The models that the same two processes host. *)

VARIABLES cycle, op, events

H == INSTANCE ModelHosting

(* Induction, in the form the proofs below use it: a set of naturals that   *)
(* is not empty has a least element.                                         *)
LEMMA LeastNatural ==
  ASSUME NEW S \in SUBSET Nat, S # {}
  PROVE  \E n \in S : \A m \in S : n <= m
<1>1. PICK n \in S : \A m \in S : ~ (<<m, n>> \in OpToRel(<, Nat))
  BY NatLessThanWellFounded, WFMin
<1>2. \A m \in S : ~ (m < n) BY <1>1 DEF OpToRel
<1> QED BY <1>2

(* An irreflexive and transitive relation on a finite set that is not empty *)
(* leaves some element without one below it.                                 *)
LEMMA FiniteMinimum ==
  ASSUME NEW S, IsFiniteSet(S), S # {}, NEW R,
         \A a \in S : <<a, a>> \notin R,
         \A a, b, c \in S : <<a, b>> \in R /\ <<b, c>> \in R => <<a, c>> \in R
  PROVE  \E m \in S : \A a \in S : <<a, m>> \notin R
<1> DEFINE Under(b) == {a \in S : <<a, b>> \in R}
           count == [b \in S |-> Cardinality(Under(b))]
           N == {count[b] : b \in S}
<1>1. \A b \in S : Under(b) \in SUBSET S /\ IsFiniteSet(Under(b))
  BY FS_Subset
<1>2. \A b \in S : count[b] = Cardinality(Under(b)) /\ count[b] \in Nat
  BY <1>1, FS_CardinalityType
<1> HIDE DEF count
<1>3. PICK n \in N : \A i \in N : n <= i
  <2>1. \A i \in N : i \in Nat BY <1>2
  <2>2. PICK b \in S : TRUE OBVIOUS
  <2>3. count[b] \in N OBVIOUS
  <2> HIDE DEF N
  <2> QED BY <2>1, <2>3, LeastNatural
<1>4. PICK m \in S : n = count[m] BY <1>3
<1>5. ASSUME NEW a \in S, <<a, m>> \in R PROVE FALSE
  <2>1. Under(a) \in SUBSET Under(m) /\ a \in Under(m) /\ a \notin Under(a) BY <1>5
  <2>2. count[a] <= count[m] /\ count[a] # count[m]
    <3>1. IsFiniteSet(Under(m)) BY <1>1
    <3> HIDE DEF Under
    <3>2. Cardinality(Under(m)) = Cardinality(Under(a)) => Under(m) = Under(a)
      BY <2>1, <3>1, FS_Subset
    <3>3. Cardinality(Under(a)) <= Cardinality(Under(m)) BY <2>1, <3>1, FS_Subset
    <3> QED BY <1>2, <2>1, <3>2, <3>3
  <2>3. count[m] <= count[a] BY <1>3, <1>4
  <2>4. count[m] \in Nat /\ count[a] \in Nat BY <1>2
  <2> QED BY <2>2, <2>3, <2>4
<1> QED BY <1>5

-----------------------------------------------------------------------------
(* The order of the candidates: cross products compare as fractions do. *)

LEMMA ProductGrows ==
  ASSUME NEW a \in Nat, NEW b \in Nat, NEW c \in Nat
  PROVE  /\ a >= b => a * c >= b * c
         /\ a > b /\ c > 0 => a * c > b * c
<1>1. ASSUME a >= b PROVE a * c >= b * c
  <2>1. PICK d \in Nat : a = b + d
    <3>1. a - b \in Nat /\ a = b + (a - b) BY <1>1
    <3> QED BY <3>1
  <2>2. a * c = b * c + d * c BY <2>1, SMTT(30)
  <2>3. d * c \in Nat /\ b * c \in Nat BY SMTT(30)
  <2> QED BY <2>2, <2>3
<1>2. ASSUME a > b, c > 0 PROVE a * c > b * c
  <2>1. PICK d \in Nat : a = b + 1 + d
    <3>1. a - b - 1 \in Nat /\ a = b + 1 + (a - b - 1) BY <1>2
    <3> QED BY <3>1
  <2>2. a * c = b * c + c + d * c BY <2>1, SMTT(30)
  <2>3. d * c \in Nat /\ b * c \in Nat BY SMTT(30)
  <2> QED BY <1>2, <2>2, <2>3
<1> QED BY <1>1, <1>2

(* a/x >= b/y and b/y >= c/z give a/x >= c/z, strictly if one of them is. *)
LEMMA FractionsTransitive ==
  ASSUME NEW a \in Nat, NEW b \in Nat, NEW c \in Nat,
         NEW x \in Nat \ {0}, NEW y \in Nat \ {0}, NEW z \in Nat \ {0},
         a * y >= b * x, b * z >= c * y
  PROVE  /\ a * z >= c * x
         /\ a * y > b * x \/ b * z > c * y => a * z > c * x
<1> DEFINE ay == a * y
           bx == b * x
           bz == b * z
           cy == c * y
           az == a * z
           cx == c * x
<1>1. /\ ay \in Nat /\ bx \in Nat /\ bz \in Nat /\ cy \in Nat /\ az \in Nat /\ cx \in Nat
      /\ x \in Nat /\ y \in Nat /\ z \in Nat /\ x > 0 /\ y > 0 /\ z > 0
  BY SMTT(30)
<1>2. ay * z = az * y /\ bx * z = bz * x /\ cy * x = cx * y
  BY SMTT(30)
<1>3. ay >= bx /\ bz >= cy OBVIOUS
<1>4. (ay > bx \/ bz > cy) <=> (a * y > b * x \/ b * z > c * y) OBVIOUS
<1> HIDE DEF ay, bx, bz, cy, az, cx
<1> DEFINE U == ay * z
           V == bx * z
           W == cy * x
<1>5. U >= V /\ (ay > bx => U > V) BY <1>1, <1>3, ProductGrows
<1>6. bz * x >= W /\ (bz > cy => bz * x > W) BY <1>1, <1>3, ProductGrows
<1>7. U \in Nat /\ V \in Nat /\ W \in Nat /\ U = az * y /\ V = bz * x /\ W = cx * y
  BY <1>1, <1>2, SMTT(30)
<1> HIDE DEF U, V, W
<1>8. U >= W /\ (ay > bx \/ bz > cy => U > W) BY <1>5, <1>6, <1>7
<1>9. az >= cx
  <2>1. az < cx => cx * y > az * y BY <1>1, ProductGrows
  <2> QED BY <1>1, <1>7, <1>8, <2>1
<1>10. ay > bx \/ bz > cy => az > cx
  <2>1. cx >= az => cx * y >= az * y BY <1>1, ProductGrows
  <2> QED BY <1>1, <1>7, <1>8, <2>1
<1> QED BY <1>4, <1>9, <1>10 DEF az, cx

Keyed == demand \in Demands /\ budget \in Budgets /\ hosted \in [Procs -> SUBSET Keys]

Place(k) == CHOOSE i \in DOMAIN Catalog : Catalog[i] = k
Bytes(k) == DiskOf(ImageOf[k])

LEMMA CatalogKeys ==
  /\ IsFiniteSet(Keys)
  /\ \A k \in Keys : ImageOf[k] \in Images /\ Bytes(k) \in Nat \ {0}
  /\ \A k \in Keys : Place(k) \in Nat
  /\ \A a, b \in Keys : Place(a) = Place(b) => a = b
<1>1. DOMAIN Catalog = 1 .. Len(Catalog) /\ Len(Catalog) \in Nat
  BY HostingAssumption
<1>2. IsFiniteSet(Keys)
  <2>1. Catalog \in Surjection(DOMAIN Catalog, Keys)
    BY <1>1, HostingAssumption DEF Surjection, Keys
  <2>2. IsFiniteSet(1 .. Len(Catalog))
    <3>1. 1 \in Int /\ Len(Catalog) \in Int BY <1>1
    <3> QED BY <3>1, FS_Interval
  <2> QED BY <1>1, <2>1, <2>2, FS_Surjection
<1>3. \A k \in Keys : ImageOf[k] \in Images BY DEF Images
<1>4. \A k \in Keys : Bytes(k) \in Nat \ {0}
  BY <1>3, HostingAssumption DEF Bytes, DiskOf
<1>5. \A k \in Keys : Place(k) \in DOMAIN Catalog /\ Catalog[Place(k)] = k
  BY DEF Place, Keys
<1> QED BY <1>1, <1>2, <1>3, <1>4, <1>5

LEMMA ScoreIsNatural ==
  ASSUME Keyed, NEW k \in Keys
  PROVE  Score(k) \in Nat
<1>1. demand[k] \in Nat /\ Price[k] \in Nat BY HostingAssumption DEF Keyed
<1> QED BY <1>1, SMTT(30) DEF Score

(* The order in which candidates have their turns is total and strict. *)
LEMMA DenserIsAnOrder ==
  ASSUME Keyed,
         NEW a \in Keys, NEW b \in Keys, NEW c \in Keys
  PROVE  /\ ~ Denser(a, a)
         /\ Denser(a, b) /\ Denser(b, c) => Denser(a, c)
         /\ a = b \/ Denser(a, b) \/ Denser(b, a)
<1> DEFINE s(k) == Score(k)
           d(k) == Bytes(k)
<1>1. \A k \in Keys : s(k) \in Nat /\ d(k) \in Nat \ {0} /\ Place(k) \in Nat
  BY CatalogKeys, ScoreIsNatural
<1>2. \A k, l \in Keys : Place(k) = Place(l) => k = l BY CatalogKeys
<1>3. \A k, l : Denser(k, l) <=>
        \/ s(k) * d(l) > s(l) * d(k)
        \/ s(k) * d(l) = s(l) * d(k) /\ Place(k) < Place(l)
  BY DEF Denser, Bytes, Place
<1> HIDE DEF s, d
<1>4. \A k, l \in Keys : s(k) * d(l) \in Nat BY <1>1, SMTT(30)
<1>5. ~ Denser(a, a)
  <2> DEFINE aa == s(a) * d(a)
  <2>1. aa \in Nat BY <1>4
  <2>2. Denser(a, a) <=> aa > aa \/ (aa = aa /\ Place(a) < Place(a)) BY <1>3
  <2> HIDE DEF aa
  <2> QED BY <1>1, <2>1, <2>2
<1>6. a = b \/ Denser(a, b) \/ Denser(b, a)
  <2> DEFINE ab == s(a) * d(b)
             ba == s(b) * d(a)
  <2>1. ab \in Nat /\ ba \in Nat BY <1>4
  <2>2. /\ Denser(a, b) <=> ab > ba \/ (ab = ba /\ Place(a) < Place(b))
        /\ Denser(b, a) <=> ba > ab \/ (ba = ab /\ Place(b) < Place(a))
    BY <1>3
  <2> HIDE DEF ab, ba
  <2> QED BY <1>1, <1>2, <2>1, <2>2
<1>7. ASSUME Denser(a, b), Denser(b, c) PROVE Denser(a, c)
  <2> DEFINE ab == s(a) * d(b)
             ba == s(b) * d(a)
             bc == s(b) * d(c)
             cb == s(c) * d(b)
             ac == s(a) * d(c)
             ca == s(c) * d(a)
  <2>1. ab \in Nat /\ ba \in Nat /\ bc \in Nat /\ cb \in Nat /\ ac \in Nat /\ ca \in Nat
    BY <1>4
  <2>2. ab >= ba /\ bc >= cb => ac >= ca /\ (ab > ba \/ bc > cb => ac > ca)
    BY <1>1, FractionsTransitive
  <2>3. /\ ab > ba \/ (ab = ba /\ Place(a) < Place(b))
        /\ bc > cb \/ (bc = cb /\ Place(b) < Place(c))
        /\ Denser(a, c) <=> ac > ca \/ (ac = ca /\ Place(a) < Place(c))
    BY <1>3, <1>7
  <2> HIDE DEF ab, ba, bc, cb, ac, ca
  <2> QED BY <1>1, <2>1, <2>2, <2>3
<1> QED BY <1>5, <1>6, <1>7

-----------------------------------------------------------------------------
(* The plan. *)

(* More keys take no less of the disk. *)
LEMMA DiskGrows ==
  ASSUME NEW S \in SUBSET Keys, NEW U \in SUBSET S
  PROVE  Disk(S) \in Nat /\ Disk(U) \in Nat /\ Disk(U) <= Disk(S)
<1> DEFINE I == {ImageOf[k] : k \in S}
           B == {{i} \X (1 .. DiskOf(i)) : i \in I}
           f == [k \in S |-> ImageOf[k]]
           g == [i \in I |-> {i} \X (1 .. DiskOf(i))]
<1>1. IsFiniteSet(S) BY CatalogKeys, FS_Subset
<1>2. IsFiniteSet(I)
  <2>1. f \in Surjection(S, I) BY DEF Surjection
  <2> QED BY <1>1, <2>1, FS_Surjection
<1>3. IsFiniteSet(B)
  <2>1. g \in Surjection(I, B) BY DEF Surjection
  <2> QED BY <1>2, <2>1, FS_Surjection
<1>4. \A b \in B : IsFiniteSet(b)
  <2>1. SUFFICES ASSUME NEW k \in S
                 PROVE  IsFiniteSet({ImageOf[k]} \X (1 .. DiskOf(ImageOf[k])))
    OBVIOUS
  <2>2. DiskOf(ImageOf[k]) \in Int BY CatalogKeys DEF Bytes
  <2>3. IsFiniteSet(1 .. DiskOf(ImageOf[k])) BY <2>2, FS_Interval
  <2>4. IsFiniteSet({ImageOf[k]}) BY FS_Singleton
  <2> QED BY <2>3, <2>4, FS_Product
<1>5. Space(S) = UNION B BY DEF Space
<1>6. IsFiniteSet(Space(S))
  <2> HIDE DEF B
  <2> QED BY <1>3, <1>4, <1>5, FS_UNION
<1>7. Space(U) \in SUBSET Space(S) BY DEF Space
<1>8. IsFiniteSet(Space(U)) /\ Cardinality(Space(U)) <= Cardinality(Space(S))
  BY <1>6, <1>7, FS_Subset
<1>9. Cardinality(Space(U)) \in Nat /\ Cardinality(Space(S)) \in Nat
  BY <1>6, <1>8, FS_CardinalityType
<1>10. Disk(S) = Cardinality(Space(S)) /\ Disk(U) = Cardinality(Space(U))
  BY DEF Disk
<1> QED BY <1>8, <1>9, <1>10

(* Turn by turn, a set that follows the rule can be built: there is a plan. *)
LEMMA PlanExists ==
  ASSUME Keyed, NEW p \in Procs
  PROVE  \E T \in SUBSET Keys : IsPlan(p, T)
<1> DEFINE Ahead(k) == {o \in Keys : Wanted(o) /\ Denser(o, k)}
           turn == [k \in Keys |-> Cardinality(Ahead(k))]
           Chosen(T, k) == k \in Pins(p) \/ (Wanted(k) /\ Admits(Before(p, T, k), k))
           Until(n, T) == \A k \in Keys : turn[k] < n => (k \in T <=> Chosen(T, k))
           Fails == {n \in Nat : ~ \E T \in SUBSET Keys : Until(n, T)}
           all == Cardinality(Keys) + 1
<1>1. IsFiniteSet(Keys) /\ all \in Nat BY CatalogKeys, FS_CardinalityType
<1>2. \A k \in Keys : IsFiniteSet(Ahead(k)) BY <1>1, FS_Subset
<1>3. \A k \in Keys : turn[k] = Cardinality(Ahead(k)) OBVIOUS
<1> HIDE DEF turn
<1>4. \A k \in Keys : turn[k] \in Nat /\ turn[k] < all
  <2> SUFFICES ASSUME NEW k \in Keys PROVE turn[k] \in Nat /\ turn[k] < all
    OBVIOUS
  <2>1. Cardinality(Ahead(k)) \in Nat BY <1>2, FS_CardinalityType
  <2>2. Cardinality(Ahead(k)) <= Cardinality(Keys)
    <3>1. Ahead(k) \in SUBSET Keys OBVIOUS
    <3> HIDE DEF Ahead
    <3> QED BY <1>1, <3>1, FS_Subset
  <2>3. Cardinality(Keys) \in Nat BY <1>1, FS_CardinalityType
  <2> QED BY <1>3, <2>1, <2>2, <2>3
<1>5. \A k \in Keys : \A o \in Ahead(k) : turn[o] < turn[k]
  <2> SUFFICES ASSUME NEW k \in Keys, NEW o \in Ahead(k) PROVE turn[o] < turn[k]
    OBVIOUS
  <2>1. o \in Keys OBVIOUS
  <2>2. Ahead(o) \in SUBSET Ahead(k) /\ o \notin Ahead(o) BY DenserIsAnOrder
  <2>3. IsFiniteSet(Ahead(k)) BY <1>2
  <2>4. o \in Ahead(k) OBVIOUS
  <2> HIDE DEF Ahead
  <2>5. Cardinality(Ahead(o)) <= Cardinality(Ahead(k)) BY <2>2, <2>3, FS_Subset
  <2>6. Cardinality(Ahead(k)) = Cardinality(Ahead(o)) => Ahead(k) = Ahead(o)
    BY <2>2, <2>3, FS_Subset
  <2> QED BY <1>3, <1>4, <2>1, <2>2, <2>4, <2>5, <2>6
<1>6. Fails = {}
  <2>1. SUFFICES ASSUME Fails # {} PROVE FALSE OBVIOUS
  <2>2. PICK n \in Fails : \A m \in Fails : n <= m
    <3>1. Fails \in SUBSET Nat OBVIOUS
    <3> HIDE DEF Fails
    <3> QED BY <2>1, <3>1, LeastNatural
  <2>3. n # 0
    <3>1. Until(0, {}) BY <1>4
    <3> HIDE DEF Until
    <3> QED BY <3>1
  <2>4. n \in Nat /\ n - 1 \in Nat /\ n - 1 \notin Fails
    <3>1. n \in Nat OBVIOUS
    <3> HIDE DEF Fails
    <3>2. n - 1 \in Nat /\ ~ (n <= n - 1) BY <2>3, <3>1
    <3> QED BY <2>2, <3>1, <3>2
  <2>5. PICK T \in SUBSET Keys : Until(n - 1, T) BY <2>4
  <2> DEFINE U == {k \in Keys : IF turn[k] < n - 1 THEN k \in T ELSE Chosen(T, k)}
  <2>6. \A k \in Keys : turn[k] < n => Before(p, U, k) = Before(p, T, k)
    <3> SUFFICES ASSUME NEW k \in Keys, turn[k] < n,
                        NEW o \in Keys, Wanted(o), Denser(o, k)
                 PROVE  o \in U <=> o \in T
      BY <2>5 DEF Before
    <3>1. turn[o] < turn[k] BY <1>5
    <3>2. turn[o] < n - 1 BY <1>4, <2>4, <3>1
    <3> QED BY <3>2
  <2>7. Until(n, U)
    <3> SUFFICES ASSUME NEW k \in Keys, turn[k] < n PROVE k \in U <=> Chosen(U, k)
      OBVIOUS
    <3>1. Chosen(U, k) <=> Chosen(T, k) BY <2>6
    <3>2. turn[k] < n - 1 => (k \in T <=> Chosen(T, k)) BY <2>5
    <3> QED BY <3>1, <3>2
  <2>8. U \in SUBSET Keys OBVIOUS
  <2> HIDE DEF Until, U
  <2> QED BY <2>2, <2>7, <2>8
<1>7. PICK T \in SUBSET Keys : Until(all, T) BY <1>1, <1>6
<1> QED BY <1>4, <1>7 DEF IsPlan

(* One set at most follows the rule, so Target is what the loop of the code  *)
(* computes, in whatever way it is found.                                    *)
THEOREM PlanIsUnique ==
  ASSUME Keyed, NEW p \in Procs,
         NEW T \in SUBSET Keys, IsPlan(p, T),
         NEW U \in SUBSET Keys, IsPlan(p, U)
  PROVE  T = U
<1> DEFINE S == {k \in Keys : (k \in T) # (k \in U)}
           R == {e \in S \X S : Denser(e[1], e[2])}
<1>1. SUFFICES ASSUME S # {} PROVE FALSE OBVIOUS
<1>2. IsFiniteSet(S) BY CatalogKeys, FS_Subset
<1>3. \A a, b \in S : <<a, b>> \in R <=> Denser(a, b) OBVIOUS
<1>4. /\ \A a \in S : <<a, a>> \notin R
      /\ \A a, b, c \in S : <<a, b>> \in R /\ <<b, c>> \in R => <<a, c>> \in R
  BY <1>3, DenserIsAnOrder
<1>5. PICK k \in S : \A o \in S : <<o, k>> \notin R
  <2> HIDE DEF S, R
  <2> QED BY <1>1, <1>2, <1>4, FiniteMinimum
<1>6. \A o \in Keys : Denser(o, k) => (o \in T <=> o \in U)
  BY <1>3, <1>5
<1>7. Before(p, T, k) = Before(p, U, k)
  BY <1>6 DEF Before
<1>8. k \in T <=> k \in U
  BY <1>7 DEF IsPlan
<1> QED BY <1>8

LEMMA TargetIsPlan ==
  ASSUME Keyed, NEW p \in Procs
  PROVE  Target(p) \in SUBSET Keys /\ IsPlan(p, Target(p))
BY PlanExists DEF Target

LEMMA TargetFills ==
  ASSUME Keyed, NEW p \in Procs
  PROVE  /\ Pins(p) \subseteq Target(p)
         /\ Target(p) = Pins(p) \/ Disk(Target(p)) <= budget
         /\ \A k \in Runnable \ Target(p) :
              demand[k] > 0 => Disk(Target(p) \cup {k}) > budget
<1> DEFINE T == Target(p)
<1>1. T \in SUBSET Keys /\ Pins(p) \in SUBSET Keys
  BY TargetIsPlan DEF Pins, Keyed
<1>2. \A k \in Keys :
        k \in T <=> k \in Pins(p) \/ (Wanted(k) /\ Admits(Before(p, T, k), k))
  BY TargetIsPlan DEF IsPlan
<1> HIDE DEF T
<1>3. Pins(p) \subseteq T BY <1>1, <1>2
<1>4. \A k : Before(p, T, k) \subseteq T BY <1>3 DEF Before
<1>5. budget \in Nat BY HostingAssumption DEF Keyed
<1>6. ASSUME T # Pins(p) PROVE Disk(T) <= budget
  <2> DEFINE S == T \ Pins(p)
             R == {e \in S \X S : Denser(e[2], e[1])}
  <2>1. S # {} /\ IsFiniteSet(S)
    BY <1>1, <1>3, <1>6, CatalogKeys, FS_Subset
  <2>2. \A a, b \in S : <<a, b>> \in R <=> Denser(b, a) OBVIOUS
  <2>3. /\ \A a \in S : <<a, a>> \notin R
        /\ \A a, b, c \in S : <<a, b>> \in R /\ <<b, c>> \in R => <<a, c>> \in R
    BY <1>1, <2>2, DenserIsAnOrder
  <2>4. PICK k \in S : \A o \in S : <<o, k>> \notin R
    <3> HIDE DEF S, R
    <3> QED BY <2>1, <2>3, FiniteMinimum
  <2>5. k \in Keys /\ k \in T BY <1>1
  <2>6. \A o \in S : o = k \/ (Wanted(o) /\ Denser(o, k))
    <3> SUFFICES ASSUME NEW o \in S PROVE o = k \/ (Wanted(o) /\ Denser(o, k))
      OBVIOUS
    <3>1. o \in Keys /\ Wanted(o) BY <1>1, <1>2
    <3>2. ~ Denser(k, o) BY <2>2, <2>4
    <3> QED BY <2>5, <3>1, <3>2, DenserIsAnOrder
  <2>7. T = Before(p, T, k) \cup {k}
    BY <1>3, <1>4, <2>5, <2>6 DEF Before
  <2>8. Admits(Before(p, T, k), k) BY <1>2, <2>5
  <2> QED BY <2>7, <2>8 DEF Admits
<1>7. ASSUME NEW k \in Runnable \ T, demand[k] > 0
      PROVE  Disk(T \cup {k}) > budget
  <2>1. k \in Keys /\ Wanted(k) BY <1>7, HostingAssumption DEF Wanted
  <2>2. ~ Admits(Before(p, T, k), k) BY <1>2, <1>7, <2>1
  <2>3. Before(p, T, k) \cup {k} \in SUBSET (T \cup {k}) /\ T \cup {k} \in SUBSET Keys
    BY <1>1, <1>4, <2>1
  <2>4. /\ Disk(T \cup {k}) \in Nat /\ Disk(Before(p, T, k) \cup {k}) \in Nat
        /\ Disk(Before(p, T, k) \cup {k}) <= Disk(T \cup {k})
    BY <2>3, DiskGrows
  <2> QED BY <1>5, <2>2, <2>4 DEF Admits
<1> QED BY <1>3, <1>6, <1>7 DEF T

-----------------------------------------------------------------------------
(* The inductive invariant: the types, and that what a cycle or a request    *)
(* of the operator works on are keys of the catalog.                         *)

CycleType == [pc : {"idle", "planned", "applying", "removing"},
              target : SUBSET Keys, ins : SUBSET Keys, outs : SUBSET Keys,
              image : Images \cup {NoImage}]
OpType == [pc : {"idle", "pulling", "installed", "stopping", "removing"}, key : Keys]

HostInv == HostedTypeOK /\ Keyed /\ cycle \in [Procs -> CycleType] /\ op \in OpType

(* What ModelHosting means by a plan is what HostingPlan means by it. *)
LEMMA SamePlan ==
  /\ H!Keys = Keys /\ H!Images = Images /\ H!Procs = Procs
  /\ \A p, T : H!IsPlan(p, T) <=> IsPlan(p, T)
<1>1. H!Keys = Keys /\ H!Images = Images /\ H!Procs = Procs
  BY DEF H!Keys, Keys, H!Images, Images, H!Procs, Procs
<1>2. \A i : H!DiskOf(i) = DiskOf(i)
  BY DEF H!DiskOf, DiskOf
<1>3. \A S : H!Disk(S) = Disk(S)
  <2>1. \A S : H!Space(S) = Space(S) BY <1>2 DEF H!Space, Space
  <2> QED BY <2>1 DEF H!Disk, Disk, H!Cardinality, Cardinality
<1>4. \A k, S : H!Wanted(k) = Wanted(k) /\ H!Admits(S, k) = Admits(S, k)
  BY <1>3 DEF H!Wanted, Wanted, H!Admits, Admits
<1>5. \A a, b : H!Denser(a, b) = Denser(a, b)
  BY <1>2 DEF H!Denser, Denser, H!Score, Score
<1>6. \A p, T, k : H!Before(p, T, k) = Before(p, T, k) /\ H!Pins(p) = Pins(p)
  BY <1>4, <1>5 DEF H!Before, Before, H!Pins, Pins
<1>7. ASSUME NEW p, NEW T PROVE H!IsPlan(p, T) <=> IsPlan(p, T)
  BY <1>1, <1>4, <1>6 DEF H!IsPlan, IsPlan
<1> QED BY <1>1, <1>7

LEMMA HostInit ==
  ASSUME H!Init
  PROVE  HostInv
<1>1. Catalog[1] \in Keys
  <2>1. 1 \in DOMAIN Catalog BY HostingAssumption
  <2> QED BY <2>1 DEF Keys
<1>2. H!Idle \in OpType /\ H!Resting \in CycleType
  BY <1>1 DEF H!Idle, H!Resting, OpType, CycleType
<1> QED BY <1>2, SamePlan DEF H!Init, HostInv, HostedTypeOK, Keyed

LEMMA HostedChanges ==
  ASSUME HostedTypeOK, NEW p \in Procs
  PROVE  /\ \A S \in SUBSET Keys : H!SetHosted(p, S) =>
              hosted' \in [Procs -> SUBSET Keys] /\ file' \subseteq Keys
         /\ \A k \in Keys, a \in {"none", "young", "old"} :
              [age EXCEPT ![p][k] = a] \in [Procs -> [Keys -> {"none", "young", "old"}]]
         /\ \A k \in Keys : hosted[p] \cup {k} \in SUBSET Keys
         /\ \A k : hosted[p] \ {k} \in SUBSET Keys
BY DEF HostedTypeOK, H!SetHosted

LEMMA CycleKeeps ==
  ASSUME HostInv, NEW p \in Controllers, H!Cycle(p)
  PROVE  HostInv'
<1> USE SamePlan DEF HostInv, HostedTypeOK, Keyed
<1>1. p \in Procs /\ cycle[p] \in CycleType /\ H!Resting \in CycleType
  BY HostingAssumption DEF H!Resting, CycleType
<1>2. CASE H!CyclePlan(p)
  <2>1. H!Target(p) \in SUBSET Keys BY <1>1, PlanExists DEF H!Target
  <2>2. [H!Resting EXCEPT !.pc = "planned", !.target = H!Target(p)] \in CycleType
    BY <1>1, <2>1 DEF CycleType
  <2> QED BY <1>1, <1>2, <2>2 DEF H!CyclePlan
<1>3. CASE H!CycleCompare(p)
  <2>1. [cycle[p] EXCEPT !.pc = "applying", !.target = {},
           !.ins = cycle[p].target \ hosted[p],
           !.outs = {k \in hosted[p] \ cycle[p].target : k \notin warm[p]}] \in CycleType
    BY <1>1 DEF CycleType
  <2> QED BY <1>1, <1>3, <2>1 DEF H!CycleCompare
<1>4. CASE H!CycleRmi(p)
  <2>1. [cycle[p] EXCEPT !.pc = "applying", !.image = NoImage] \in CycleType
    BY <1>1 DEF CycleType
  <2>2. images' \subseteq Images /\ used \subseteq images'
    BY <1>4 DEF H!CycleRmi, H!Rmi
  <2>3. cycle' \in [Procs -> CycleType]
    BY <1>1, <1>4, <2>1 DEF H!CycleRmi
  <2> QED BY <1>4, <2>2, <2>3 DEF H!CycleRmi
<1>5. CASE H!CycleEnd(p)
  BY <1>1, <1>5 DEF H!CycleEnd
<1>6. ASSUME NEW k \in Keys, H!CycleInstall(p, k) PROVE HostInv'
  <2>1. [cycle[p] EXCEPT !.ins = cycle[p].ins \ {k}] \in CycleType
    BY <1>1 DEF CycleType
  <2>2. cycle' \in [Procs -> CycleType]
    BY <1>1, <1>6, <2>1 DEF H!CycleInstall
  <2>3. ImageOf[k] \in Images BY CatalogKeys
  <2>4. /\ hosted' \in [Procs -> SUBSET Keys] /\ file' \subseteq Keys
        /\ age' \in [Procs -> [Keys -> {"none", "young", "old"}]]
    <3>1. CASE UNCHANGED <<hosted, file, age>> BY <3>1
    <3>2. CASE /\ H!SetHosted(p, hosted[p] \cup {k})
               /\ age' = [age EXCEPT ![p][k] = "young"]
      BY <1>1, <3>2, HostedChanges
    <3> QED BY <1>6, <3>1, <3>2 DEF H!CycleInstall
  <2>5. images' \subseteq Images /\ used \subseteq images'
    BY <1>6, <2>3 DEF H!CycleInstall
  <2> QED BY <1>6, <2>2, <2>4, <2>5 DEF H!CycleInstall
<1>7. ASSUME NEW k \in Keys, H!CycleEvict(p, k) PROVE HostInv'
  <2>1. ImageOf[k] \in Images BY CatalogKeys
  <2>2. /\ [cycle[p] EXCEPT !.outs = cycle[p].outs \ {k}] \in CycleType
        /\ \A b \in BOOLEAN :
             [cycle[p] EXCEPT !.outs = cycle[p].outs \ {k},
                !.pc = IF b THEN "applying" ELSE "removing",
                !.image = IF b THEN NoImage ELSE ImageOf[k]] \in CycleType
    BY <1>1, <2>1 DEF CycleType
  <2>3. cycle' \in [Procs -> CycleType]
    <3> DEFINE b == H!Shared(hosted[p] \ {k}, k)
    <3>1. b \in BOOLEAN BY DEF H!Shared
    <3>2. [cycle[p] EXCEPT !.outs = cycle[p].outs \ {k},
             !.pc = IF b THEN "applying" ELSE "removing",
             !.image = IF b THEN NoImage ELSE ImageOf[k]] \in CycleType
      BY <2>2, <3>1
    <3> HIDE DEF b
    <3>3. cycle' = [cycle EXCEPT ![p] = [cycle[p] EXCEPT !.outs = cycle[p].outs \ {k}]]
          \/ cycle' = [cycle EXCEPT ![p] = [cycle[p] EXCEPT !.outs = cycle[p].outs \ {k},
                          !.pc = IF b THEN "applying" ELSE "removing",
                          !.image = IF b THEN NoImage ELSE ImageOf[k]]]
      BY <1>1, <1>7 DEF H!CycleEvict, b
    <3> QED BY <1>1, <2>2, <3>2, <3>3
  <2>4. /\ hosted' \in [Procs -> SUBSET Keys] /\ file' \subseteq Keys
        /\ age' \in [Procs -> [Keys -> {"none", "young", "old"}]]
    <3>1. CASE age[p][k] = "young" BY <1>7, <3>1 DEF H!CycleEvict
    <3>2. CASE age[p][k] # "young"
      <4>1. /\ H!SetHosted(p, hosted[p] \ {k})
            /\ age' = [age EXCEPT ![p][k] = "none"]
        BY <1>7, <3>2 DEF H!CycleEvict
      <4> QED BY <1>1, <4>1, HostedChanges
    <3> QED BY <3>1, <3>2
  <2> QED BY <1>7, <2>3, <2>4 DEF H!CycleEvict
<1> QED BY <1>2, <1>3, <1>4, <1>5, <1>6, <1>7 DEF H!Cycle

LEMMA OperatorKeeps ==
  ASSUME HostInv,
         H!Operator \/ \E k \in Keys : H!ModelsInstall(k) \/ H!ModelsUninstall(k)
  PROVE  HostInv'
<1> USE SamePlan DEF HostInv, HostedTypeOK, Keyed
<1>1. Catalog[1] \in Keys
  <2>1. 1 \in DOMAIN Catalog BY HostingAssumption
  <2> QED BY <2>1 DEF Keys
<1>2. /\ H!Idle \in OpType /\ Gateway \in Procs /\ op.key \in Keys
      /\ ImageOf[op.key] \in Images
  BY <1>1, CatalogKeys DEF H!Idle, OpType, Procs
<1>3. /\ [op EXCEPT !.pc = "installed"] \in OpType
      /\ [op EXCEPT !.pc = "removing"] \in OpType
      /\ \A k \in Keys : /\ [pc |-> "pulling", key |-> k] \in OpType
                           /\ [pc |-> "stopping", key |-> k] \in OpType
  BY DEF OpType
<1>4. CASE H!Pulled
  <2>1. hosted' \in [Procs -> SUBSET Keys] /\ file' \subseteq Keys
    BY <1>2, <1>4, HostedChanges DEF H!Pulled
  <2>2. images' \subseteq Images /\ used \subseteq images' /\ op' \in OpType
    BY <1>2, <1>3, <1>4 DEF H!Pulled
  <2> QED BY <1>4, <2>1, <2>2 DEF H!Pulled
<1>5. CASE H!InstallDone
  BY <1>2, <1>5 DEF H!InstallDone
<1>6. CASE H!StopWorkers
  BY <1>2, <1>3, <1>6 DEF H!StopWorkers
<1>7. CASE H!RemoveImage
  BY <1>2, <1>7 DEF H!RemoveImage, H!Rmi
<1>8. ASSUME NEW k \in Keys, H!ModelsInstall(k) PROVE HostInv'
  BY <1>3, <1>8 DEF H!ModelsInstall
<1>9. ASSUME NEW k \in Keys, H!ModelsUninstall(k) PROVE HostInv'
  BY <1>2, <1>3, <1>9 DEF H!ModelsUninstall, H!SetHosted
<1> QED BY <1>4, <1>5, <1>6, <1>7, <1>8, <1>9 DEF H!Operator

LEMMA RestartKeeps ==
  ASSUME HostInv, NEW p \in Procs, H!Restart(p)
  PROVE  HostInv'
<1> USE SamePlan DEF HostInv, HostedTypeOK, Keyed
<1>1. Catalog[1] \in Keys
  <2>1. 1 \in DOMAIN Catalog BY HostingAssumption
  <2> QED BY <2>1 DEF Keys
<1>2. H!Idle \in OpType /\ H!Resting \in CycleType
  BY <1>1 DEF H!Idle, H!Resting, OpType, CycleType
<1> QED BY <1>2 DEF H!Restart

LEMMA HostNext ==
  ASSUME HostInv, [H!Next]_(H!vars)
  PROVE  HostInv'
<1>1. CASE UNCHANGED H!vars
  BY <1>1 DEF H!vars, HostInv, HostedTypeOK, Keyed
<1>2. ASSUME NEW k \in Keys, H!BootstrapPull(k) PROVE HostInv'
  BY <1>2, CatalogKeys DEF H!BootstrapPull, HostInv, HostedTypeOK, Keyed
<1>3. ASSUME NEW b \in Budgets, H!SetPolicy(b) PROVE HostInv'
  BY <1>3 DEF H!SetPolicy, HostInv, HostedTypeOK, Keyed
<1>4. CASE H!AnnounceOnce
  BY <1>4, SamePlan DEF H!AnnounceOnce, HostInv, HostedTypeOK, Keyed
<1>5. ASSUME NEW k \in Keys, H!EvictIdle(k) PROVE HostInv'
  BY <1>5 DEF H!EvictIdle, HostInv, HostedTypeOK, Keyed, Procs
<1>6. ASSUME NEW p \in Procs, NEW k \in Keys, H!Ripen(p, k) PROVE HostInv'
  BY <1>6 DEF H!Ripen, HostInv, HostedTypeOK, Keyed
<1>7. ASSUME NEW p \in Procs, NEW k \in Keys, H!Serve(p, k) PROVE HostInv'
  BY <1>7, CatalogKeys DEF H!Serve, HostInv, HostedTypeOK, Keyed
<1>8. ASSUME NEW d \in Demands, H!DemandChanges(d) PROVE HostInv'
  BY <1>8 DEF H!DemandChanges, HostInv, HostedTypeOK, Keyed
<1> QED
  BY <1>1, <1>2, <1>3, <1>4, <1>5, <1>6, <1>7, <1>8, CycleKeeps, OperatorKeeps,
     RestartKeeps, SamePlan DEF H!Next, H!TimePasses

(* Whatever the operator, the controllers and restarts do: an image that a   *)
(* worker container is made of is not removed (docker rmi without force,     *)
(* gateway.rs evict and models_uninstall), and what is hosted, installed,    *)
(* evicted or announced is in the catalog.                                   *)
THEOREM HostedTypeCorrect ==
  H!Spec => []HostedTypeOK
<1>1. HostInv => HostedTypeOK BY DEF HostInv
<1> QED BY <1>1, HostInit, HostNext, PTL DEF H!Spec

(* The plan of a cycle, whatever the catalog, the sizes, the prices, the     *)
(* demand and the keys the operator has pinned: the plan exists, keeps every *)
(* pin, keeps to the disk budget unless the pins alone exceed it, and leaves *)
(* out nothing that would still fit, although a key is looked at only once   *)
(* (gateway.rs autohost_cycle).                                              *)
THEOREM PlansFillTheBudget ==
  H!Spec => []PlanFillsBudget
<1>1. HostInv => PlanFillsBudget
  BY TargetFills, HostingAssumption DEF HostInv, PlanFillsBudget
<1> QED BY <1>1, HostInit, HostNext, PTL DEF H!Spec
==============================================================================

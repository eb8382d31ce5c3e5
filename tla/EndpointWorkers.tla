-------------------------- MODULE EndpointWorkers --------------------------
(***************************************************************************)
(* Serving a model endpoint (gateway.rs, serve_endpoint and below): a      *)
(* request makes sure that the worker container of its kind runs and then  *)
(* posts to it.  The gateway and the provider are two processes on one     *)
(* machine: each serialises its own provisioning with a lock, and both use *)
(* the same containers, which have fixed names.                            *)
(***************************************************************************)
EXTENDS GatewayProcesses, Naturals, FiniteSets

CONSTANTS
  Tasks,              \* request handlers
  Endpoints,          \* endpoint keys
  KindOf,             \* KindOf[k]: the kind of worker that serves k
  Sizes,              \* sizes of the Whisper model an operator may configure
  Gpu,                \* whether Docker can hand out a GPU
  Sealed,             \* CLOUDIY_WORKER_NO_EGRESS
  Faults,             \* which commands and answers may fail
  None                \* no key, no task, no size

Kinds == {"text", "whisper", "tts", "image", "video"}
FaultKinds == {"verify", "run", "pull", "refused", "empty", "cut", "death"}

ASSUME KindsAssumption ==
  /\ Gateway # Provider /\ None \notin Tasks \cup Endpoints \cup Sizes
  /\ KindOf \in [Endpoints -> Kinds \cup {"pending"}]
  /\ Faults \subseteq FaultKinds
  /\ Gpu \in BOOLEAN /\ Sealed \in BOOLEAN

VARIABLES
  worker,   \* worker[kind]: its container, the Whisper size it was made with and
            \* (history) the process that made it
  weights,  \* text models in the persistent cache volume
  lock,     \* lock[p]: who holds the process's worker_lock
  size,     \* the Whisper size in the gateway's environment
  req       \* req[t]: the request t is at work on, or its reply

vars == <<worker, weights, lock, size, req>>

Used == {KindOf[k] : k \in Endpoints} \cap Kinds
Absent == [state |-> "absent", size |-> None, by |-> None]
Up(w) == worker[w].state = "up"
Nothing == [pc |-> "idle", proc |-> None, key |-> None, stream |-> FALSE,
            on |-> FALSE, reply |-> None]
Provisioning == {"inspecting", "removing", "running", "polling", "listing"}

At(t, pc) == req[t].pc = pc
Kind(t) == KindOf[req[t].key]
Goto(t, pc) == req' = [req EXCEPT ![t].pc = pc]
Outcomes(f) == IF f \in Faults THEN {TRUE, FALSE} ELSE {TRUE}

Reply(t, r) == req' = [req EXCEPT ![t].pc = "replied", ![t].reply = r, ![t].on = FALSE]
Unlock(t) == lock' = [lock EXCEPT ![req[t].proc] = None]

(* What differs between the workers: whether Docker must have a GPU for it, *)
(* whether a running one may be unfit, whether something has to be loaded   *)
(* inside it, and whether a well-formed answer without output is an error.  *)
TextWorker    == [gpu |-> FALSE, sized |-> FALSE, loads |-> TRUE,  strict |-> FALSE]
WhisperWorker == [gpu |-> FALSE, sized |-> TRUE,  loads |-> FALSE, strict |-> TRUE]
TtsWorker     == [gpu |-> FALSE, sized |-> FALSE, loads |-> FALSE, strict |-> TRUE]
ImageWorker   == [gpu |-> TRUE,  sized |-> FALSE, loads |-> FALSE, strict |-> FALSE]
VideoWorker   == [gpu |-> TRUE,  sized |-> FALSE, loads |-> FALSE, strict |-> TRUE]

Worker == [text |-> TextWorker, whisper |-> WhisperWorker, tts |-> TtsWorker,
           image |-> ImageWorker, video |-> VideoWorker]

-----------------------------------------------------------------------------
(* A request arrives. *)

(* The answers that need no worker: a key without a live worker, a GPU      *)
(* model on a machine without one, Whisper without audio.  An invalid       *)
(* prompt is answered likewise.                                              *)
ServesItself(p, k) ==
  \/ KindOf[k] = "pending"
  \/ KindOf[k] # "pending" /\ Worker[KindOf[k]].gpu /\ ~ Gpu
  \/ KindOf[k] = "whisper" /\ p = Provider

Serve(t, p, k, stream) ==
  LET asked == [Nothing EXCEPT !.proc = p, !.key = k, !.stream = stream]
  IN  req' = [req EXCEPT ![t] =
                IF ServesItself(p, k) THEN [asked EXCEPT !.pc = "replied", !.reply = "error"]
                ELSE [asked EXCEPT !.pc = "waiting"]]

(* run_endpoint: a key is served here or, named a provider, over there, for *)
(* money.                                                                    *)
RunEndpoint(t, k) ==
  /\ At(t, "idle")
  /\ \E p \in Procs : Serve(t, p, k, FALSE)
  /\ UNCHANGED <<worker, weights, lock, size>>

(* run_endpoint_stream: text on this machine only. *)
RunEndpointStream(t, k) ==
  /\ At(t, "idle") /\ KindOf[k] = "text"
  /\ Serve(t, Gateway, k, TRUE)
  /\ UNCHANGED <<worker, weights, lock, size>>

(* Mutant: provisioning is not serialised. *)
EnterUnlocked(t) ==
  /\ At(t, "waiting")
  /\ Goto(t, "inspecting")
  /\ lock' = [lock EXCEPT ![req[t].proc] = t]
  /\ UNCHANGED <<worker, weights, size>>

(* worker_lock().lock().await *)
Enter(t) ==
  /\ At(t, "waiting") /\ lock[req[t].proc] = None
  /\ lock' = [lock EXCEPT ![req[t].proc] = t]
  /\ Goto(t, "inspecting")
  /\ UNCHANGED <<worker, weights, size>>

-----------------------------------------------------------------------------
(* Provisioning, under the lock. *)

(* Mutant: a running worker is always good enough. *)
FitsAny(t) == Up(Kind(t))

(* The container runs; a Whisper worker also has the size that is wanted. *)
Fits(t) == Up(Kind(t)) /\ (Worker[Kind(t)].sized => worker[Kind(t)].size = size)

(* The container runs: a text model may have to be loaded, the others are   *)
(* posted to once the lock is given back.                                    *)
Started(t) ==
  IF Worker[Kind(t)].loads THEN Goto(t, "listing") /\ UNCHANGED lock
  ELSE Goto(t, "posting") /\ Unlock(t)

Inspect(t) ==
  /\ At(t, "inspecting")
  /\ IF Fits(t) THEN Started(t) ELSE Goto(t, "removing") /\ UNCHANGED lock
  /\ UNCHANGED <<worker, weights, size>>

(* rm -f of whatever has the name cuts off whoever waits for it; then the   *)
(* pin and the signature of the image are checked.                           *)
Remove(t) ==
  /\ At(t, "removing")
  /\ worker' = [worker EXCEPT ![Kind(t)] = Absent]
  /\ LET cut == [u \in Tasks |->
                   IF At(u, "answering") /\ Kind(u) = Kind(t)
                     THEN [req[u] EXCEPT !.on = FALSE] ELSE req[u]]
     IN  \E ok \in Outcomes("verify") :
           IF ok THEN req' = [cut EXCEPT ![t].pc = "running"] /\ UNCHANGED lock
           ELSE req' = [cut EXCEPT ![t].pc = "replied", ![t].reply = "error"] /\ Unlock(t)
  /\ UNCHANGED <<weights, size>>

(* docker run -d --name: refused if the other process has made one by now. *)
Run(t) ==
  /\ At(t, "running")
  /\ \E ok \in Outcomes("run") :
       IF ok /\ worker[Kind(t)] = Absent
         THEN /\ worker' = [worker EXCEPT ![Kind(t)] =
                   [state |-> "up", by |-> req[t].proc,
                    size |-> IF Worker[Kind(t)].sized THEN size ELSE None]]
              /\ Goto(t, "polling")
              /\ UNCHANGED lock
         ELSE /\ Reply(t, "error") /\ Unlock(t)
              /\ UNCHANGED worker
  /\ UNCHANGED <<weights, size>>

(* Mutant: waits until the worker is healthy, however long that takes. *)
PollForever(t) ==
  /\ At(t, "polling") /\ Up(Kind(t))
  /\ Started(t)
  /\ UNCHANGED <<worker, weights, size>>

(* A bounded number of polls; what they say is not looked at afterwards. *)
Poll(t) ==
  /\ At(t, "polling")
  /\ Started(t)
  /\ UNCHANGED <<worker, weights, size>>

(* ensure_ollama goes on inside the container: the model is in the cache, or *)
(* is pulled unless the worker has no way out.                               *)
EnsureModel(t) ==
  /\ At(t, "listing")
  /\ LET has == Up("text") /\ req[t].key \in weights
     IN  \E ok \in Outcomes("pull") :
           LET pulled == ~ has /\ Up("text") /\ ~ Sealed /\ ok
           IN  /\ weights' = IF pulled THEN weights \cup {req[t].key} ELSE weights
               /\ Unlock(t)
               /\ IF has \/ pulled THEN Goto(t, "posting") ELSE Reply(t, "error")
  /\ UNCHANGED <<worker, size>>

-----------------------------------------------------------------------------
(* The request itself, outside the lock.  A post ends: all have timeouts.   *)

Post(t) ==
  /\ At(t, "posting") /\ Up(Kind(t))
  /\ req' = [req EXCEPT ![t].pc = "answering", ![t].on = TRUE]
  /\ UNCHANGED <<worker, weights, lock, size>>

(* The worker is gone, is not listening, or took too long. *)
Fail(t) ==
  /\ \/ At(t, "posting") /\ ~ Up(Kind(t))
     \/ At(t, "answering") /\ (~ req[t].on \/ "refused" \in Faults)
  /\ Reply(t, "error")
  /\ UNCHANGED <<worker, weights, lock, size>>

(* The model's output, or a well-formed answer that has none (an error of   *)
(* the worker): the strict ones turn that into an error.                     *)
Answer(t) ==
  /\ At(t, "answering") /\ req[t].on /\ ~ req[t].stream
  /\ \/ Reply(t, "output")
     \/ "empty" \in Faults /\ Reply(t, IF Worker[Kind(t)].strict THEN "error" ELSE "empty")
  /\ UNCHANGED <<worker, weights, lock, size>>

(* A stream ends with `done', cut off or not. *)
AnswerStream(t) ==
  /\ At(t, "answering") /\ req[t].stream
  /\ \/ req[t].on /\ Reply(t, "output")
     \/ (~ req[t].on \/ "cut" \in Faults) /\ Reply(t, "empty")
  /\ UNCHANGED <<worker, weights, lock, size>>

(* The caller takes the reply. *)
Take(t) ==
  /\ At(t, "replied")
  /\ req' = [req EXCEPT ![t] = Nothing]
  /\ UNCHANGED <<worker, weights, lock, size>>

-----------------------------------------------------------------------------
(* Containers die; a process is started again, the gateway perhaps with      *)
(* another environment.                                                      *)

Die(w) ==
  /\ "death" \in Faults /\ Up(w)
  /\ worker' = [worker EXCEPT ![w].state = "down"]
  /\ req' = [t \in Tasks |-> IF At(t, "answering") /\ Kind(t) = w
                               THEN [req[t] EXCEPT !.on = FALSE] ELSE req[t]]
  /\ UNCHANGED <<weights, lock, size>>

(* Mutant: the lock is a file, and outlives its holder. *)
RestartLocked(p, s) ==
  /\ size' = IF p = Gateway THEN s ELSE size
  /\ req' = [t \in Tasks |-> IF req[t].proc = p THEN Nothing ELSE req[t]]
  /\ UNCHANGED <<worker, weights, lock>>

(* A process is started again: its requests are gone with its lock, the      *)
(* containers stay; the gateway may come back with another Whisper size.     *)
Restart(p, s) ==
  /\ size' = IF p = Gateway THEN s ELSE size
  /\ req' = [t \in Tasks |-> IF req[t].proc = p THEN Nothing ELSE req[t]]
  /\ lock' = [lock EXCEPT ![p] = None]
  /\ UNCHANGED <<worker, weights>>

Init ==
  /\ worker = [w \in Used |-> Absent] /\ weights = {}
  /\ lock = [p \in Procs |-> None]
  /\ size \in Sizes
  /\ req = [t \in Tasks |-> Nothing]

Handle(t) ==
  \/ Inspect(t) \/ Remove(t) \/ Run(t) \/ Poll(t) \/ EnsureModel(t)
  \/ Post(t) \/ Fail(t) \/ Answer(t) \/ AnswerStream(t) \/ Take(t)

Next ==
  \/ \E t \in Tasks :
       \/ \E k \in Endpoints : RunEndpoint(t, k) \/ RunEndpointStream(t, k)
       \/ Enter(t) \/ Handle(t)
  \/ \E w \in Used : Die(w)
  \/ \E p \in Procs, s \in Sizes : Restart(p, s)

Spec == Init /\ [][Next]_vars

(* The runtime polls every task, commands and posts end, and tokio's mutex  *)
(* is handed on in the order of asking.                                      *)
FairSpec == Spec /\ \A t \in Tasks : WF_vars(Handle(t)) /\ SF_vars(Enter(t))

-----------------------------------------------------------------------------
(* Properties. *)

(* Every variable has its type, and a lock is held by a task of its process *)
(* that is provisioning.                                                     *)
TypeOK ==
  /\ worker \in [Used -> [state : {"absent", "up", "down"}, size : Sizes \cup {None},
                          by : Procs \cup {None}]]
  /\ weights \subseteq Endpoints /\ size \in Sizes
  /\ \A t \in Tasks : req[t].reply \in {None, "output", "empty", "error"}
  /\ \A p \in Procs :
       lock[p] # None => req[lock[p]].proc = p /\ req[lock[p]].pc \in Provisioning

(* "Serializes model-worker provisioning" (gateway.rs:53): provisioning     *)
(* never removes a container its process made while another request of that *)
(* process waits for an answer from it.  What the other process of the      *)
(* machine made since the look at it may go (the lock is "across the whole  *)
(* process" and no further).                                                 *)
ProvisioningSparesRequests ==
  [][\A t, u \in Tasks :
       /\ Remove(t) /\ t # u /\ req[u].proc = req[t].proc
       /\ worker[Kind(t)].by = req[t].proc
       => req'[u].on = req[u].on]_vars

(* "recreate it so we serve what we report rather than the old model"       *)
(* (gateway.rs:3332): whoever waits for a transcription waits for a worker  *)
(* of the size that will be reported, restarts with another size included.  *)
ReportsWhatServed ==
  \A t \in Tasks : req[t].on /\ Kind(t) = "whisper" => worker["whisper"].size = size

(* Every request is answered, whatever its worker does: no health check and *)
(* no held lock keeps it forever (gateway.rs:2803, "keeps a hung upstream   *)
(* from stalling the poll loop").                                            *)
RequestsAnswered == \A t \in Tasks : At(t, "waiting") ~> At(t, "idle")

(* "errors carry an "error" field" (gateway.rs:3112): a reply that does not *)
(* say error has the model's output.                                         *)
ErrorsAreCarried == \A t \in Tasks : req[t].reply # "empty"
==============================================================================

------------------------------ MODULE Sessions ------------------------------
(***************************************************************************)
(* Access to a running VM: the provider's admission of streams (p2p.rs),   *)
(* shells and their pump (session.rs), TCP tunnels, the measuring of home  *)
(* volumes for status requests (vm.rs), and the gateway's port-forwards,   *)
(* shell bridge and web proxy (gateway.rs).  Starting and stopping VMs is  *)
(* in VmManager; here a VM is a record, a lease and a container.           *)
(*                                                                         *)
(* A stream slot is one bi-stream.  Its near end is the consumer's: a      *)
(* terminal or a local socket; its far end is in the VM: a shell or a      *)
(* server's socket.                                                        *)
(***************************************************************************)
EXTENDS Naturals, FiniteSets

CONSTANTS
  Streams,      \* slots of bi-streams
  Conns,        \* connections
  OwnerOf,      \* OwnerOf[c]: the authenticated peer of a connection
  MaxInbound,   \* MAX_CONCURRENT_INBOUND_STREAMS
  MaxPerConn,   \* MAX_INBOUND_STREAMS_PER_CONN
  MaxSessions,  \* MAX_CONCURRENT_SESSIONS
  Channel,      \* frames the pump's output channel holds (256)
  Kinds,        \* kinds of streams a run follows
  None

Owners == {OwnerOf[c] : c \in Conns}
AllKinds == {"status", "shell", "pipe", "proxy"}
Interactive == {"shell", "pipe", "proxy"}

ASSUME SessionsAssumption ==
  /\ IsFiniteSet(Streams) /\ None \notin Conns /\ Kinds \subseteq AllKinds
  /\ {MaxInbound, MaxPerConn, MaxSessions, Channel} \subseteq Nat \ {0}

VARIABLES
  stream,     \* stream[s]: its state
  vm,         \* vm[o]: the record: none, up, or its lease spent
  box,        \* box[o]: the container runs
  measuring,  \* vol_measuring: owners a du runs for
  forward     \* forward[o]: the gateway's port-forward: its listener, its entry

vars == <<stream, vm, box, measuring, forward>>

Free == [pc |-> "free", kind |-> None, conn |-> None, near |-> "open", far |-> "none",
         ended |-> {}, frames |-> 0, held |-> "none"]

At(s, pc) == stream[s].pc = pc
Owner(s) == OwnerOf[stream[s].conn]
Goto(s, pc) == stream' = [stream EXCEPT ![s].pc = pc]
Release(s) == stream' = [stream EXCEPT ![s] = Free]

-----------------------------------------------------------------------------
(* Permits.  A permit is held for a stream's whole life. *)

Inbound == {s \in Streams : ~ At(s, "free")}
OnConn(c) == {s \in Inbound : stream[s].conn = c}
Sessions == {s \in Inbound : stream[s].kind \in Interactive /\ ~ At(s, "reading")}

(* Mutant: a connection may use all of the node's streams. *)
AdmitsAll(c) == Cardinality(Inbound) < MaxInbound

Admits(c) ==
  /\ Cardinality(Inbound) < MaxInbound
  /\ Cardinality(OnConn(c)) < MaxPerConn

(* A stream that finds no permits gets an error frame and is dropped. *)
Accept(s, c, kind) ==
  /\ At(s, "free") /\ Admits(c)
  /\ stream' = [stream EXCEPT ![s] = [Free EXCEPT !.pc = "reading", !.conn = c, !.kind = kind]]
  /\ UNCHANGED <<vm, box, measuring, forward>>

(* One-shot requests: `vm status', and whatever else is answered at once. *)
Ask(s, c) == "status" \in Kinds /\ Accept(s, c, "status")

(* `cloudiy shell', and the browser's terminal. *)
Shell(s, c) == "shell" \in Kinds /\ Accept(s, c, "shell")

(* A socket accepted by the gateway's listener, or by `cloudiy tunnel'. *)
PipeForward(s, c) ==
  /\ "pipe" \in Kinds /\ forward[OwnerOf[c]].pc = "listening"
  /\ Accept(s, c, "pipe")

(* vm_proxy: one request; its sending side is finished before the answer is *)
(* read.                                                                     *)
ProxyOverTunnel(s, c) == "proxy" \in Kinds /\ Accept(s, c, "proxy")

-----------------------------------------------------------------------------
(* What the provider does with a request (handle_stream). *)

LeaseExhausted(o) == vm[o] = "spent"

(* A frame that cannot be read, no permit for a session, no VM, a lease     *)
(* that is spent, a port that is not published: an error, and the stream    *)
(* is over.                                                                  *)
Refuse(s) ==
  /\ At(s, "reading")
  /\ Release(s)
  /\ UNCHANGED <<vm, box, measuring, forward>>

(* handle_session and handle_tunnel up to their first await. *)
Open(s) ==
  /\ At(s, "reading") /\ stream[s].kind \in Interactive
  /\ Cardinality(Sessions) < MaxSessions
  /\ vm[Owner(s)] # "none" /\ ~ LeaseExhausted(Owner(s))
  /\ Goto(s, "opening")
  /\ UNCHANGED <<vm, box, measuring, forward>>

(* open_shell: docker exec on a pseudo-terminal.  It starts even if the     *)
(* container is gone, and then ends at once.                                 *)
OpenShell(s) ==
  /\ At(s, "opening") /\ stream[s].kind = "shell"
  /\ IF vm[Owner(s)] = "none" \/ stream[s].near = "lost" THEN Release(s)
     ELSE stream' = [stream EXCEPT ![s].pc = "pumping",
                                   ![s].far = IF box[Owner(s)] THEN "open" ELSE "exited"]
  /\ UNCHANGED <<vm, box, measuring, forward>>

(* The tunnel's connect to the port's host side, then Ack. *)
Connect(s) ==
  /\ At(s, "opening") /\ stream[s].kind \in {"pipe", "proxy"}
  /\ IF ~ box[Owner(s)] \/ stream[s].near = "lost" THEN Release(s)
     ELSE stream' = [stream EXCEPT ![s].pc = "copying", ![s].far = "open"]
  /\ UNCHANGED <<vm, box, measuring, forward>>

(* Whether a size that is not recent enough is measured for this request. *)
Measures(o) == vm[o] # "none" /\ o \notin measuring

(* vm_status: without a VM, with a size no older than VOL_CACHE_TTL_SECS,   *)
(* or while another request measures, the answer needs no du.                *)
VmStatus(s) ==
  /\ At(s, "reading") /\ stream[s].kind = "status"
  /\ \E recent \in BOOLEAN :
       IF ~ recent /\ Measures(Owner(s))
         THEN Goto(s, "measuring") /\ measuring' = measuring \cup {Owner(s)}
         ELSE Goto(s, "answering") /\ UNCHANGED measuring
  /\ UNCHANGED <<vm, box, forward>>

(* du ends, or its five seconds do. *)
Measured(s) ==
  /\ At(s, "measuring")
  /\ measuring' = measuring \ {Owner(s)}
  /\ Goto(s, "answering")
  /\ UNCHANGED <<vm, box, forward>>

Answer(s) ==
  /\ At(s, "answering")
  /\ Release(s)
  /\ UNCHANGED <<vm, box, measuring, forward>>

-----------------------------------------------------------------------------
(* The pump of a shell: a reader task, a channel, the main loop. *)

(* The shell writes something and the reader has it in hand. *)
Output(s) ==
  /\ stream[s].far = "open" /\ stream[s].pc \in {"pumping", "draining"}
  /\ stream[s].held = "none"
  /\ stream' = [stream EXCEPT ![s].held = "data"]
  /\ UNCHANGED <<vm, box, measuring, forward>>

(* blocking_send: waits while the channel is full. *)
ReaderSends(s) ==
  /\ stream[s].held \in {"data", "exit"} /\ stream[s].frames < Channel
  /\ stream' = [stream EXCEPT ![s].frames = @ + 1,
                              ![s].held = IF @ = "data" THEN "none" ELSE "over"]
  /\ UNCHANGED <<vm, box, measuring, forward>>

(* The terminal's end: after at most a second of polling for the exit code, *)
(* the Exit frame.                                                           *)
ReaderEof(s) ==
  /\ stream[s].pc \in {"pumping", "draining"}
  /\ stream[s].far \in {"exited", "hung"} /\ stream[s].held = "none"
  /\ stream' = [stream EXCEPT ![s].held = "exit"]
  /\ UNCHANGED <<vm, box, measuring, forward>>

(* The main loop passes a frame on; after the Exit, or when the consumer is *)
(* gone, it takes no more of them.                                           *)
Forward(s) ==
  /\ At(s, "pumping") /\ stream[s].frames > 0
  /\ LET last == stream[s].held = "over" /\ stream[s].frames = 1
     IN  stream' = [stream EXCEPT
           ![s].frames = @ - 1,
           ![s].pc = IF last \/ stream[s].near = "lost" THEN "draining" ELSE @]
  /\ UNCHANGED <<vm, box, measuring, forward>>

(* reader_task.await: the reader must have sent its Exit.  The channel is   *)
(* still there, and nobody reads it.                                         *)
PumpEnds(s) ==
  /\ At(s, "draining") /\ stream[s].held = "over"
  /\ Release(s)
  /\ UNCHANGED <<vm, box, measuring, forward>>

(* The shell exits, of itself or for its input's end. *)
ShellExits(s) ==
  /\ stream[s].kind = "shell" /\ stream[s].far = "open"
  /\ stream' = [stream EXCEPT ![s].far = "exited"]
  /\ UNCHANGED <<vm, box, measuring, forward>>

-----------------------------------------------------------------------------
(* A tunnel: two copies at either side.  Each side waits for both of its    *)
(* copies before it finishes its stream, and a copy's end does not close    *)
(* what it wrote to.                                                         *)

Ended(s, copy) == copy \in stream[s].ended
CopyEnds(s, copy) ==
  /\ ~ Ended(s, copy)
  /\ stream' = [stream EXCEPT ![s].ended = @ \cup {copy}]
  /\ UNCHANGED <<vm, box, measuring, forward>>

(* Mutant: the proxy finishes its stream when it has the answer. *)
NearFinishedLate(s) == {"nearOut", "nearIn"} \subseteq stream[s].ended

(* The consumer's side has finished its sending side. *)
NearFinished(s) == stream[s].kind = "proxy" \/ {"nearOut", "nearIn"} \subseteq stream[s].ended

(* The consumer's copies: from the local socket, and to it. *)
NearOut(s) == At(s, "copying") /\ stream[s].near = "closed" /\ CopyEnds(s, "nearOut")

(* The provider's copies: what the consumer finished, what the server closed. *)
FarOut(s) == At(s, "copying") /\ NearFinished(s) /\ CopyEnds(s, "farOut")
FarIn(s) == At(s, "copying") /\ stream[s].far = "closed" /\ CopyEnds(s, "farIn")

(* Both of the provider's copies are over: the stream is finished, and with *)
(* it whatever still waits at the consumer's side.                           *)
TunnelEnds(s) ==
  /\ At(s, "copying")
  /\ Ended(s, "farOut") /\ Ended(s, "farIn")
  /\ Release(s)
  /\ UNCHANGED <<vm, box, measuring, forward>>

(* Bytes for an end that is closed: an error ends both copies at once, on   *)
(* both sides.  Nothing says that there are such bytes.                      *)
CopyFails(s) ==
  /\ At(s, "copying")
  /\ stream[s].near = "closed" \/ stream[s].far = "closed"
  /\ Release(s)
  /\ UNCHANGED <<vm, box, measuring, forward>>

(* A connection that is lost is an error for whoever reads from it. *)
CopyLost(s) ==
  /\ At(s, "copying") /\ stream[s].near = "lost"
  /\ Release(s)
  /\ UNCHANGED <<vm, box, measuring, forward>>

(* The local program, or the server in the VM, closes its socket. *)
NearCloses(s) ==
  /\ At(s, "copying") /\ stream[s].kind = "pipe" /\ stream[s].near = "open"
  /\ stream' = [stream EXCEPT ![s].near = "closed"]
  /\ UNCHANGED <<vm, box, measuring, forward>>

FarCloses(s) ==
  /\ At(s, "copying") /\ stream[s].far = "open"
  /\ stream' = [stream EXCEPT ![s].far = "closed"]
  /\ UNCHANGED <<vm, box, measuring, forward>>

(* The consumer's process ends, or closes the connection. *)
ConnLost(c) ==
  /\ OnConn(c) # {}
  /\ stream' = [s \in Streams |-> IF s \in OnConn(c) THEN [stream[s] EXCEPT !.near = "lost"]
                                                     ELSE stream[s]]
  /\ UNCHANGED <<vm, box, measuring, forward>>

-----------------------------------------------------------------------------
(* The VM, as VmManager has it. *)

Provision(o) ==
  /\ vm[o] = "none" /\ ~ box[o]
  /\ vm' = [vm EXCEPT ![o] = "up"]
  /\ box' = [box EXCEPT ![o] = TRUE]
  /\ UNCHANGED <<stream, measuring, forward>>

(* A metered lease is used up. *)
Spend(o) ==
  /\ vm[o] = "up"
  /\ vm' = [vm EXCEPT ![o] = "spent"]
  /\ UNCHANGED <<stream, box, measuring, forward>>

(* stop: the record goes first. *)
Stop(o) ==
  /\ vm[o] # "none"
  /\ vm' = [vm EXCEPT ![o] = "none"]
  /\ UNCHANGED <<stream, box, measuring, forward>>

(* The container goes, after a stop or of itself, and the far ends with it. *)
ContainerGone(o) ==
  /\ box[o]
  /\ box' = [box EXCEPT ![o] = FALSE]
  /\ \E how \in {"exited", "hung"} :
       stream' = [s \in Streams |->
         IF ~ At(s, "free") /\ stream[s].far = "open" /\ Owner(s) = o
           THEN [stream[s] EXCEPT !.far = IF stream[s].kind = "shell" THEN how ELSE "closed"]
           ELSE stream[s]]
  /\ UNCHANGED <<vm, measuring, forward>>

Remove(o) == vm[o] = "none" /\ ContainerGone(o)

-----------------------------------------------------------------------------
(* The gateway's port-forwards: an entry in a map, and a listener task that *)
(* ends when its entry is dropped.                                           *)

Listener(o, pc) == forward' = [forward EXCEPT ![o].pc = pc]

ForwardOpen(o) ==
  /\ forward[o].pc = "closed"
  /\ forward' = [forward EXCEPT ![o] = [pc |-> "listening", listed |-> TRUE]]
  /\ UNCHANGED <<stream, vm, box, measuring>>

ForwardClose(o) ==
  /\ forward[o].listed
  /\ forward' = [forward EXCEPT ![o].listed = FALSE]
  /\ UNCHANGED <<stream, vm, box, measuring>>

ListenerShutdown(o) ==
  /\ forward[o].pc = "listening" /\ ~ forward[o].listed
  /\ Listener(o, "closed")
  /\ UNCHANGED <<stream, vm, box, measuring>>

(* An accept that fails ends the listener and leaves the entry. *)
AcceptFails(o) ==
  /\ forward[o].pc = "listening"
  /\ Listener(o, "closed")
  /\ UNCHANGED <<stream, vm, box, measuring>>

(* Every half minute the listener asks for the VM's status. *)
HealthTick(o) ==
  /\ forward[o].pc = "listening"
  /\ Listener(o, "asking")
  /\ UNCHANGED <<stream, vm, box, measuring>>

(* Mutant: a VM that is missing is taken for a passing error. *)
GoneIfSpent(o) == vm[o] = "spent"

VmIsGone(o) == vm[o] \in {"none", "spent"}

HealthAnswer(o) ==
  /\ forward[o].pc = "asking"
  /\ forward' = [forward EXCEPT ![o] = IF VmIsGone(o) THEN [pc |-> "closed", listed |-> FALSE]
                                       ELSE [@ EXCEPT !.pc = "listening"]]
  /\ UNCHANGED <<stream, vm, box, measuring>>

(* No answer, or a refusal: not gone. *)
HealthBlip(o) ==
  /\ forward[o].pc = "asking"
  /\ Listener(o, "listening")
  /\ UNCHANGED <<stream, vm, box, measuring>>

-----------------------------------------------------------------------------

Init ==
  /\ stream = [s \in Streams |-> Free]
  /\ vm = [o \in Owners |-> "none"] /\ box = [o \in Owners |-> FALSE]
  /\ measuring = {}
  /\ forward = [o \in Owners |-> [pc |-> "closed", listed |-> FALSE]]

Handle(s) == Refuse(s) \/ Open(s) \/ OpenShell(s) \/ Connect(s) \/ VmStatus(s) \/ Measured(s) \/ Answer(s)
Pump(s) == ReaderSends(s) \/ ReaderEof(s) \/ Forward(s) \/ PumpEnds(s)
Copy(s) == NearOut(s) \/ FarOut(s) \/ FarIn(s) \/ TunnelEnds(s) \/ CopyLost(s)

Next ==
  \/ \E s \in Streams :
       \/ \E c \in Conns : Ask(s, c) \/ Shell(s, c) \/ PipeForward(s, c) \/ ProxyOverTunnel(s, c)
       \/ Handle(s) \/ Pump(s) \/ Copy(s)
       \/ Output(s) \/ ShellExits(s) \/ CopyFails(s) \/ NearCloses(s) \/ FarCloses(s)
  \/ \E c \in Conns : ConnLost(c)
  \/ \E o \in Owners :
       \/ Provision(o) \/ Spend(o) \/ Stop(o) \/ Remove(o) \/ ContainerGone(o)
       \/ ForwardOpen(o) \/ ForwardClose(o) \/ ListenerShutdown(o) \/ AcceptFails(o)
       \/ HealthTick(o) \/ HealthAnswer(o) \/ HealthBlip(o)

Spec == Init /\ [][Next]_vars

(* Handlers, the tasks of pumps and copies and the listeners' timers run    *)
(* on; a status request of a listener is answered now and then.             *)
FairSpec ==
  /\ Spec
  /\ \A s \in Streams : WF_vars(Handle(s) \/ Pump(s) \/ Copy(s))
  /\ \A o \in Owners : WF_vars(HealthTick(o) \/ ListenerShutdown(o)) /\ SF_vars(HealthAnswer(o))

-----------------------------------------------------------------------------
(* Properties. *)

(* Every variable has its type, permits are not exceeded, and the in-flight *)
(* guard (vm.rs:687) holds the owners a request measures for, no other.     *)
TypeOK ==
  /\ \A s \in Streams : /\ stream[s].frames \in 0..Channel
                        /\ stream[s].kind \in Kinds \cup {None}
                        /\ At(s, "free") <=> stream[s].conn = None
  /\ vm \in [Owners -> {"none", "up", "spent"}]
  /\ box \in [Owners -> BOOLEAN]
  /\ Cardinality(Inbound) <= MaxInbound /\ Cardinality(Sessions) <= MaxSessions
  /\ \A c \in Conns : Cardinality(OnConn(c)) <= MaxPerConn
  /\ measuring = {Owner(s) : s \in {t \in Streams : At(t, "measuring")}}

(* The end of a shell reaches a consumer that stays, even if the exec       *)
(* client is never reaped ("a hung wait() would strand the client",         *)
(* session.rs:48), and a proxied exchange ends when the server closes.       *)
EndsAreTold ==
  \A s \in Streams :
    /\ (At(s, "pumping") /\ stream[s].far \in {"exited", "hung"})
         ~> (~ At(s, "pumping") \/ stream[s].near = "lost")
    /\ (At(s, "copying") /\ stream[s].kind = "proxy" /\ stream[s].far = "closed")
         ~> At(s, "free")

(* "close the forward once the VM is gone or its lease is spent - a dead    *)
(* forward should not linger holding a port" (gateway.rs:2035).              *)
DeadForwardsClose ==
  \A o \in Owners :
    (forward[o].pc # "closed" /\ vm[o] = "none") ~> (forward[o].pc = "closed" \/ vm[o] # "none")

(* "Raw byte copy in both directions - so WebSockets and any TCP protocol   *)
(* pass through unchanged" (gateway.rs:2092): when both programs have       *)
(* closed their sockets the tunnel ends.                                     *)
TunnelsEnd ==
  \A s \in Streams :
    (At(s, "copying") /\ stream[s].near = "closed" /\ stream[s].far = "closed") ~> At(s, "free")

(* "pumps binary session frames until the shell exits" (p2p.rs:226): a      *)
(* session whose shell has exited ends, and gives its permits back.          *)
SessionsEnd ==
  \A s \in Streams :
    (stream[s].kind = "shell" /\ stream[s].far \in {"exited", "hung"}) ~> At(s, "free")
==============================================================================

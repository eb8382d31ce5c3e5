--------------------------- MODULE SessionsProofs ---------------------------
(***************************************************************************)
(* Proofs about Sessions: the permits of streams and sessions, the bounded *)
(* channel of a shell's pump, and the in-flight guard of du.                *)
(***************************************************************************)
EXTENDS Sessions, FiniteSetTheorems, TLAPS

Pcs == {"free", "reading", "opening", "pumping", "draining", "copying", "measuring", "answering"}
Copies == {"nearOut", "nearIn", "farOut", "farIn"}

StreamType ==
  [pc : Pcs, kind : Kinds \cup {None}, conn : Conns \cup {None},
   near : {"open", "closed", "lost"}, far : {"none", "open", "closed", "exited", "hung"},
   ended : SUBSET Copies, frames : 0..Channel, held : {"none", "data", "exit", "over"}]

(* A slot that is not in use has nothing left of its last stream. *)
Slots ==
  /\ stream \in [Streams -> StreamType]
  /\ \A s \in Streams : /\ At(s, "free") => stream[s] = Free
                        /\ ~ At(s, "free") => stream[s].conn \in Conns

Permits ==
  /\ Cardinality(Inbound) <= MaxInbound
  /\ Cardinality(Sessions) <= MaxSessions
  /\ \A c \in Conns : Cardinality(OnConn(c)) <= MaxPerConn

(* Two requests of one owner never measure at once: what the one that ends  *)
(* takes out of the guard is not another's.                                  *)
OneMeasures ==
  /\ measuring = {Owner(s) : s \in {t \in Streams : At(t, "measuring")}}
  /\ \A s, t \in Streams :
       At(s, "measuring") /\ At(t, "measuring") /\ Owner(s) = Owner(t) => s = t

Machines ==
  /\ vm \in [Owners -> {"none", "up", "spent"}]
  /\ box \in [Owners -> BOOLEAN]

Sound == Slots /\ Permits /\ OneMeasures /\ Machines

-----------------------------------------------------------------------------
(* A stream that keeps its place: it is as it was, it ends without having   *)
(* measured, or it goes on without a new permit.                             *)

Keeps(s) ==
  \/ stream'[s] = stream[s]
  \/ stream'[s] = Free /\ ~ At(s, "measuring")
  \/ /\ ~ At(s, "free") /\ ~ At(s, "free")'
     /\ stream'[s].conn = stream[s].conn /\ stream'[s].kind = stream[s].kind
     /\ At(s, "measuring")' <=> At(s, "measuring")
     /\ At(s, "reading") /\ stream[s].kind \in Interactive => At(s, "reading")'

(* The set of a stream's slot is finite, and a part of it is no larger. *)
LEMMA PartsAreSmaller ==
  ASSUME NEW S \in SUBSET Streams, NEW T \in SUBSET S, NEW n \in Nat, Cardinality(S) <= n
  PROVE  Cardinality(T) <= n
<1>1. IsFiniteSet(Streams) BY SessionsAssumption
<1>2. IsFiniteSet(S) BY <1>1, FS_Subset
<1>3. IsFiniteSet(T) /\ Cardinality(T) <= Cardinality(S) BY <1>2, FS_Subset
<1>4. Cardinality(S) \in Nat /\ Cardinality(T) \in Nat BY <1>2, <1>3, FS_CardinalityType
<1> QED BY <1>3, <1>4

(* One more stream fits under a limit that is not reached. *)
LEMMA OneMoreFits ==
  ASSUME NEW S \in SUBSET Streams, NEW T \in SUBSET Streams, NEW s \in Streams,
         T \subseteq S \cup {s}, NEW n \in Nat, Cardinality(S) < n
  PROVE  Cardinality(T) <= n
<1>1. IsFiniteSet(Streams) BY SessionsAssumption
<1>2. IsFiniteSet(S) BY <1>1, FS_Subset
<1>3. Cardinality(S) \in Nat BY <1>2, FS_CardinalityType
<1>4. Cardinality(S \cup {s}) <= n
  <2>1. Cardinality(S \cup {s}) = IF s \in S THEN Cardinality(S) ELSE Cardinality(S) + 1
    BY <1>2, FS_AddElement
  <2> QED BY <2>1, <1>3
<1> QED BY <1>4, PartsAreSmaller

(* A step in which every stream keeps its place keeps the slots, the        *)
(* permits and the guard.                                                    *)
LEMMA QuietStep ==
  ASSUME Slots, Permits, OneMeasures, stream' \in [Streams -> StreamType],
         \A s \in Streams : Keeps(s), UNCHANGED measuring
  PROVE  Slots' /\ Permits' /\ OneMeasures'
<1>1. \A s \in Streams : At(s, "free")' => stream'[s] = Free
  BY DEF Slots, Keeps, At
<1>2. \A s \in Streams : ~ At(s, "free")' => stream'[s].conn = stream[s].conn /\ ~ At(s, "free")
  BY DEF Slots, Keeps, At, Free
<1>3. Slots' BY <1>1, <1>2 DEF Slots, At
<1>4. \A s \in Streams : At(s, "measuring")' <=> At(s, "measuring")
  BY DEF Keeps, At, Free
<1>5. Permits'
  <2>1. Inbound' \subseteq Inbound BY <1>2 DEF Inbound
  <2>2. \A c \in Conns : OnConn(c)' \subseteq OnConn(c) BY <1>2 DEF Inbound, OnConn
  <2>3. Sessions' \subseteq Sessions
    <3>1. ASSUME NEW s \in Streams, s \in Sessions' PROVE s \in Sessions
      <4>1. ~ At(s, "free")' /\ stream'[s].kind \in Interactive /\ ~ At(s, "reading")'
        BY <3>1 DEF Sessions, Inbound
      <4>2. ~ At(s, "free") BY <4>1, <1>2
      <4>3. stream[s].kind \in Interactive /\ ~ At(s, "reading")
        BY <4>1 DEF Keeps, At, Free
      <4> QED BY <4>2, <4>3 DEF Sessions, Inbound
    <3> QED BY <3>1 DEF Sessions, Inbound
  <2>4. /\ Inbound \in SUBSET Streams /\ Sessions \in SUBSET Streams
        /\ \A c \in Conns : OnConn(c) \in SUBSET Streams
    BY DEF Inbound, Sessions, OnConn
  <2>5. MaxInbound \in Nat /\ MaxSessions \in Nat /\ MaxPerConn \in Nat BY SessionsAssumption
  <2>6. Cardinality(Inbound') <= MaxInbound
    BY <2>1, <2>4, <2>5, PartsAreSmaller DEF Permits
  <2>7. Cardinality(Sessions') <= MaxSessions
    BY <2>3, <2>4, <2>5, PartsAreSmaller DEF Permits
  <2>8. \A c \in Conns : Cardinality(OnConn(c)') <= MaxPerConn
    BY <2>2, <2>4, <2>5, PartsAreSmaller DEF Permits
  <2> QED BY <2>6, <2>7, <2>8 DEF Permits
<1>6. OneMeasures'
  <2>1. \A s \in Streams : At(s, "measuring") => Owner(s)' = Owner(s)
    BY <1>2, <1>4 DEF Owner, At
  <2> QED BY <1>4, <2>1 DEF OneMeasures
<1> QED BY <1>3, <1>5, <1>6

(* One stream moves, the others stay: the form of most actions. *)
LEMMA OneMoves ==
  ASSUME Slots, Permits, OneMeasures, NEW s \in Streams, NEW r \in StreamType,
         stream' = [stream EXCEPT ![s] = r], Keeps(s), UNCHANGED measuring
  PROVE  Slots' /\ Permits' /\ OneMeasures'
<1>1. stream' \in [Streams -> StreamType] BY DEF Slots
<1>2. \A t \in Streams : Keeps(t) BY DEF Keeps, Slots
<1> QED BY <1>1, <1>2, QuietStep

LEMMA FreeType == Free \in StreamType
BY SessionsAssumption DEF Free, StreamType, Pcs, Copies

(* A stream that ends gives its permits back. *)
LEMMA ReleaseKeeps ==
  ASSUME Slots, Permits, OneMeasures, NEW s \in Streams, Release(s), ~ At(s, "measuring"),
         UNCHANGED measuring
  PROVE  Slots' /\ Permits' /\ OneMeasures'
<1>1. stream' = [stream EXCEPT ![s] = Free] /\ Keeps(s) BY DEF Release, Keeps, Slots
<1> QED BY <1>1, FreeType, OneMoves

-----------------------------------------------------------------------------
(* Admission. *)

(* A stream that is let in has a permit of the node and one of its          *)
(* connection, and no session yet.                                           *)
LEMMA AcceptKeeps ==
  ASSUME Slots, Permits, OneMeasures, NEW s \in Streams, NEW c \in Conns,
         NEW kind \in Kinds, Accept(s, c, kind)
  PROVE  Slots' /\ Permits' /\ OneMeasures'
<1> DEFINE r == [Free EXCEPT !.pc = "reading", !.conn = c, !.kind = kind]
<1>1. /\ At(s, "free") /\ Admits(c) /\ stream' = [stream EXCEPT ![s] = r]
      /\ UNCHANGED measuring
  BY DEF Accept
<1>2. r \in StreamType /\ r.pc = "reading" /\ r.conn = c /\ r.kind = kind
  <2> DEFINE e == [Free EXCEPT !.pc = "reading"]
             f == [e EXCEPT !.conn = c]
  <2>1. e \in StreamType /\ e.pc = "reading" BY FreeType DEF StreamType, Pcs
  <2> HIDE DEF e
  <2>2. f \in StreamType /\ f.pc = "reading" /\ f.conn = c BY <2>1 DEF StreamType
  <2>3. r = [f EXCEPT !.kind = kind] BY DEF e
  <2> HIDE DEF f, r
  <2> QED BY <2>2, <2>3 DEF StreamType
<1> HIDE DEF r
<1>3. /\ stream' \in [Streams -> StreamType] /\ stream'[s] = r
      /\ \A t \in Streams : t # s => stream'[t] = stream[t]
  BY <1>1, <1>2 DEF Slots
<1>4. Slots' BY <1>2, <1>3 DEF Slots, At
<1>5. Permits'
  <2>1. Inbound' \subseteq Inbound \cup {s} BY <1>3 DEF Inbound, At
  <2>2. OnConn(c)' \subseteq OnConn(c) \cup {s} BY <1>3 DEF Inbound, OnConn, At
  <2>3. \A d \in Conns : d # c => OnConn(d)' \subseteq OnConn(d)
    BY <1>2, <1>3 DEF Inbound, OnConn, At
  <2>4. Sessions' \subseteq Sessions BY <1>2, <1>3 DEF Inbound, Sessions, At
  <2>5. /\ Inbound \in SUBSET Streams /\ Inbound' \in SUBSET Streams
        /\ Sessions \in SUBSET Streams
        /\ \A d \in Conns : OnConn(d) \in SUBSET Streams /\ OnConn(d)' \in SUBSET Streams
    BY DEF Inbound, Sessions, OnConn
  <2>6. MaxInbound \in Nat /\ MaxSessions \in Nat /\ MaxPerConn \in Nat BY SessionsAssumption
  <2>7. Cardinality(Inbound) < MaxInbound /\ Cardinality(OnConn(c)) < MaxPerConn
    BY <1>1 DEF Admits
  <2>8. Cardinality(Inbound') <= MaxInbound BY <2>1, <2>5, <2>6, <2>7, OneMoreFits
  <2>9. Cardinality(Sessions') <= MaxSessions
    BY <2>4, <2>5, <2>6, PartsAreSmaller DEF Permits
  <2>10. ASSUME NEW d \in Conns PROVE Cardinality(OnConn(d)') <= MaxPerConn
    <3>1. CASE d = c BY <3>1, <2>2, <2>5, <2>6, <2>7, OneMoreFits
    <3>2. CASE d # c BY <3>2, <2>3, <2>5, <2>6, PartsAreSmaller DEF Permits
    <3> QED BY <3>1, <3>2
  <2> QED BY <2>8, <2>9, <2>10 DEF Permits
<1>6. OneMeasures'
  <2>1. \A t \in Streams : At(t, "measuring")' <=> At(t, "measuring")
    BY <1>1, <1>2, <1>3 DEF At
  <2>2. \A t \in Streams : At(t, "measuring") => Owner(t)' = Owner(t)
    BY <1>1, <1>3 DEF Owner, At
  <2> QED BY <1>1, <2>1, <2>2 DEF OneMeasures
<1> QED BY <1>4, <1>5, <1>6

(* A session is opened with a permit of its own. *)
LEMMA OpenKeeps ==
  ASSUME Slots, Permits, OneMeasures, NEW s \in Streams, Open(s)
  PROVE  Slots' /\ Permits' /\ OneMeasures'
<1> DEFINE r == [stream[s] EXCEPT !.pc = "opening"]
<1>1. /\ At(s, "reading") /\ Cardinality(Sessions) < MaxSessions
      /\ stream' = [stream EXCEPT ![s] = r] /\ UNCHANGED measuring
  BY DEF Open, Goto
<1>2. /\ r \in StreamType /\ r.pc = "opening"
      /\ r.conn = stream[s].conn /\ r.kind = stream[s].kind
  BY DEF Slots, StreamType, Pcs
<1> HIDE DEF r
<1>3. /\ stream' \in [Streams -> StreamType] /\ stream'[s] = r
      /\ \A t \in Streams : t # s => stream'[t] = stream[t]
  BY <1>1, <1>2 DEF Slots
<1>4. \A t \in Streams : stream'[t].conn = stream[t].conn /\ (At(t, "free")' <=> At(t, "free"))
  BY <1>1, <1>2, <1>3 DEF At
<1>5. Slots' BY <1>1, <1>2, <1>3, <1>4 DEF Slots, At
<1>6. Permits'
  <2>1. Inbound' = Inbound BY <1>4 DEF Inbound
  <2>2. \A c \in Conns : OnConn(c)' = OnConn(c) BY <2>1, <1>4 DEF OnConn, Inbound
  <2>3. Sessions' \subseteq Sessions \cup {s} BY <2>1, <1>3 DEF Sessions, Inbound, At
  <2>4. Sessions \in SUBSET Streams /\ Sessions' \in SUBSET Streams
    BY DEF Sessions, Inbound
  <2>5. Cardinality(Sessions') <= MaxSessions
    BY <1>1, <2>3, <2>4, SessionsAssumption, OneMoreFits
  <2> QED BY <2>1, <2>2, <2>5 DEF Permits
<1>7. OneMeasures'
  <2>1. \A t \in Streams : At(t, "measuring")' <=> At(t, "measuring")
    BY <1>1, <1>2, <1>3 DEF At
  <2>2. \A t \in Streams : Owner(t)' = Owner(t) BY <1>4 DEF Owner
  <2> QED BY <1>1, <2>1, <2>2 DEF OneMeasures
<1> QED BY <1>5, <1>6, <1>7

-----------------------------------------------------------------------------
(* Status requests and their guard. *)

(* A request measures only if none of its owner does. *)
LEMMA StatusKeeps ==
  ASSUME Slots, Permits, OneMeasures, NEW s \in Streams, VmStatus(s)
  PROVE  Slots' /\ Permits' /\ OneMeasures'
<1>1. At(s, "reading") /\ stream[s].kind = "status" BY DEF VmStatus
<1>2. PICK recent \in BOOLEAN :
        IF ~ recent /\ Measures(Owner(s))
          THEN Goto(s, "measuring") /\ measuring' = measuring \cup {Owner(s)}
          ELSE Goto(s, "answering") /\ UNCHANGED measuring
  BY DEF VmStatus
<1>3. CASE ~ (~ recent /\ Measures(Owner(s)))
  <2> DEFINE r == [stream[s] EXCEPT !.pc = "answering"]
  <2>1. stream' = [stream EXCEPT ![s] = r] /\ UNCHANGED measuring BY <1>2, <1>3 DEF Goto
  <2>2. r \in StreamType BY DEF Slots, StreamType, Pcs
  <2>3. Keeps(s) BY <1>1, <2>1 DEF Keeps, Slots, StreamType, At, Interactive
  <2> QED BY <2>1, <2>2, <2>3, OneMoves
<1>4. CASE ~ recent /\ Measures(Owner(s))
  <2> DEFINE r == [stream[s] EXCEPT !.pc = "measuring"]
  <2>1. /\ stream' = [stream EXCEPT ![s] = r] /\ measuring' = measuring \cup {Owner(s)}
        /\ Owner(s) \notin measuring
    BY <1>2, <1>4 DEF Goto, Measures
  <2>2. /\ r \in StreamType /\ r.pc = "measuring"
        /\ r.conn = stream[s].conn /\ r.kind = stream[s].kind
    BY DEF Slots, StreamType, Pcs
  <2> HIDE DEF r
  <2>3. /\ stream' \in [Streams -> StreamType] /\ stream'[s] = r
        /\ \A t \in Streams : t # s => stream'[t] = stream[t]
    BY <2>1, <2>2 DEF Slots
  <2>4. \A t \in Streams : /\ stream'[t].conn = stream[t].conn /\ stream'[t].kind = stream[t].kind
                           /\ At(t, "free")' <=> At(t, "free")
    BY <1>1, <2>2, <2>3 DEF At
  <2>5. Slots' BY <1>1, <2>2, <2>3, <2>4 DEF Slots, At
  <2>6. Permits'
    <3>1. Inbound' = Inbound BY <2>4 DEF Inbound
    <3>2. \A c \in Conns : OnConn(c)' = OnConn(c) BY <3>1, <2>4 DEF OnConn, Inbound
    <3>3. Sessions' = Sessions
      BY <1>1, <2>3, <2>4, <3>1 DEF Sessions, Inbound, Interactive, At
    <3> QED BY <3>1, <3>2, <3>3 DEF Permits
  <2>7. OneMeasures'
    <3>1. \A t \in Streams : Owner(t)' = Owner(t) BY <2>4 DEF Owner
    <3>2. At(s, "measuring")' BY <2>2, <2>3 DEF At
    <3>3. \A t \in Streams : t # s => (At(t, "measuring")' <=> At(t, "measuring"))
      BY <2>3 DEF At
    <3>4. \A t \in Streams : At(t, "measuring") => Owner(t) # Owner(s)
      BY <2>1 DEF OneMeasures
    <3>5. ~ At(s, "measuring") BY <1>1 DEF At
    <3> QED BY <2>1, <3>1, <3>2, <3>3, <3>4, <3>5 DEF OneMeasures
  <2> QED BY <2>5, <2>6, <2>7
<1> QED BY <1>3, <1>4

(* The request that measured takes its owner out of the guard. *)
LEMMA MeasuredKeeps ==
  ASSUME Slots, Permits, OneMeasures, NEW s \in Streams, Measured(s)
  PROVE  Slots' /\ Permits' /\ OneMeasures'
<1> DEFINE r == [stream[s] EXCEPT !.pc = "answering"]
<1>1. /\ At(s, "measuring") /\ measuring' = measuring \ {Owner(s)}
      /\ stream' = [stream EXCEPT ![s] = r]
  BY DEF Measured, Goto
<1>2. /\ r \in StreamType /\ r.pc = "answering"
      /\ r.conn = stream[s].conn /\ r.kind = stream[s].kind
  BY DEF Slots, StreamType, Pcs
<1> HIDE DEF r
<1>3. /\ stream' \in [Streams -> StreamType] /\ stream'[s] = r
      /\ \A t \in Streams : t # s => stream'[t] = stream[t]
  BY <1>1, <1>2 DEF Slots
<1>4. \A t \in Streams : /\ stream'[t].conn = stream[t].conn /\ stream'[t].kind = stream[t].kind
                         /\ At(t, "free")' <=> At(t, "free")
                         /\ At(t, "reading")' <=> At(t, "reading")
  BY <1>1, <1>2, <1>3 DEF At
<1>5. Slots' BY <1>1, <1>2, <1>3, <1>4 DEF Slots, At
<1>6. Permits'
  <2>1. Inbound' = Inbound BY <1>4 DEF Inbound
  <2>2. \A c \in Conns : OnConn(c)' = OnConn(c) BY <2>1, <1>4 DEF OnConn, Inbound
  <2>3. Sessions' = Sessions BY <1>4, <2>1 DEF Sessions, Inbound
  <2> QED BY <2>1, <2>2, <2>3 DEF Permits
<1>7. OneMeasures'
  <2>1. \A t \in Streams : Owner(t)' = Owner(t) BY <1>4 DEF Owner
  <2>2. \A t \in Streams : At(t, "measuring")' <=> t # s /\ At(t, "measuring")
    BY <1>2, <1>3 DEF At
  <2>3. \A t \in Streams : t # s /\ At(t, "measuring") => Owner(t) # Owner(s)
    BY <1>1 DEF OneMeasures
  <2> QED BY <1>1, <2>1, <2>2, <2>3 DEF OneMeasures
<1> QED BY <1>5, <1>6, <1>7

-----------------------------------------------------------------------------
(* What handlers, pumps and copies do to their own stream. *)

(* A step of a stream that goes on, at a place that needs no new permit. *)
LEMMA GoesOn ==
  ASSUME Slots, Permits, OneMeasures, NEW s \in Streams, NEW r \in StreamType,
         stream' = [stream EXCEPT ![s] = r], UNCHANGED measuring,
         ~ At(s, "free"), ~ At(s, "measuring"), ~ At(s, "reading"),
         r.pc \notin {"free", "measuring"},
         r.conn = stream[s].conn, r.kind = stream[s].kind
  PROVE  Slots' /\ Permits' /\ OneMeasures'
<1>1. Keeps(s) BY DEF Keeps, Slots, At
<1> QED BY <1>1, OneMoves

LEMMA HandlerKeeps ==
  ASSUME Slots, Permits, OneMeasures, NEW s \in Streams, Handle(s)
  PROVE  Slots' /\ Permits' /\ OneMeasures'
<1>1. CASE Refuse(s) BY <1>1, ReleaseKeeps DEF Refuse, At
<1>2. CASE Open(s) BY <1>2, OpenKeeps
<1>3. CASE OpenShell(s)
  <2>1. At(s, "opening") /\ UNCHANGED measuring BY <1>3 DEF OpenShell
  <2>2. CASE Release(s) BY <2>1, <2>2, ReleaseKeeps DEF At
  <2>3. CASE ~ Release(s)
    <3>1. PICK f \in {"open", "exited"} :
            stream' = [stream EXCEPT ![s].pc = "pumping", ![s].far = f]
      BY <1>3, <2>3 DEF OpenShell
    <3> DEFINE r == [stream[s] EXCEPT !.pc = "pumping", !.far = f]
    <3>2. stream' = [stream EXCEPT ![s] = r] BY <3>1 DEF Slots
    <3>3. /\ r \in StreamType /\ r.pc = "pumping"
          /\ r.conn = stream[s].conn /\ r.kind = stream[s].kind
      BY DEF Slots, StreamType, Pcs
    <3> HIDE DEF r
    <3> QED BY <2>1, <3>2, <3>3, GoesOn DEF At
  <2> QED BY <2>2, <2>3
<1>4. CASE Connect(s)
  <2>1. At(s, "opening") /\ UNCHANGED measuring BY <1>4 DEF Connect
  <2>2. CASE Release(s) BY <2>1, <2>2, ReleaseKeeps DEF At
  <2>3. CASE ~ Release(s)
    <3>1. stream' = [stream EXCEPT ![s].pc = "copying", ![s].far = "open"]
      BY <1>4, <2>3 DEF Connect
    <3> DEFINE r == [stream[s] EXCEPT !.pc = "copying", !.far = "open"]
    <3>2. stream' = [stream EXCEPT ![s] = r] BY <3>1 DEF Slots
    <3>3. /\ r \in StreamType /\ r.pc = "copying"
          /\ r.conn = stream[s].conn /\ r.kind = stream[s].kind
      BY DEF Slots, StreamType, Pcs
    <3> HIDE DEF r
    <3> QED BY <2>1, <3>2, <3>3, GoesOn DEF At
  <2> QED BY <2>2, <2>3
<1>5. CASE VmStatus(s) BY <1>5, StatusKeeps
<1>6. CASE Measured(s) BY <1>6, MeasuredKeeps
<1>7. CASE Answer(s) BY <1>7, ReleaseKeeps DEF Answer, At
<1> QED BY <1>1, <1>2, <1>3, <1>4, <1>5, <1>6, <1>7 DEF Handle

(* A stream in use that is not reading or measuring: what its far end, its  *)
(* near end or its reader shows of it.                                       *)
LEMMA InUse ==
  ASSUME Slots, NEW s \in Streams,
         \/ stream[s].pc \in {"pumping", "draining", "copying"}
         \/ stream[s].held # "none"
         \/ stream[s].far # "none"
  PROVE  ~ At(s, "free")
BY DEF Slots, At, Free

(* The ends and the reader of a stream say nothing of its place. *)
LEMMA EndsChange ==
  ASSUME Slots, Permits, OneMeasures, NEW s \in Streams, ~ At(s, "free"),
         NEW r \in StreamType, stream' = [stream EXCEPT ![s] = r], UNCHANGED measuring,
         r.pc = stream[s].pc, r.conn = stream[s].conn, r.kind = stream[s].kind
  PROVE  Slots' /\ Permits' /\ OneMeasures'
<1>1. Keeps(s) BY DEF Keeps, Slots, At
<1> QED BY <1>1, OneMoves

LEMMA PumpKeeps ==
  ASSUME Slots, Permits, OneMeasures, NEW s \in Streams,
         Pump(s) \/ Output(s) \/ ShellExits(s)
  PROVE  Slots' /\ Permits' /\ OneMeasures'
<1>0. stream[s] \in StreamType /\ Channel \in Nat BY SessionsAssumption DEF Slots
<1>1. CASE ReaderSends(s)
  <2> DEFINE h == IF stream[s].held = "data" THEN "none" ELSE "over"
             r == [stream[s] EXCEPT !.frames = @ + 1, !.held = h]
  <2>1. /\ stream' = [stream EXCEPT ![s] = r] /\ UNCHANGED measuring
        /\ stream[s].held # "none" /\ stream[s].frames < Channel
    BY <1>1 DEF ReaderSends, Slots
  <2>2. stream[s].frames + 1 \in 0..Channel BY <1>0, <2>1 DEF StreamType
  <2>3. /\ r \in StreamType /\ r.pc = stream[s].pc
        /\ r.conn = stream[s].conn /\ r.kind = stream[s].kind
    BY <1>0, <2>2 DEF StreamType
  <2> HIDE DEF r, h
  <2> QED BY <2>1, <2>3, InUse, EndsChange
<1>2. CASE ReaderEof(s)
  <2> DEFINE r == [stream[s] EXCEPT !.held = "exit"]
  <2>1. /\ stream' = [stream EXCEPT ![s] = r] /\ UNCHANGED measuring
        /\ stream[s].far # "none"
    BY <1>2 DEF ReaderEof
  <2>2. /\ r \in StreamType /\ r.pc = stream[s].pc
        /\ r.conn = stream[s].conn /\ r.kind = stream[s].kind
    BY <1>0 DEF StreamType
  <2> HIDE DEF r
  <2> QED BY <2>1, <2>2, InUse, EndsChange
<1>3. CASE Forward(s)
  <2>1. PICK p \in {"pumping", "draining"} :
          stream' = [stream EXCEPT ![s].frames = @ - 1, ![s].pc = p]
    BY <1>3 DEF Forward, At
  <2> DEFINE r == [stream[s] EXCEPT !.frames = @ - 1, !.pc = p]
  <2>2. /\ stream' = [stream EXCEPT ![s] = r] /\ UNCHANGED measuring
        /\ At(s, "pumping") /\ stream[s].frames > 0
    BY <1>3, <2>1 DEF Forward, Slots
  <2>3. stream[s].frames - 1 \in 0..Channel BY <1>0, <2>2 DEF StreamType
  <2>4. /\ r \in StreamType /\ r.pc = p
        /\ r.conn = stream[s].conn /\ r.kind = stream[s].kind
    BY <1>0, <2>3 DEF StreamType, Pcs
  <2> HIDE DEF r
  <2> QED BY <2>2, <2>4, GoesOn DEF At
<1>4. CASE PumpEnds(s) BY <1>4, ReleaseKeeps DEF PumpEnds, At
<1>5. CASE Output(s)
  <2> DEFINE r == [stream[s] EXCEPT !.held = "data"]
  <2>1. /\ stream' = [stream EXCEPT ![s] = r] /\ UNCHANGED measuring
        /\ stream[s].far # "none"
    BY <1>5 DEF Output
  <2>2. /\ r \in StreamType /\ r.pc = stream[s].pc
        /\ r.conn = stream[s].conn /\ r.kind = stream[s].kind
    BY <1>0 DEF StreamType
  <2> HIDE DEF r
  <2> QED BY <2>1, <2>2, InUse, EndsChange
<1>6. CASE ShellExits(s)
  <2> DEFINE r == [stream[s] EXCEPT !.far = "exited"]
  <2>1. /\ stream' = [stream EXCEPT ![s] = r] /\ UNCHANGED measuring
        /\ stream[s].far # "none"
    BY <1>6 DEF ShellExits
  <2>2. /\ r \in StreamType /\ r.pc = stream[s].pc
        /\ r.conn = stream[s].conn /\ r.kind = stream[s].kind
    BY <1>0 DEF StreamType
  <2> HIDE DEF r
  <2> QED BY <2>1, <2>2, InUse, EndsChange
<1> QED BY <1>1, <1>2, <1>3, <1>4, <1>5, <1>6 DEF Pump

LEMMA CopyEndKeeps ==
  ASSUME Slots, Permits, OneMeasures, NEW s \in Streams, At(s, "copying"),
         NEW copy \in Copies, CopyEnds(s, copy)
  PROVE  Slots' /\ Permits' /\ OneMeasures'
<1> DEFINE r == [stream[s] EXCEPT !.ended = @ \cup {copy}]
<1>1. stream' = [stream EXCEPT ![s] = r] /\ UNCHANGED measuring BY DEF CopyEnds
<1>2. /\ r \in StreamType /\ r.pc = stream[s].pc
      /\ r.conn = stream[s].conn /\ r.kind = stream[s].kind
  BY DEF Slots, StreamType
<1> HIDE DEF r
<1> QED BY <1>1, <1>2, InUse, EndsChange DEF At

LEMMA CopyKeeps ==
  ASSUME Slots, Permits, OneMeasures, NEW s \in Streams,
         Copy(s) \/ CopyFails(s) \/ NearCloses(s) \/ FarCloses(s)
  PROVE  Slots' /\ Permits' /\ OneMeasures'
<1>1. CASE NearOut(s) BY <1>1, CopyEndKeeps DEF NearOut, Copies
<1>2. CASE FarOut(s) BY <1>2, CopyEndKeeps DEF FarOut, Copies
<1>3. CASE FarIn(s) BY <1>3, CopyEndKeeps DEF FarIn, Copies
<1>4. CASE TunnelEnds(s) BY <1>4, ReleaseKeeps DEF TunnelEnds, At
<1>5. CASE CopyLost(s) BY <1>5, ReleaseKeeps DEF CopyLost, At
<1>6. CASE CopyFails(s) BY <1>6, ReleaseKeeps DEF CopyFails, At
<1>7. CASE NearCloses(s)
  <2> DEFINE r == [stream[s] EXCEPT !.near = "closed"]
  <2>1. stream' = [stream EXCEPT ![s] = r] /\ UNCHANGED measuring /\ At(s, "copying")
    BY <1>7 DEF NearCloses
  <2>2. /\ r \in StreamType /\ r.pc = stream[s].pc
        /\ r.conn = stream[s].conn /\ r.kind = stream[s].kind
    BY DEF Slots, StreamType
  <2> HIDE DEF r
  <2> QED BY <2>1, <2>2, InUse, EndsChange DEF At
<1>8. CASE FarCloses(s)
  <2> DEFINE r == [stream[s] EXCEPT !.far = "closed"]
  <2>1. stream' = [stream EXCEPT ![s] = r] /\ UNCHANGED measuring /\ At(s, "copying")
    BY <1>8 DEF FarCloses
  <2>2. /\ r \in StreamType /\ r.pc = stream[s].pc
        /\ r.conn = stream[s].conn /\ r.kind = stream[s].kind
    BY DEF Slots, StreamType
  <2> HIDE DEF r
  <2> QED BY <2>1, <2>2, InUse, EndsChange DEF At
<1> QED BY <1>1, <1>2, <1>3, <1>4, <1>5, <1>6, <1>7, <1>8 DEF Copy

-----------------------------------------------------------------------------
(* What happens to several streams at once. *)

(* A lost connection is seen at the near ends of its streams. *)
LEMMA LossKeeps ==
  ASSUME Slots, Permits, OneMeasures, NEW c \in Conns, ConnLost(c)
  PROVE  Slots' /\ Permits' /\ OneMeasures'
<1>1. /\ stream' = [s \in Streams |-> IF s \in OnConn(c) THEN [stream[s] EXCEPT !.near = "lost"]
                                                         ELSE stream[s]]
      /\ UNCHANGED measuring
  BY DEF ConnLost
<1>2. \A s \in Streams : [stream[s] EXCEPT !.near = "lost"] \in StreamType
  BY DEF Slots, StreamType
<1>3. stream' \in [Streams -> StreamType] BY <1>1, <1>2 DEF Slots
<1>4. ASSUME NEW s \in Streams PROVE Keeps(s)
  <2>1. CASE s \in OnConn(c)
    <3>1. ~ At(s, "free") BY <2>1 DEF OnConn, Inbound
    <3>2. stream'[s] = [stream[s] EXCEPT !.near = "lost"] BY <1>1, <2>1
    <3>3. /\ stream'[s].pc = stream[s].pc /\ stream'[s].conn = stream[s].conn
          /\ stream'[s].kind = stream[s].kind
      BY <3>2 DEF Slots, StreamType
    <3> QED BY <3>1, <3>3 DEF Keeps, At
  <2>2. CASE s \notin OnConn(c) BY <1>1, <2>2 DEF Keeps
  <2> QED BY <2>1, <2>2
<1> QED BY <1>1, <1>3, <1>4, QuietStep

(* A container takes the far ends of its VM's streams with it. *)
LEMMA ContainerKeeps ==
  ASSUME Slots, Permits, OneMeasures, NEW o \in Owners, ContainerGone(o)
  PROVE  Slots' /\ Permits' /\ OneMeasures'
<1>1. PICK how \in {"exited", "hung"} :
        stream' = [s \in Streams |->
          IF ~ At(s, "free") /\ stream[s].far = "open" /\ Owner(s) = o
            THEN [stream[s] EXCEPT !.far = IF stream[s].kind = "shell" THEN how ELSE "closed"]
            ELSE stream[s]]
  BY DEF ContainerGone
<1>2. ASSUME NEW s \in Streams PROVE stream'[s] \in StreamType /\ Keeps(s)
  <2>1. CASE ~ At(s, "free") /\ stream[s].far = "open" /\ Owner(s) = o
    <3> DEFINE far == IF stream[s].kind = "shell" THEN how ELSE "closed"
    <3>1. stream'[s] = [stream[s] EXCEPT !.far = far] BY <1>1, <2>1
    <3>2. far \in {"exited", "hung", "closed"} OBVIOUS
    <3> HIDE DEF far
    <3>3. /\ stream'[s] \in StreamType
          /\ stream'[s].pc = stream[s].pc /\ stream'[s].conn = stream[s].conn
          /\ stream'[s].kind = stream[s].kind
      BY <3>1, <3>2 DEF Slots, StreamType
    <3> QED BY <2>1, <3>3 DEF Keeps, At
  <2>2. CASE ~ (~ At(s, "free") /\ stream[s].far = "open" /\ Owner(s) = o)
    BY <1>1, <2>2 DEF Keeps, Slots
  <2> QED BY <2>1, <2>2
<1>3. stream' \in [Streams -> StreamType] BY <1>1, <1>2
<1>4. UNCHANGED measuring BY DEF ContainerGone
<1> QED BY <1>2, <1>3, <1>4, QuietStep

-----------------------------------------------------------------------------

LEMMA InitSound == Init => Sound
<1> SUFFICES ASSUME Init PROVE Sound OBVIOUS
<1>1. Slots BY FreeType DEF Init, Slots, At, Free
<1>2. Inbound = {} /\ Sessions = {} /\ \A c \in Conns : OnConn(c) = {}
  BY DEF Init, Inbound, Sessions, OnConn, At, Free
<1>3. Permits BY <1>2, FS_EmptySet, SessionsAssumption DEF Permits
<1>4. OneMeasures BY DEF Init, OneMeasures, At, Free
<1>5. Machines BY DEF Init, Machines
<1> QED BY <1>1, <1>3, <1>4, <1>5 DEF Sound

(* Records and containers do what VmManager has them do. *)
LEMMA MachinesStep ==
  ASSUME Sound, [Next]_vars
  PROVE  Machines'
BY DEF Sound, Machines, Next, vars, Ask, Shell, PipeForward, ProxyOverTunnel, Accept,
       Handle, Refuse, Open, OpenShell, Connect, VmStatus, Measured, Answer,
       Pump, ReaderSends, ReaderEof, Forward, PumpEnds, Output, ShellExits,
       Copy, NearOut, FarOut, FarIn, CopyEnds, TunnelEnds, CopyLost, CopyFails,
       NearCloses, FarCloses, ConnLost, Provision, Spend, Stop, Remove, ContainerGone,
       ForwardOpen, ForwardClose, ListenerShutdown, AcceptFails, HealthTick,
       HealthAnswer, HealthBlip

LEMMA SoundStep ==
  ASSUME Sound, [Next]_vars
  PROVE  Sound'
<1> USE DEF Sound
<1>1. ASSUME NEW s \in Streams, NEW c \in Conns,
             Ask(s, c) \/ Shell(s, c) \/ PipeForward(s, c) \/ ProxyOverTunnel(s, c)
      PROVE  Slots' /\ Permits' /\ OneMeasures'
  BY <1>1, AcceptKeeps DEF Ask, Shell, PipeForward, ProxyOverTunnel
<1>2. ASSUME NEW s \in Streams, Handle(s) PROVE Slots' /\ Permits' /\ OneMeasures'
  BY <1>2, HandlerKeeps
<1>3. ASSUME NEW s \in Streams, Pump(s) \/ Output(s) \/ ShellExits(s)
      PROVE  Slots' /\ Permits' /\ OneMeasures'
  BY <1>3, PumpKeeps
<1>4. ASSUME NEW s \in Streams, Copy(s) \/ CopyFails(s) \/ NearCloses(s) \/ FarCloses(s)
      PROVE  Slots' /\ Permits' /\ OneMeasures'
  BY <1>4, CopyKeeps
<1>5. ASSUME NEW c \in Conns, ConnLost(c) PROVE Slots' /\ Permits' /\ OneMeasures'
  BY <1>5, LossKeeps
<1>6. ASSUME NEW o \in Owners, Remove(o) \/ ContainerGone(o)
      PROVE  Slots' /\ Permits' /\ OneMeasures'
  BY <1>6, ContainerKeeps DEF Remove
<1>7. ASSUME UNCHANGED <<stream, measuring>> PROVE Slots' /\ Permits' /\ OneMeasures'
  BY <1>7 DEF Slots, Permits, OneMeasures, Inbound, Sessions, OnConn, At, Owner
<1>8. ASSUME NEW o \in Owners,
             \/ Provision(o) \/ Spend(o) \/ Stop(o)
             \/ ForwardOpen(o) \/ ForwardClose(o) \/ ListenerShutdown(o) \/ AcceptFails(o)
             \/ HealthTick(o) \/ HealthAnswer(o) \/ HealthBlip(o)
      PROVE  UNCHANGED <<stream, measuring>>
  BY <1>8 DEF Provision, Spend, Stop, ForwardOpen, ForwardClose, ListenerShutdown,
              AcceptFails, HealthTick, HealthAnswer, HealthBlip
<1>9. Slots' /\ Permits' /\ OneMeasures'
  BY <1>1, <1>2, <1>3, <1>4, <1>5, <1>6, <1>7, <1>8 DEF Next, vars
<1> QED BY <1>9, MachinesStep

LEMMA AlwaysSound == Spec => []Sound
BY InitSound, SoundStep, PTL DEF Spec

(* However many streams and connections there are and in whatever order     *)
(* they come, end and are lost: no more streams, streams of a connection or *)
(* sessions than their limits (p2p.rs, session.rs), no more frames waiting  *)
(* than the pump's channel holds, and the in-flight guard of du             *)
(* (vm.rs:687) is that of the requests that measure, one for an owner.       *)
THEOREM PermitsAreKept == Spec => []TypeOK
<1>1. Sound => TypeOK
  <2> SUFFICES ASSUME Sound PROVE TypeOK OBVIOUS
  <2>1. \A s \in Streams : /\ stream[s].frames \in 0..Channel
                           /\ stream[s].kind \in Kinds \cup {None}
    BY DEF Sound, Slots, StreamType
  <2>2. \A s \in Streams : At(s, "free") <=> stream[s].conn = None
    BY SessionsAssumption DEF Sound, Slots, Free, At
  <2> QED BY <2>1, <2>2 DEF Sound, TypeOK, Permits, OneMeasures, Machines
<1> QED BY <1>1, AlwaysSound, PTL

-----------------------------------------------------------------------------
(* What never ends of itself. *)

(* Only shells are pumped, and of a forwarded socket two copies at most      *)
(* have ended: the one that reads the socket and the one that reads the     *)
(* server, each at its own side.                                             *)
Plumbing ==
  \A s \in Streams :
    /\ stream[s].pc \in {"pumping", "draining"} => stream[s].kind = "shell"
    /\ stream[s].pc = "opening" => stream[s].kind \in Interactive
    /\ stream[s].kind = "pipe" => stream[s].ended \subseteq {"nearOut", "farIn"}

(* A stream that changes in one field or ends. *)
LEMMA PlumbingOne ==
  ASSUME Slots, Plumbing, NEW s \in Streams, NEW r \in StreamType,
         stream' = [stream EXCEPT ![s] = r],
         r.pc \in {"pumping", "draining"} => r.kind = "shell",
         r.pc = "opening" => r.kind \in Interactive,
         r.kind = "pipe" => r.ended \subseteq {"nearOut", "farIn"}
  PROVE  Plumbing'
BY DEF Plumbing, Slots

LEMMA PlumbingStep ==
  ASSUME Sound, Plumbing, [Next]_vars
  PROVE  Plumbing'
<1>1. Slots BY DEF Sound
<1>2. ASSUME NEW s \in Streams, Release(s) PROVE Plumbing'
  <2>1. stream' = [stream EXCEPT ![s] = Free] BY <1>2 DEF Release
  <2> QED BY <1>1, <2>1, FreeType, PlumbingOne, SessionsAssumption DEF Free, Interactive
<1>3. ASSUME NEW s \in Streams,
             \/ \E c \in Conns : Ask(s, c) \/ Shell(s, c) \/ PipeForward(s, c) \/ ProxyOverTunnel(s, c)
             \/ Handle(s)
      PROVE  Plumbing'
  <2>1. CASE Release(s) BY <2>1, <1>2
  <2>2. ASSUME NEW c \in Conns,
               Ask(s, c) \/ Shell(s, c) \/ PipeForward(s, c) \/ ProxyOverTunnel(s, c)
        PROVE  Plumbing'
    <3>1. PICK kind \in Kinds : Accept(s, c, kind)
      BY <2>2 DEF Ask, Shell, PipeForward, ProxyOverTunnel
    <3> DEFINE r == [Free EXCEPT !.pc = "reading", !.conn = c, !.kind = kind]
    <3>2. r \in StreamType BY FreeType DEF StreamType, Pcs
    <3>3. r.pc = "reading" /\ r.ended = {} BY DEF Free
    <3>4. stream' = [stream EXCEPT ![s] = r] BY <3>1 DEF Accept
    <3> HIDE DEF r
    <3> QED BY <1>1, <3>2, <3>3, <3>4, PlumbingOne
  <2>3. CASE ~ Release(s) /\ (Open(s) \/ VmStatus(s) \/ Measured(s) \/ OpenShell(s) \/ Connect(s))
    BY <1>1, <2>3 DEF Plumbing, Slots, StreamType, Open, VmStatus, Measured, OpenShell, Connect,
       At, Goto, Interactive
  <2> QED BY <1>3, <2>1, <2>2, <2>3 DEF Handle, Refuse, Answer
<1>4. ASSUME NEW s \in Streams, Pump(s) \/ Output(s) \/ ShellExits(s) PROVE Plumbing'
  <2>1. CASE Release(s) BY <2>1, <1>2
  <2>2. CASE ~ Release(s)
    BY <1>1, <1>4, <2>2 DEF Plumbing, Slots, StreamType, Pump, ReaderSends, ReaderEof, Forward,
       PumpEnds, Output, ShellExits, At
  <2> QED BY <2>1, <2>2
<1>5. ASSUME NEW s \in Streams, Copy(s) \/ CopyFails(s) \/ NearCloses(s) \/ FarCloses(s)
      PROVE  Plumbing'
  <2>1. CASE Release(s) BY <2>1, <1>2
  <2>2. CASE ~ Release(s)
    BY <1>1, <1>5, <2>2 DEF Plumbing, Slots, StreamType, Copy, NearOut, FarOut, FarIn, CopyEnds,
       NearFinished, TunnelEnds, CopyLost, CopyFails, NearCloses, FarCloses, At
  <2> QED BY <2>1, <2>2
<1>6. ASSUME NEW c \in Conns, ConnLost(c) PROVE Plumbing'
  BY <1>1, <1>6 DEF ConnLost, Plumbing, Slots, StreamType
<1>7. ASSUME NEW o \in Owners, Remove(o) \/ ContainerGone(o) PROVE Plumbing'
  BY <1>1, <1>7 DEF Remove, ContainerGone, Plumbing, Slots, StreamType
<1>8. ASSUME UNCHANGED stream PROVE Plumbing' BY <1>8 DEF Plumbing
<1>9. ASSUME NEW o \in Owners,
             \/ Provision(o) \/ Spend(o) \/ Stop(o)
             \/ ForwardOpen(o) \/ ForwardClose(o) \/ ListenerShutdown(o) \/ AcceptFails(o)
             \/ HealthTick(o) \/ HealthAnswer(o) \/ HealthBlip(o)
      PROVE  UNCHANGED stream
  BY <1>9 DEF Provision, Spend, Stop, ForwardOpen, ForwardClose, ListenerShutdown,
              AcceptFails, HealthTick, HealthAnswer, HealthBlip
<1> QED BY <1>3, <1>4, <1>5, <1>6, <1>7, <1>8, <1>9 DEF Next, vars

LEMMA AlwaysPlumbed == Spec => [](Sound /\ Plumbing)
<1>1. Init => Plumbing
  BY SessionsAssumption DEF Init, Plumbing, Free, Interactive
<1> QED BY <1>1, InitSound, SoundStep, PlumbingStep, PTL DEF Spec

(* A forwarded socket's tunnel never ends of itself (p2p.rs:336): each side  *)
(* waits for both of its copies before it finishes its stream, so the one    *)
(* that reads what the other side sends waits for the other side.  Whoever   *)
(* closes and however long it takes, the tunnel and its permits are only      *)
(* given back when bytes arrive for an end that is closed, or when the       *)
(* connection is lost.                                                       *)
THEOREM PipesEndByError ==
  Spec => [][\A s \in Streams :
               At(s, "copying") /\ stream[s].kind = "pipe" /\ ~ At(s, "copying")'
                 => CopyFails(s) \/ CopyLost(s)]_vars
<1>1. ASSUME Sound, Plumbing, [Next]_vars, NEW s \in Streams,
             At(s, "copying"), stream[s].kind = "pipe", ~ At(s, "copying")'
      PROVE  CopyFails(s) \/ CopyLost(s)
  <2>1. "farOut" \notin stream[s].ended BY <1>1 DEF Plumbing
  <2>2. stream \in [Streams -> StreamType] BY <1>1 DEF Sound, Slots
  <2>4. ASSUME NEW t \in Streams,
               \/ \E c \in Conns : Ask(t, c) \/ Shell(t, c) \/ PipeForward(t, c) \/ ProxyOverTunnel(t, c)
               \/ Handle(t) \/ Pump(t) \/ Copy(t)
               \/ Output(t) \/ ShellExits(t) \/ CopyFails(t) \/ NearCloses(t) \/ FarCloses(t)
        PROVE  stream'[s] = stream[s] \/ t = s
    BY <2>2, <2>4 DEF Ask, Shell, PipeForward, ProxyOverTunnel, Accept,
       Handle, Refuse, Open, OpenShell, Connect, VmStatus, Measured, Answer, Goto, Release,
       Pump, ReaderSends, ReaderEof, Forward, PumpEnds, Output, ShellExits,
       Copy, NearOut, FarOut, FarIn, CopyEnds, TunnelEnds, CopyLost, CopyFails,
       NearCloses, FarCloses
  <2>5. \A c \in Conns : ~ (Ask(s, c) \/ Shell(s, c) \/ PipeForward(s, c) \/ ProxyOverTunnel(s, c))
    BY <1>1 DEF Ask, Shell, PipeForward, ProxyOverTunnel, Accept, At
  <2>6. ~ (Handle(s) \/ Forward(s) \/ PumpEnds(s))
    BY <1>1 DEF Handle, Refuse, Open, OpenShell, Connect, VmStatus, Measured, Answer, Forward,
       PumpEnds, At
  <2>7. ReaderSends(s) \/ ReaderEof(s) \/ Output(s) \/ ShellExits(s) \/ NearOut(s) \/ FarOut(s)
          \/ FarIn(s) \/ NearCloses(s) \/ FarCloses(s) => At(s, "copying")'
    BY <1>1, <2>2 DEF ReaderSends, ReaderEof, Output, ShellExits, NearOut, FarOut, FarIn,
       CopyEnds, NearCloses, FarCloses, At, StreamType
  <2>8. ~ TunnelEnds(s) BY <2>1 DEF TunnelEnds, Ended
  <2>9. ASSUME NEW c \in Conns, ConnLost(c) PROVE FALSE
    BY <1>1, <2>2, <2>9 DEF ConnLost, At, StreamType
  <2>10. ASSUME NEW o \in Owners, Remove(o) \/ ContainerGone(o) PROVE FALSE
    BY <1>1, <2>2, <2>10 DEF Remove, ContainerGone, At, StreamType
  <2>11. ASSUME NEW o \in Owners,
             \/ Provision(o) \/ Spend(o) \/ Stop(o)
             \/ ForwardOpen(o) \/ ForwardClose(o) \/ ListenerShutdown(o) \/ AcceptFails(o)
             \/ HealthTick(o) \/ HealthAnswer(o) \/ HealthBlip(o)
        PROVE  UNCHANGED stream
    BY <2>11 DEF Provision, Spend, Stop, ForwardOpen, ForwardClose, ListenerShutdown,
              AcceptFails, HealthTick, HealthAnswer, HealthBlip
  <2>12. stream'[s] # stream[s] BY <1>1 DEF At
  <2> QED
    BY <1>1, <2>4, <2>5, <2>6, <2>7, <2>8, <2>9, <2>10, <2>11, <2>12
       DEF Next, vars, Pump, Copy
<1>2. Sound /\ Plumbing /\ [Next]_vars =>
        [\A s \in Streams :
           At(s, "copying") /\ stream[s].kind = "pipe" /\ ~ At(s, "copying")'
             => CopyFails(s) \/ CopyLost(s)]_vars
  BY <1>1
<1> QED BY <1>2, AlwaysPlumbed, PTL DEF Spec

(* A shell whose consumer is gone, with the channel full of what it wrote:   *)
(* the pump waits for its reader, and the reader for room in a channel that *)
(* nobody reads any more.                                                    *)
Stuck(s) == /\ At(s, "draining") /\ stream[s].kind = "shell"
            /\ stream[s].frames = Channel /\ stream[s].held \in {"data", "exit"}

LEMMA StuckStays ==
  ASSUME Slots, [Next]_vars, NEW s \in Streams, Stuck(s)
  PROVE  Stuck(s)'
<1>1. stream \in [Streams -> StreamType] /\ Channel \in Nat BY SessionsAssumption DEF Slots
<1>2. At(s, "draining") /\ ~ (stream[s].frames < Channel) /\ stream[s].held \in {"data", "exit"}
  BY <1>1 DEF Stuck
<1>3. ASSUME NEW t \in Streams,
             \/ \E c \in Conns : Ask(t, c) \/ Shell(t, c) \/ PipeForward(t, c) \/ ProxyOverTunnel(t, c)
             \/ Handle(t) \/ Pump(t) \/ Copy(t)
             \/ Output(t) \/ CopyFails(t) \/ NearCloses(t) \/ FarCloses(t)
      PROVE  stream'[s] = stream[s]
  <2>1. CASE t # s
    BY <1>1, <1>3, <2>1 DEF Ask, Shell, PipeForward, ProxyOverTunnel, Accept,
       Handle, Refuse, Open, OpenShell, Connect, VmStatus, Measured, Answer, Goto, Release,
       Pump, ReaderSends, ReaderEof, Forward, PumpEnds, Output,
       Copy, NearOut, FarOut, FarIn, CopyEnds, TunnelEnds, CopyLost, CopyFails,
       NearCloses, FarCloses
  <2>2. CASE t = s
    BY <1>2, <1>3, <2>2 DEF Ask, Shell, PipeForward, ProxyOverTunnel, Accept,
       Handle, Refuse, Open, OpenShell, Connect, VmStatus, Measured, Answer,
       Pump, ReaderSends, ReaderEof, Forward, PumpEnds, Output,
       Copy, NearOut, FarOut, FarIn, TunnelEnds, CopyLost, CopyFails,
       NearCloses, FarCloses, At
  <2> QED BY <2>1, <2>2
<1>4. ASSUME NEW t \in Streams, ShellExits(t) PROVE Stuck(s)'
  BY <1>1, <1>4 DEF ShellExits, Stuck, At, StreamType
<1>5. ASSUME NEW c \in Conns, ConnLost(c) PROVE Stuck(s)'
  BY <1>1, <1>5 DEF ConnLost, Stuck, At, StreamType
<1>6. ASSUME NEW o \in Owners, Remove(o) \/ ContainerGone(o) PROVE Stuck(s)'
  BY <1>1, <1>6 DEF Remove, ContainerGone, Stuck, At, StreamType
<1>7. ASSUME NEW o \in Owners,
             \/ Provision(o) \/ Spend(o) \/ Stop(o)
             \/ ForwardOpen(o) \/ ForwardClose(o) \/ ListenerShutdown(o) \/ AcceptFails(o)
             \/ HealthTick(o) \/ HealthAnswer(o) \/ HealthBlip(o)
      PROVE  UNCHANGED stream
  BY <1>7 DEF Provision, Spend, Stop, ForwardOpen, ForwardClose, ListenerShutdown,
              AcceptFails, HealthTick, HealthAnswer, HealthBlip
<1>8. stream'[s] = stream[s] => Stuck(s)' BY DEF Stuck, At
<1> QED BY <1>3, <1>4, <1>5, <1>6, <1>7, <1>8 DEF Next, vars

(* There are as many of them as the node serves sessions. *)
SessionsStuck == Cardinality({s \in Streams : Stuck(s)}) >= MaxSessions
NoneOpens == \A s \in Streams : ~ Open(s)

(* Such a shell stays for ever, whatever the consumer, the container and the *)
(* operator do: not even the end of the VM frees it (session.rs:124).  Once  *)
(* there are as many as the node serves sessions, it serves none any more.   *)
THEOREM StuckShellsStay ==
  Spec => [](SessionsStuck => [][NoneOpens]_vars)
<1> DEFINE S == {s \in Streams : Stuck(s)}
<1>1. ASSUME Sound, SessionsStuck, [Next]_vars PROVE SessionsStuck'
  <2>1. S \in SUBSET S' BY <1>1, StuckStays DEF Sound
  <2>2. S' \in SUBSET Streams /\ IsFiniteSet(Streams) BY SessionsAssumption
  <2>3. IsFiniteSet(S') BY <2>2, FS_Subset
  <2>4. IsFiniteSet(S) /\ Cardinality(S) <= Cardinality(S') BY <2>1, <2>3, FS_Subset
  <2>5. Cardinality(S) \in Nat /\ Cardinality(S') \in Nat BY <2>3, <2>4, FS_CardinalityType
  <2>6. MaxSessions \in Nat BY SessionsAssumption
  <2>7. Cardinality(S) >= MaxSessions BY <1>1 DEF SessionsStuck
  <2>8. SessionsStuck' <=> Cardinality(S') >= MaxSessions BY DEF SessionsStuck
  <2> HIDE DEF S
  <2> QED BY <2>4, <2>5, <2>6, <2>7, <2>8
<1>2. ASSUME SessionsStuck PROVE NoneOpens
  <2>1. S \in SUBSET Sessions BY DEF Stuck, Sessions, Inbound, Interactive, At
  <2>2. Sessions \in SUBSET Streams /\ IsFiniteSet(Streams)
    BY SessionsAssumption DEF Sessions, Inbound
  <2>3. IsFiniteSet(Sessions) BY <2>2, FS_Subset
  <2>4. IsFiniteSet(S) /\ Cardinality(S) <= Cardinality(Sessions) BY <2>1, <2>3, FS_Subset
  <2>5. Cardinality(S) \in Nat /\ Cardinality(Sessions) \in Nat BY <2>3, <2>4, FS_CardinalityType
  <2>6. MaxSessions \in Nat BY SessionsAssumption
  <2>7. ~ (Cardinality(Sessions) < MaxSessions)
    <3>1. Cardinality(S) >= MaxSessions BY <1>2 DEF SessionsStuck
    <3> HIDE DEF S
    <3> QED BY <2>4, <2>5, <2>6, <3>1
  <2> QED BY <2>7 DEF NoneOpens, Open
<1>3. SessionsStuck => [NoneOpens]_vars BY <1>2
<1> QED BY <1>1, <1>3, AlwaysSound, PTL DEF Spec
==============================================================================

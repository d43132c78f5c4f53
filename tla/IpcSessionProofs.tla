--------------------------- MODULE IpcSessionProofs ---------------------------
(* Theorems about IpcSession, for any number of calls, any request limit and    *)
(* any capacity of the bus and of the event channel: a request is served at     *)
(* most once and answered to its own caller, the remembered identity is true,   *)
(* the newest event is not lost, and a session ends for a reason.               *)
EXTENDS IpcSession, TLAPS

Messages == [type : {"reply"}, of : Calls, res : {"ok", "error"}]
            \cup [type : {"event"}, seq : 1..MaxEvents]

-----------------------------------------------------------------------------
(* The inductive invariant *)

\* Calls that will write nothing more.
Sent == {"wait"} \cup Settled

\* The JSON of a request is on the stream once at most, only after its call has
\* written it and before the request is served; a request being handled has not
\* been served.
ServedOnce ==
    /\ \A c \in Calls : served[c] # "no" => pc[c] \in Sent
    /\ serving # None => served[serving] = "no" /\ pc[serving] \in Sent
    /\ \A i \in 1..Len(toHelper) : toHelper[i].part = "body" =>
          /\ pc[toHelper[i].of] \in Sent
          /\ served[toHelper[i].of] = "no" /\ serving # toHelper[i].of
    /\ \A i, j \in 1..Len(toHelper) :
          toHelper[i].part = "body" /\ toHelper[j] = toHelper[i] => i = j

\* An answer on the stream is what the helper did with the request it names.
AnswersTrue ==
    \A i \in 1..Len(toClient) :
        toClient[i].type = "reply" => served[toClient[i].of] = toClient[i].res

\* A call the read loop can complete has not ended for its caller.
PendingOpen == \A c \in pending : pc[c] \in Open

\* The gateway remembers this client only after an identity was accepted, and
\* the session that accepted one has it.
IdentityKnown ==
    /\ phase = "handshake" => \A c \in Calls : served[c] = "no"
    /\ phase = "open" => \A c \in Calls : served[c] = "ok" /\ kind[c] = "identity" => identity
    /\ initialized => \E c \in Calls : served[c] = "ok" /\ kind[c] = "identity"

\* The read loop is stopped before anything else of the client is disposed.
ReaderStopped == client \in {"closing", "cleared", "disposed"} => reader # "running"

\* The write gate.
OneWriter == \A c, d \in Calls : pc[c] \in Writing /\ pc[d] \in Writing => c = d

\* Nothing has yet put the stream out of step.
InStep == ~cut /\ ~dropped /\ client # "disposed" /\ phase # "ended"

\* Until then the stream, after the length the session has consumed, is frames: a
\* length followed by its JSON, except for the one being written.
Frames ==
    /\ \A i \in 1..Len(toHelper) : toHelper[i].part = "header" =>
          IF i = Len(toHelper) THEN pc[toHelper[i].of] = "body"
                               ELSE toHelper[i + 1] = Body(toHelper[i].of)
    /\ \A i \in 1..Len(toHelper) : toHelper[i].part = "body" =>
          IF i = 1 THEN partial = toHelper[i].of
                   ELSE toHelper[i - 1] = Header(toHelper[i].of)
    /\ partial # None => IF toHelper = <<>> THEN pc[partial] = "body"
                                            ELSE toHelper[1] = Body(partial)
    /\ \A c \in Calls : pc[c] = "body" =>
          IF toHelper = <<>> THEN partial = c ELSE toHelper[Len(toHelper)] = Header(c)

StreamInStep == InStep => Frames

EndKnown == (phase # "ended" => outcome = "none") /\ EndsForAReason

NoEvents == \A i \in 1..Len(toClient) : toClient[i].type = "reply"

\* The newest event written is the one the cursor stands at, unless the receiver
\* has just been moved on; when the stream holds no event it is in the channel,
\* before the answers that came late since, or the pump has seen it.
LastWritten ==
    \A i \in 1..Len(toClient) :
        /\ cursor = published
        /\ toClient[i].type = "event"
        /\ \A j \in 1..Len(toClient) : i < j => toClient[j].type = "reply"
        => toClient[i].seq = cursor

LateLast == \A k \in 1..Len(channel) : k > Len(channel) - late => channel[k] = 0

Held == /\ late < Len(channel) /\ cursor > 0
        /\ channel[Len(channel) - late] = cursor

Taken == pumped = cursor /\ \A k \in 1..Len(channel) : channel[k] = 0

NewestKept ==
    /\ phase = "handshake" => published = 0
    /\ LastWritten
    /\ LateLast
    /\ cursor = published /\ NoEvents /\ late < EventCap => Held \/ Taken

IInv == /\ TypeOK /\ ServedOnce /\ AnswersTrue /\ PendingOpen /\ IdentityKnown
        /\ ReaderStopped /\ OneWriter /\ StreamInStep /\ EndKnown /\ NewestKept

-----------------------------------------------------------------------------
(* Sequences, and what the steps do to them *)

\* Appending to a stream or to the channel.
LEMMA AppendFacts ==
    ASSUME NEW S, NEW s \in Seq(S), NEW e \in S
    PROVE  /\ Append(s, e) \in Seq(S)
           /\ Len(s) \in Nat /\ Len(Append(s, e)) = Len(s) + 1
           /\ \A i \in 1..Len(s) : Append(s, e)[i] = s[i] /\ s[i] \in S
           /\ Append(s, e)[Len(s) + 1] = e
           /\ Append(s, e) # <<>>
OBVIOUS

\* Taking the first element of a stream or of the channel.
LEMMA TailFacts ==
    ASSUME NEW S, NEW s \in Seq(S), s # <<>>
    PROVE  /\ Tail(s) \in Seq(S) /\ Head(s) \in S /\ Head(s) = s[1]
           /\ Len(s) \in Nat \ {0} /\ Len(Tail(s)) = Len(s) - 1
           /\ \A i \in 1..Len(Tail(s)) : Tail(s)[i] = s[i + 1] /\ i + 1 \in 1..Len(s)
           /\ Tail(s) = <<>> <=> Len(s) = 1
<1>1. Tail(s) \in Seq(S) /\ Head(s) \in S /\ Head(s) = s[1]
  OBVIOUS
<1>2. Len(s) \in Nat \ {0} /\ Len(Tail(s)) = Len(s) - 1
  OBVIOUS
<1>3. \A i \in 1..Len(Tail(s)) : Tail(s)[i] = s[i + 1] /\ i + 1 \in 1..Len(s)
  OBVIOUS
<1>4. \A t \in Seq(S) : t = <<>> <=> Len(t) = 0
  OBVIOUS
<1> QED
  BY <1>1, <1>2, <1>3, <1>4

\* The write gate passes from a writer to at most one caller that waits for it.
LEMMA LeaveGateEffect ==
    ASSUME TypeOK, NEW c \in Calls, pc[c] \in Writing,
           NEW s \in Open \cup Settled, LeaveGate(c, s)
    PROVE  /\ pc' \in [Calls -> Open \cup Settled \cup {"idle"}]
           /\ pc'[c] = s
           /\ \A d \in Calls \ {c} : pc'[d] = pc[d] \/ (pc[d] = "gate" /\ pc'[d] = "header")
           /\ \A d, e \in Calls \ {c} : pc'[d] # pc[d] /\ pc'[e] # pc[e] => d = e
<1>1. pc \in [Calls -> Open \cup Settled \cup {"idle"}]
  BY DEF TypeOK
<1>2. CASE pc' = [pc EXCEPT ![c] = s]
  BY <1>1, <1>2
<1>3. CASE \E w \in Waiters : pc' = [pc EXCEPT ![c] = s, ![w] = "header"]
  <2>1. PICK w \in Waiters : pc' = [pc EXCEPT ![c] = s, ![w] = "header"]
    BY <1>3
  <2>2. w \in Calls /\ pc[w] = "gate" /\ w # c
    BY DEF Waiters, Writing
  <2>3. "header" \in Open
    BY DEF Open, Writing
  <2>4. pc' \in [Calls -> Open \cup Settled \cup {"idle"}]
    BY <1>1, <2>1, <2>2, <2>3
  <2>5. pc'[c] = s /\ pc'[w] = "header" /\ \A d \in Calls \ {c, w} : pc'[d] = pc[d]
    BY <1>1, <2>1, <2>2
  <2> QED
    BY <2>2, <2>4, <2>5
<1> QED
  BY <1>2, <1>3 DEF LeaveGate

\* Bounds of the numbered parts.
LEMMA Bounds ==
    /\ NumOps \in Nat /\ RequestLimit \in Nat \ {0} /\ BusCap \in Nat \ {0}
    /\ EventCap \in Nat \ {0} /\ MaxEvents \in Nat /\ None \notin Calls
    /\ Hello \in Calls /\ Stop \in Calls /\ Ops \subseteq Calls /\ Ops \subseteq Nat
BY BoundsAssumption, CallsAssumption DEF Calls, Ops

\* The events put into the channel stay within its capacity.
LEMMA PushType ==
    ASSUME TypeOK, NEW n \in 0..MaxEvents, Push(n)
    PROVE  channel' \in Seq(0..MaxEvents) /\ Len(channel') <= EventCap /\ late' \in Nat
<1>1. channel \in Seq(0..MaxEvents) /\ Len(channel) <= EventCap /\ late \in Nat
  BY DEF TypeOK
<1>2. late' \in Nat
  BY <1>1 DEF Push
<1>3. CASE Len(channel) < EventCap
  BY <1>1, <1>2, <1>3, Bounds, AppendFacts DEF Push
<1>4. CASE ~(Len(channel) < EventCap)
  <2>1. channel # <<>>
    BY <1>1, <1>4, Bounds
  <2>2. Tail(channel) \in Seq(0..MaxEvents) /\ Len(Tail(channel)) = Len(channel) - 1
    BY <1>1, <2>1, TailFacts
  <2>3. channel' = Append(Tail(channel), n)
    BY <1>4 DEF Push
  <2> QED
    BY <1>1, <1>2, <2>2, <2>3, Bounds, AppendFacts
<1> QED
  BY <1>3, <1>4

\* The two kinds of messages, and the parts of frames.
LEMMA MessageTypes ==
    /\ \A c \in Calls, r \in {"ok", "error"} : Reply(c, r) \in Messages
    /\ \A n \in 1..MaxEvents : Event(n) \in Messages
    /\ \A c \in Calls : Header(c) \in Parts /\ Body(c) \in Parts
    /\ \A m \in Messages : /\ m.type = "reply" => m.of \in Calls /\ m.res \in {"ok", "error"}
                           /\ m.type = "event" => m.seq \in 1..MaxEvents
                           /\ m.type \in {"reply", "event"}
BY DEF Messages, Reply, Event, Header, Body, Parts, Writing

-----------------------------------------------------------------------------
(* Types *)

\* The types in groups: the plugin's end, the event channel, the stream, the
\* helper's end.
ClientTypes ==
    /\ client \in {"connecting", "up", "closing", "cleared", "disposed"}
    /\ reader \in {"running", "failed", "stopped", "cancelled"}
    /\ pc \in [Calls -> Open \cup Settled \cup {"idle"}]
    /\ kind \in [Calls -> Kinds]
    /\ pending \subseteq Calls
    /\ initialized \in BOOLEAN /\ cut \in BOOLEAN

EventTypes ==
    /\ channel \in Seq(0..MaxEvents) /\ Len(channel) <= EventCap
    /\ pumped \in 0..MaxEvents /\ late \in Nat

HelperTypes ==
    /\ dropped \in BOOLEAN /\ identity \in BOOLEAN
    /\ published \in 0..MaxEvents /\ cursor \in 0..published
    /\ phase \in {"handshake", "open", "ended"}
    /\ outcome \in {"none", "shutdown", "peer", "limit", "refused", "timeout", "frame", "crash"}
    /\ partial \in Calls \cup {None} /\ serving \in Calls \cup {None}
    /\ seen \subseteq Calls
    /\ served \in [Calls -> {"no", "ok", "error"}]

\* TypeOK is its groups.
LEMMA TypeGroups ==
    TypeOK <=> /\ ClientTypes /\ EventTypes /\ HelperTypes
               /\ toHelper \in Seq(Parts) /\ toClient \in Seq(Messages)
BY DEF TypeOK, ClientTypes, EventTypes, HelperTypes, Messages

\* Types in the initial state.
LEMMA InitType == Init => TypeOK
<1> SUFFICES ASSUME Init PROVE TypeOK
  OBVIOUS
<1>1. ClientTypes
  BY DEF Init, ClientTypes, Kinds
<1>2. EventTypes
  BY Bounds DEF Init, EventTypes
<1>3. HelperTypes
  <2>1. published \in 0..MaxEvents /\ cursor \in 0..published
    BY Bounds DEF Init
  <2>2. served \in [Calls -> {"no", "ok", "error"}] /\ seen \subseteq Calls
    BY DEF Init
  <2> QED
    BY <2>1, <2>2 DEF Init, HelperTypes
<1>4. toHelper \in Seq(Parts) /\ toClient \in Seq(Messages)
  BY DEF Init
<1> QED
  BY <1>1, <1>2, <1>3, <1>4, TypeGroups

\* Types after a step of a caller.
LEMMA CallerType ==
    ASSUME TypeOK,
           \/ Connect \/ Shutdown \/ \E c \in Ops : Operate(c)
           \/ \E c \in Calls : Cancel(c) \/ WriteHeader(c) \/ WriteBody(c) \/ WriteFails(c)
    PROVE  TypeOK'
<1>1. UNCHANGED <<client, reader, events, toClient, helperVars>>
  BY DEF Connect, Shutdown, Operate, Begin, Cancel, WriteHeader, WriteBody, WriteFails
<1>2. ClientTypes /\ toHelper \in Seq(Parts)
  BY TypeGroups
<1>3. ASSUME NEW c \in Calls, NEW k \in Kinds, Begin(c, k), initialized' \in BOOLEAN
      PROVE  ClientTypes' /\ toHelper' \in Seq(Parts)
  <2>1. pc' \in [Calls -> Open \cup Settled \cup {"idle"}]
    BY <1>2, <1>3 DEF ClientTypes, Begin, Open, Writing
  <2>2. kind' \in [Calls -> Kinds] /\ pending' \subseteq Calls /\ UNCHANGED <<client, reader, cut, toHelper>>
    BY <1>2, <1>3 DEF ClientTypes, Begin
  <2> QED
    BY <1>2, <1>3, <2>1, <2>2 DEF ClientTypes
<1>4. ASSUME Connect \/ Shutdown \/ \E c \in Ops : Operate(c)
      PROVE  ClientTypes' /\ toHelper' \in Seq(Parts)
  <2>1. initialized' \in BOOLEAN
    BY <1>2, <1>4 DEF Connect, Shutdown, Operate, ClientTypes
  <2>2. \E c \in Calls, k \in Kinds : Begin(c, k)
    BY <1>4, Bounds DEF Connect, Shutdown, Operate, Kinds
  <2> QED
    BY <1>3, <2>1, <2>2
<1>5. ASSUME NEW c \in Calls, Cancel(c) PROVE ClientTypes' /\ toHelper' \in Seq(Parts)
  <2>1. pc' \in [Calls -> Open \cup Settled \cup {"idle"}]
    BY <1>2, <1>5, LeaveGateEffect DEF Cancel, ClientTypes, Settled
  <2> QED
    BY <1>1, <1>2, <1>5, <2>1 DEF Cancel, ClientTypes
<1>6. ASSUME NEW c \in Calls, WriteHeader(c) PROVE ClientTypes' /\ toHelper' \in Seq(Parts)
  BY <1>1, <1>2, <1>6, MessageTypes, AppendFacts DEF WriteHeader, ClientTypes, Open, Writing
<1>7. ASSUME NEW c \in Calls, WriteBody(c) PROVE ClientTypes' /\ toHelper' \in Seq(Parts)
  <2>1. pc' \in [Calls -> Open \cup Settled \cup {"idle"}]
    BY <1>7, LeaveGateEffect DEF WriteBody, Open, Settled, Writing
  <2>2. toHelper' \in Seq(Parts)
    BY <1>2, <1>7, MessageTypes, AppendFacts DEF WriteBody
  <2> QED
    BY <1>1, <1>2, <1>7, <2>1, <2>2 DEF WriteBody, ClientTypes
<1>8. ASSUME NEW c \in Calls, WriteFails(c) PROVE ClientTypes' /\ toHelper' \in Seq(Parts)
  <2>1. pc' \in [Calls -> Open \cup Settled \cup {"idle"}]
    BY <1>8, LeaveGateEffect DEF WriteFails, Settled
  <2> QED
    BY <1>1, <1>2, <1>8, <2>1 DEF WriteFails, ClientTypes
<1>9. ClientTypes' /\ toHelper' \in Seq(Parts)
  BY <1>4, <1>5, <1>6, <1>7, <1>8
<1>10. EventTypes' /\ HelperTypes' /\ toClient' \in Seq(Messages)
  BY <1>1, TypeGroups DEF EventTypes, HelperTypes, events, helperVars
<1> QED
  BY <1>9, <1>10, TypeGroups DEF TypeOK, ClientTypes, EventTypes, HelperTypes, Messages

\* Types after a step of the read loop, the pump or the disposal.
LEMMA ReaderType ==
    ASSUME TypeOK,
           \/ ReceiveReply \/ ReceiveEvent \/ Pump \/ ReaderFails
           \/ StopReader \/ ReaderCancelled \/ CancelPending \/ CloseStream
    PROVE  TypeOK'
<1>1. UNCHANGED <<toHelper, helperVars>>
  BY DEF ReceiveReply, ReceiveEvent, Pump, ReaderFails, StopReader, ReaderCancelled, CancelPending, CloseStream
<1>2. ClientTypes /\ EventTypes /\ toClient \in Seq(Messages)
  BY TypeGroups
<1>3. ASSUME ReceiveReply
      PROVE  ClientTypes' /\ EventTypes' /\ toClient' \in Seq(Messages)
  <2>1. Head(toClient) \in Messages /\ Tail(toClient) \in Seq(Messages)
    BY <1>2, <1>3, TailFacts DEF ReceiveReply
  <2>2. Head(toClient).of \in Calls /\ Head(toClient).res \in {"ok", "error"}
    BY <1>3, <2>1, MessageTypes DEF ReceiveReply
  <2>3. CASE Head(toClient).of \in pending
    BY <1>2, <1>3, <2>1, <2>2, <2>3 DEF ReceiveReply, ClientTypes, EventTypes, Settled
  <2>4. CASE Head(toClient).of \notin pending
    <3>1. Push(0) /\ UNCHANGED <<client, reader, pc, kind, pending, initialized, cut, pumped>>
      BY <1>3, <2>4 DEF ReceiveReply
    <3>2. channel' \in Seq(0..MaxEvents) /\ Len(channel') <= EventCap /\ late' \in Nat
      BY <3>1, PushType, Bounds
    <3> QED
      BY <1>2, <1>3, <2>1, <3>1, <3>2 DEF ReceiveReply, ClientTypes, EventTypes
  <2> QED
    BY <2>3, <2>4
<1>4. ASSUME ReceiveEvent
      PROVE  ClientTypes' /\ EventTypes' /\ toClient' \in Seq(Messages)
  <2>1. Head(toClient) \in Messages /\ Tail(toClient) \in Seq(Messages)
    BY <1>2, <1>4, TailFacts DEF ReceiveEvent
  <2>2. Head(toClient).seq \in 0..MaxEvents
    BY <1>4, <2>1, MessageTypes, Bounds DEF ReceiveEvent
  <2>3. channel' \in Seq(0..MaxEvents) /\ Len(channel') <= EventCap /\ late' \in Nat
    BY <1>4, <2>2, PushType DEF ReceiveEvent
  <2> QED
    BY <1>2, <1>4, <2>1, <2>3 DEF ReceiveEvent, ClientTypes, EventTypes
<1>5. ASSUME Pump
      PROVE  ClientTypes' /\ EventTypes' /\ toClient' \in Seq(Messages)
  <2>1. Head(channel) \in 0..MaxEvents /\ Tail(channel) \in Seq(0..MaxEvents)
        /\ Len(Tail(channel)) <= EventCap
    BY <1>2, <1>5, TailFacts, Bounds DEF Pump, EventTypes
  <2> QED
    BY <1>2, <1>5, <2>1 DEF Pump, ClientTypes, EventTypes
<1>6. ASSUME ReaderFails \/ CancelPending
      PROVE  ClientTypes' /\ EventTypes' /\ toClient' \in Seq(Messages)
  <2>1. UNCHANGED <<events, toClient, kind, initialized, cut>>
    BY <1>6 DEF ReaderFails, CancelPending
  <2>2. pc' \in [Calls -> Open \cup Settled \cup {"idle"}] /\ pending' \subseteq Calls
    BY <1>2, <1>6 DEF ReaderFails, CancelPending, Abandon, ClientTypes, Settled
  <2> QED
    BY <1>2, <1>6, <2>1, <2>2 DEF ReaderFails, CancelPending, ClientTypes, EventTypes, events
<1>7. ASSUME StopReader \/ ReaderCancelled \/ CloseStream
      PROVE  ClientTypes' /\ EventTypes' /\ toClient' \in Seq(Messages)
  BY <1>2, <1>7 DEF StopReader, ReaderCancelled, CloseStream, ClientTypes, EventTypes, events
<1>8. ClientTypes' /\ EventTypes' /\ toClient' \in Seq(Messages)
  BY <1>3, <1>4, <1>5, <1>6, <1>7
<1>9. HelperTypes' /\ toHelper' \in Seq(Parts)
  BY <1>1, TypeGroups DEF HelperTypes, helperVars
<1> QED
  BY <1>8, <1>9, TypeGroups DEF TypeOK, ClientTypes, EventTypes, HelperTypes, Messages
\* The request being handled gets its answer.
Answering(r) ==
    /\ phase # "ended" /\ serving # None /\ serving' = None
    /\ Answer(serving, r)

\* Handling a request answers it, and either ends the session or leaves it open.
LEMMA HandleEffect ==
    ASSUME TypeOK, Handle
    PROVE  /\ \E r \in {"ok", "error"} : Answering(r)
           /\ serving \in Calls /\ dropped' = dropped
           /\ published' = published \/ (published' = published + 1 /\ published' <= MaxEvents)
           /\ cursor' = IF phase = "handshake" /\ phase' = "open" THEN published ELSE cursor
           /\ \/ /\ phase' = "ended" /\ partial' = None /\ published' = published
                 /\ outcome' \in {"refused", "limit", "shutdown"}
                 /\ seen' = seen /\ identity' = identity
                 /\ outcome' = "limit" => Cardinality(seen) >= RequestLimit
              \/ /\ phase' = "open" /\ outcome' = outcome /\ partial' = partial
                 /\ seen' \in {seen, {serving}, seen \cup {serving}}
                 /\ identity' \in {identity, TRUE}
                 /\ published' # published => phase = "open"
           /\ phase = "handshake" => kind[serving] = "hello" \/ phase' = "ended"
<1> USE DEF Answering, Handle
<1>1. serving \in Calls \cup {None} /\ phase \in {"handshake", "open", "ended"} /\ published \in Nat
  BY Bounds DEF TypeOK
<1>2. CASE Handshake
  BY <1>1, <1>2 DEF Handshake, End
<1>3. CASE RefuseMalformed \/ Refuse \/ InitializeIdentity
  BY <1>1, <1>3 DEF RefuseMalformed, Refuse, InitializeIdentity, Handling, Recordable, Continue, Record
<1>4. CASE RefuseAtLimit \/ AcceptShutdown
  BY <1>1, <1>4 DEF RefuseAtLimit, AcceptShutdown, Handling, Recordable, End
<1>5. CASE RoomRequest
  BY <1>1, <1>5 DEF RoomRequest, Handling, Recordable, Continue, Record, Publish
<1> QED
  BY <1>2, <1>3, <1>4, <1>5

\* The session's side of reading, ticking and ending keeps its hands off the client
\* and off what was served.
LEMMA QuietEffect ==
    ASSUME TypeOK,
           ReadStep \/ HandshakeTimeout \/ HelperDies \/ Tick \/ ForwardEvent
    PROVE  /\ UNCHANGED <<clientVars, seen, identity, served>>
           /\ \/ phase' = phase /\ outcome' = outcome
              \/ phase # "ended" /\ phase' = "ended" /\ serving' = None /\ partial' = None
           /\ outcome' \in {"none", "shutdown", "peer", "limit", "refused", "timeout", "frame", "crash"}
           /\ partial' \in Calls \cup {None} /\ serving' \in Calls \cup {None}
           /\ dropped' \in BOOLEAN
<1>1. /\ toHelper \in Seq(Parts) /\ serving \in Calls \cup {None} /\ partial \in Calls \cup {None}
      /\ dropped \in BOOLEAN
      /\ outcome \in {"none", "shutdown", "peer", "limit", "refused", "timeout", "frame", "crash"}
  BY DEF TypeOK
<1>2. CASE HandshakeTimeout \/ HelperDies
  BY <1>1, <1>2 DEF HandshakeTimeout, HelperDies, End
<1>3. CASE Tick \/ ForwardEvent
  BY <1>1, <1>3 DEF Tick, ForwardEvent, DropRead
<1>4. CASE InvalidLength \/ EndOfStream
  BY <1>1, <1>4 DEF InvalidLength, EndOfStream, End, Reading
<1>5. CASE Garbled
  BY <1>1, <1>5 DEF Garbled, End, Reading
<1>6. CASE ReadHeader
  <2>1. Head(toHelper).of \in Calls
    <3>1. Head(toHelper) \in Parts
      BY <1>1, <1>6, TailFacts DEF ReadHeader
    <3> QED
      BY <3>1 DEF Parts
  <2> QED
    BY <1>1, <1>6, <2>1 DEF ReadHeader
<1>7. CASE ReadBody
  BY <1>1, <1>7 DEF ReadBody
<1> QED
  BY <1>2, <1>3, <1>4, <1>5, <1>6, <1>7 DEF ReadStep

\* Types after a step of the helper.
LEMMA HelperType ==
    ASSUME TypeOK,
           ReadStep \/ Handle \/ HandshakeTimeout \/ HelperDies \/ Tick \/ ForwardEvent
    PROVE  TypeOK'
<1>1. /\ ClientTypes /\ EventTypes /\ HelperTypes
      /\ toHelper \in Seq(Parts) /\ toClient \in Seq(Messages)
  BY TypeGroups
<1>2. UNCHANGED clientVars
  BY QuietEffect, HandleEffect DEF Answering, Answer
<1>3. ClientTypes' /\ EventTypes'
  BY <1>1, <1>2 DEF ClientTypes, EventTypes, clientVars, events
<1>4. ASSUME Handle
      PROVE  HelperTypes' /\ toHelper' \in Seq(Parts) /\ toClient' \in Seq(Messages)
  <2>1. PICK r \in {"ok", "error"} : Answering(r)
    BY <1>4, HandleEffect
  <2>2. serving \in Calls
    BY <1>4, HandleEffect
  <2>3. toHelper' \in Seq(Parts) /\ toClient' \in Seq(Messages)
    BY <1>1, <2>1, <2>2, MessageTypes, AppendFacts DEF Answering, Answer
  <2>4. published' \in 0..MaxEvents /\ cursor' \in 0..published'
    BY <1>1, <1>4, HandleEffect, Bounds DEF HelperTypes
  <2>5. served' \in [Calls -> {"no", "ok", "error"}]
    BY <1>1, <2>1, <2>2 DEF HelperTypes, Answering, Answer
  <2>6. /\ phase' \in {"handshake", "open", "ended"} /\ seen' \subseteq Calls
        /\ outcome' \in {"none", "shutdown", "peer", "limit", "refused", "timeout", "frame", "crash"}
        /\ partial' \in Calls \cup {None}
    BY <1>1, <1>4, HandleEffect DEF HelperTypes
  <2>7. dropped' \in BOOLEAN /\ identity' \in BOOLEAN /\ serving' \in Calls \cup {None}
    BY <1>1, <1>4, <2>1, HandleEffect DEF HelperTypes, Answering
  <2> QED
    BY <2>3, <2>4, <2>5, <2>6, <2>7 DEF HelperTypes
<1>5. ASSUME ReadStep \/ HandshakeTimeout \/ HelperDies \/ Tick \/ ForwardEvent
      PROVE  HelperTypes' /\ toHelper' \in Seq(Parts) /\ toClient' \in Seq(Messages)
  <2>1. published' \in 0..MaxEvents /\ cursor' \in 0..published' /\ toClient' \in Seq(Messages)
    <3>1. CASE ReadStep \/ HandshakeTimeout \/ HelperDies
      BY <1>1, <3>1 DEF ReadStep, ReadHeader, ReadBody, InvalidLength, Garbled, EndOfStream,
                        HandshakeTimeout, HelperDies, End, HelperTypes
    <3>2. CASE Tick
      BY <1>1, <3>2, Bounds DEF Tick, DropRead, Publish, HelperTypes
    <3>3. CASE ForwardEvent
      <4>1. cursor \in Nat /\ published \in 0..MaxEvents /\ cursor < published /\ published' = published
        BY <1>1, <3>3, Bounds DEF ForwardEvent, HelperTypes
      <4>2. CASE published - cursor > BusCap
        BY <1>1, <3>3, <4>1, <4>2, Bounds DEF ForwardEvent
      <4>3. CASE ~(published - cursor > BusCap)
        <5>1. cursor' = cursor + 1 /\ toClient' = Append(toClient, Event(cursor + 1))
          BY <3>3, <4>3 DEF ForwardEvent
        <5>2. cursor + 1 \in 1..MaxEvents /\ cursor + 1 <= published
          BY <4>1, Bounds
        <5>3. Append(toClient, Event(cursor + 1)) \in Seq(Messages)
          BY <1>1, <5>2, MessageTypes, AppendFacts
        <5> QED
          BY <4>1, <5>1, <5>2, <5>3, Bounds
      <4> QED
        BY <4>2, <4>3
    <3> QED
      BY <1>5, <3>1, <3>2, <3>3
  <2>2. toHelper' \in Seq(Parts)
    <3>1. toHelper' = toHelper \/ (toHelper # <<>> /\ toHelper' = Tail(toHelper))
      BY <1>5 DEF ReadStep, ReadHeader, ReadBody, InvalidLength, Garbled, EndOfStream,
                  HandshakeTimeout, HelperDies, Tick, ForwardEvent, DropRead
    <3> QED
      BY <1>1, <3>1, TailFacts
  <2>3. /\ UNCHANGED <<seen, identity, served>>
        /\ phase' \in {"handshake", "open", "ended"}
        /\ outcome' \in {"none", "shutdown", "peer", "limit", "refused", "timeout", "frame", "crash"}
        /\ partial' \in Calls \cup {None} /\ serving' \in Calls \cup {None}
        /\ dropped' \in BOOLEAN
    BY <1>1, <1>5, QuietEffect DEF HelperTypes
  <2> QED
    BY <1>1, <2>1, <2>2, <2>3 DEF HelperTypes
<1>6. HelperTypes' /\ toHelper' \in Seq(Parts) /\ toClient' \in Seq(Messages)
  BY <1>4, <1>5
<1> QED
  BY <1>3, <1>6, TypeGroups DEF TypeOK, ClientTypes, EventTypes, HelperTypes, Messages

\* Every step keeps the types.
LEMMA NextType == TypeOK /\ [Next]_vars => TypeOK'
<1> SUFFICES ASSUME TypeOK, [Next]_vars PROVE TypeOK'
  OBVIOUS
<1>1. CASE UNCHANGED vars
  <2>1. UNCHANGED <<clientVars, helperVars, toHelper, toClient>>
    BY <1>1 DEF vars
  <2>2. ClientTypes' /\ EventTypes' /\ HelperTypes' /\ toHelper' = toHelper /\ toClient' = toClient
    BY <2>1, TypeGroups DEF ClientTypes, EventTypes, HelperTypes, clientVars, helperVars, events
  <2> QED
    BY <2>2, TypeGroups DEF TypeOK, ClientTypes, EventTypes, HelperTypes
<1> QED
  BY <1>1, CallerType, ReaderType, HelperType DEF Next, ClientStep
-----------------------------------------------------------------------------
(* Requests and answers *)

\* A part of a frame is a length or the JSON of a call.
LEMMA PartFacts ==
    /\ \A p \in Parts : /\ p.of \in Calls /\ p.part \in {"header", "body"}
                        /\ p.part = "body" <=> p = Body(p.of)
                        /\ p.part = "header" <=> p = Header(p.of)
    /\ \A c : Body(c).part = "body" /\ Body(c).of = c /\ Header(c).part = "header" /\ Header(c).of = c
BY DEF Parts, Writing, Body, Header

\* What a step of the client does to the calls: only one that has not begun takes a
\* new kind, and one that has left the gate for good does not come back to it.
LEMMA CallEffect ==
    ASSUME TypeOK, [Next]_vars
    PROVE  /\ \A d \in Calls : pc[d] \in Sent => pc'[d] \in Sent
           /\ \A d \in Calls : kind'[d] = kind[d] \/ pc[d] = "idle"
<1>1. pc \in [Calls -> Open \cup Settled \cup {"idle"}] /\ kind \in [Calls -> Kinds]
  BY DEF TypeOK
<1>2. ASSUME NEW c \in Calls, NEW k, Begin(c, k)
      PROVE  /\ \A d \in Calls : pc[d] \in Sent => pc'[d] \in Sent
             /\ \A d \in Calls : kind'[d] = kind[d] \/ pc[d] = "idle"
  BY <1>1, <1>2 DEF Begin, Sent, Settled
<1>3. CASE Connect \/ Shutdown \/ \E c \in Ops : Operate(c)
  <2>1. \E c \in Calls, k \in Kinds : Begin(c, k)
    BY <1>3, Bounds DEF Connect, Shutdown, Operate, Kinds
  <2> QED
    BY <1>2, <2>1
<1>4. ASSUME NEW c \in Calls, Cancel(c) \/ WriteHeader(c) \/ WriteBody(c) \/ WriteFails(c)
      PROVE  /\ \A d \in Calls : pc[d] \in Sent => pc'[d] \in Sent
             /\ \A d \in Calls : kind'[d] = kind[d] \/ pc[d] = "idle"
  <2>1. kind' = kind
    BY <1>4 DEF Cancel, WriteHeader, WriteBody, WriteFails
  <2>2. CASE WriteHeader(c)
    BY <1>1, <2>1, <2>2 DEF WriteHeader, Sent, Settled
  <2>3. CASE pc[c] \notin Writing /\ Cancel(c)
    BY <1>1, <2>1, <2>3 DEF Cancel, Sent, Settled, Open
  <2>4. CASE pc[c] \in Writing /\ \E x \in {"wait", "failed", "cancelled"} : LeaveGate(c, x)
    <3>1. PICK x \in {"wait", "failed", "cancelled"} : LeaveGate(c, x)
      BY <2>4
    <3>2. \A d \in Calls \ {c} : pc'[d] = pc[d] \/ (pc[d] = "gate" /\ pc'[d] = "header")
      BY <2>4, <3>1, LeaveGateEffect DEF Open, Settled
    <3> QED
      BY <2>1, <2>4, <3>2 DEF Sent, Settled, Writing
  <2> QED
    BY <1>4, <2>2, <2>3, <2>4 DEF Cancel, WriteBody, WriteFails, Writing
<1>5. CASE ReceiveReply
  <2>1. toClient \in Seq(Messages)
    BY TypeGroups
  <2>2. Head(toClient) \in Messages
    BY <1>5, <2>1, TailFacts DEF ReceiveReply
  <2>3. Head(toClient).of \in Calls /\ Head(toClient).res \in {"ok", "error"}
    BY <1>5, <2>2, MessageTypes DEF ReceiveReply
  <2> QED
    BY <1>1, <1>5, <2>3 DEF ReceiveReply, Sent, Settled
<1>6. CASE ReaderFails \/ CancelPending
  BY <1>1, <1>6 DEF ReaderFails, CancelPending, Abandon, Sent, Settled
<1>7. CASE ReceiveEvent \/ Pump \/ StopReader \/ ReaderCancelled \/ CloseStream
  BY <1>7 DEF ReceiveEvent, Pump, StopReader, ReaderCancelled, CloseStream
<1>8. CASE \/ ReadStep \/ Handle \/ HandshakeTimeout \/ HelperDies \/ Tick \/ ForwardEvent
           \/ UNCHANGED vars
  <2>1. UNCHANGED clientVars
    BY <1>8, QuietEffect, HandleEffect DEF Answering, Answer, vars
  <2> QED
    BY <2>1 DEF clientVars
<1> QED
  BY <1>3, <1>4, <1>5, <1>6, <1>7, <1>8 DEF Next, ClientStep

\* A step of the plugin's side that writes nothing.
ClientOnly == UNCHANGED <<toHelper, helperVars>>

\* Every step is one of these, seen from the stream to the helper.
LEMMA StepKinds ==
    ASSUME [Next]_vars
    PROVE  \/ ClientOnly
           \/ \E c \in Calls : WriteHeader(c) \/ WriteBody(c)
           \/ Handle
           \/ ReadStep \/ HandshakeTimeout \/ HelperDies \/ Tick \/ ForwardEvent
<1>1. CASE \/ Connect \/ Shutdown \/ \E c \in Ops : Operate(c)
  BY <1>1 DEF ClientOnly, Connect, Shutdown, Operate, Begin
<1>2. CASE \/ \E c \in Calls : Cancel(c) \/ WriteFails(c)
           \/ ReceiveReply \/ ReceiveEvent \/ Pump \/ ReaderFails
           \/ StopReader \/ ReaderCancelled \/ CancelPending \/ CloseStream \/ UNCHANGED vars
  BY <1>2 DEF ClientOnly, Cancel, WriteFails, ReceiveReply, ReceiveEvent, Pump, ReaderFails,
              StopReader, ReaderCancelled, CancelPending, CloseStream, vars
<1> QED
  BY <1>1, <1>2 DEF Next, ClientStep

\* Reading takes at most the first part of the stream; a request comes into
\* handling only with its JSON.
LEMMA ReadEffect ==
    ASSUME TypeOK, ReadStep \/ HandshakeTimeout \/ HelperDies \/ Tick \/ ForwardEvent
    PROVE  /\ toHelper' = toHelper \/ (toHelper # <<>> /\ toHelper' = Tail(toHelper))
           /\ serving' \in {None, serving} \/
                (/\ serving' = partial /\ partial # None /\ toHelper # <<>>
                 /\ toHelper[1] = Body(partial) /\ toHelper' = Tail(toHelper))
<1>1. toHelper \in Seq(Parts)
  BY DEF TypeOK
<1>2. CASE ReadBody
  BY <1>1, <1>2, TailFacts DEF ReadBody
<1>3. CASE ReadHeader \/ InvalidLength \/ Garbled \/ EndOfStream
  BY <1>3 DEF ReadHeader, InvalidLength, Garbled, EndOfStream, End
<1>4. CASE HandshakeTimeout \/ HelperDies \/ Tick \/ ForwardEvent
  BY <1>4 DEF HandshakeTimeout, HelperDies, Tick, ForwardEvent, DropRead, End
<1> QED
  BY <1>2, <1>3, <1>4 DEF ReadStep

\* A request is served once at most.
LEMMA ServedOnceStep ==
    ASSUME IInv, [Next]_vars
    PROVE  ServedOnce'
<1>1. TypeOK /\ ServedOnce
  BY DEF IInv
<1>2. \A d \in Calls : pc[d] \in Sent => pc'[d] \in Sent
  BY <1>1, CallEffect
<1>3. /\ toHelper \in Seq(Parts) /\ served \in [Calls -> {"no", "ok", "error"}]
      /\ serving \in Calls \cup {None} /\ pc \in [Calls -> Open \cup Settled \cup {"idle"}]
      /\ \A i \in 1..Len(toHelper) : toHelper[i] \in Parts
  BY <1>1 DEF TypeOK
<1>4. \A i \in 1..Len(toHelper) : toHelper[i].of \in Calls
  BY <1>3, PartFacts
<1>5. CASE ClientOnly
  <2>1. UNCHANGED <<toHelper, serving, served>>
    BY <1>5 DEF ClientOnly, helperVars
  <2> QED
    BY <1>1, <1>2, <1>3, <1>4, <2>1 DEF ServedOnce
<1>6. ASSUME NEW c \in Calls, WriteHeader(c) PROVE ServedOnce'
  <2>1. UNCHANGED <<serving, served>> /\ toHelper' = Append(toHelper, Header(c))
    BY <1>6 DEF WriteHeader, helperVars
  <2>2. /\ Len(toHelper') = Len(toHelper) + 1 /\ Len(toHelper) \in Nat
        /\ \A i \in 1..Len(toHelper) : toHelper'[i] = toHelper[i]
        /\ toHelper'[Len(toHelper) + 1] = Header(c)
    BY <1>3, <2>1, MessageTypes, AppendFacts
  <2>3. \A i \in 1..Len(toHelper') : toHelper'[i].part = "body" => i \in 1..Len(toHelper)
    BY <2>2, PartFacts
  <2>4. \A i, j \in 1..Len(toHelper') :
           toHelper'[i].part = "body" /\ toHelper'[j] = toHelper'[i] => i = j
    BY <1>1, <2>2, <2>3 DEF ServedOnce
  <2>5. \A i \in 1..Len(toHelper') : toHelper'[i].part = "body" =>
          /\ pc'[toHelper'[i].of] \in Sent
          /\ served'[toHelper'[i].of] = "no" /\ serving' # toHelper'[i].of
    BY <1>1, <1>2, <1>4, <2>1, <2>2, <2>3 DEF ServedOnce
  <2> QED
    BY <1>1, <1>2, <1>3, <2>1, <2>4, <2>5 DEF ServedOnce
<1>7. ASSUME NEW c \in Calls, WriteBody(c) PROVE ServedOnce'
  <2>1. UNCHANGED <<serving, served>> /\ toHelper' = Append(toHelper, Body(c)) /\ pc[c] = "body"
    BY <1>7 DEF WriteBody, helperVars
  <2>2. /\ Len(toHelper') = Len(toHelper) + 1 /\ Len(toHelper) \in Nat
        /\ \A i \in 1..Len(toHelper) : toHelper'[i] = toHelper[i]
        /\ toHelper'[Len(toHelper) + 1] = Body(c)
    BY <1>3, <2>1, MessageTypes, AppendFacts
  <2>3. pc'[c] \in Sent
    <3>1. \E x \in {"wait", "failed"} : LeaveGate(c, x)
      BY <1>7 DEF WriteBody
    <3> QED
      BY <1>1, <2>1, <3>1, LeaveGateEffect DEF Sent, Settled, Open, Writing
  <2>4. pc[c] \notin Sent
    BY <2>1 DEF Sent, Settled
  <2>5. served[c] = "no" /\ serving # c
    BY <1>1, <1>3, <2>4, CallsAssumption DEF ServedOnce
  <2>6. \A i \in 1..Len(toHelper) : toHelper[i] # Body(c)
    BY <1>1, <2>4, PartFacts DEF ServedOnce
  <2>7. \A i, j \in 1..Len(toHelper') :
           toHelper'[i].part = "body" /\ toHelper'[j] = toHelper'[i] => i = j
    BY <1>1, <2>2, <2>6 DEF ServedOnce
  <2>8. \A i \in 1..Len(toHelper') : toHelper'[i].part = "body" =>
          /\ pc'[toHelper'[i].of] \in Sent
          /\ served'[toHelper'[i].of] = "no" /\ serving' # toHelper'[i].of
    BY <1>1, <1>2, <1>4, <2>1, <2>2, <2>3, <2>5, PartFacts DEF ServedOnce
  <2> QED
    BY <1>1, <1>2, <1>3, <2>1, <2>7, <2>8 DEF ServedOnce
<1>8. CASE Handle
  <2>1. PICK r \in {"ok", "error"} : Answering(r)
    BY <1>1, <1>8, HandleEffect
  <2>2. /\ serving \in Calls /\ serving # None /\ serving' = None
        /\ served' = [served EXCEPT ![serving] = r]
        /\ toHelper' = toHelper /\ pc' = pc
    BY <1>1, <1>8, <2>1, HandleEffect DEF Answering, Answer, clientVars
  <2>3. \A d \in Calls : served'[d] = IF d = serving THEN r ELSE served[d]
    BY <1>3, <2>2
  <2>4. \A i \in 1..Len(toHelper) : None # toHelper[i].of
    BY <1>4, Bounds
  <2> QED
    BY <1>1, <1>4, <2>2, <2>3, <2>4 DEF ServedOnce
<1>9. CASE ReadStep \/ HandshakeTimeout \/ HelperDies \/ Tick \/ ForwardEvent
  <2>1. UNCHANGED <<pc, served>>
    BY <1>1, <1>9, QuietEffect DEF clientVars
  <2>2. CASE toHelper' = toHelper /\ serving' \in {None, serving}
    BY <1>1, <1>4, <2>1, <2>2, Bounds DEF ServedOnce
  <2>3. CASE toHelper # <<>> /\ toHelper' = Tail(toHelper)
    <3>1. /\ Len(toHelper) \in Nat \ {0} /\ Len(toHelper') = Len(toHelper) - 1
          /\ \A i \in 1..Len(toHelper') : toHelper'[i] = toHelper[i + 1] /\ i + 1 \in 1..Len(toHelper)
      BY <1>3, <2>3, TailFacts
    <3>2. \A i, j \in 1..Len(toHelper') :
             toHelper'[i].part = "body" /\ toHelper'[j] = toHelper'[i] => i = j
      BY <1>1, <3>1 DEF ServedOnce
    <3>3. CASE serving' \in {None, serving}
      BY <1>1, <1>4, <2>1, <3>1, <3>2, <3>3, Bounds DEF ServedOnce
    <3>4. CASE serving' = partial /\ partial # None /\ toHelper[1] = Body(partial)
      <4>1. toHelper[1].part = "body" /\ toHelper[1].of = serving' /\ 1 \in 1..Len(toHelper)
        BY <3>1, <3>4, PartFacts
      <4>2. served[serving'] = "no" /\ pc[serving'] \in Sent
        BY <1>1, <4>1 DEF ServedOnce
      <4>3. \A i \in 1..Len(toHelper') : toHelper'[i].part = "body" => toHelper'[i] # toHelper[1]
        BY <1>1, <3>1, <4>1 DEF ServedOnce
      <4>4. \A i \in 1..Len(toHelper') : toHelper'[i].part = "body" => serving' # toHelper'[i].of
        BY <1>3, <3>1, <3>4, <4>3, PartFacts
      <4>5. \A i \in 1..Len(toHelper') : toHelper'[i].part = "body" =>
              pc[toHelper'[i].of] \in Sent /\ served[toHelper'[i].of] = "no"
        BY <1>1, <3>1 DEF ServedOnce
      <4> QED
        BY <1>1, <2>1, <3>2, <4>2, <4>4, <4>5 DEF ServedOnce
    <3> QED
      BY <1>1, <1>9, <3>3, <3>4, ReadEffect
  <2> QED
    BY <1>1, <1>9, <2>2, <2>3, ReadEffect
<1> QED
  BY <1>5, <1>6, <1>7, <1>8, <1>9, StepKinds
\* Every step, seen from the stream to the client.
LEMMA AnswerKinds ==
    ASSUME TypeOK, [Next]_vars
    PROVE  \/ UNCHANGED <<toClient, served>>
           \/ /\ ReceiveReply \/ ReceiveEvent
              /\ toClient # <<>> /\ toClient' = Tail(toClient) /\ served' = served
           \/ Handle
           \/ ForwardEvent /\ toClient' = Append(toClient, Event(cursor + 1)) /\ served' = served
              /\ cursor' = cursor + 1 /\ cursor < published
<1>1. CASE ClientOnly
  <2>1. served' = served
    BY <1>1 DEF ClientOnly, helperVars
  <2>2. \/ toClient' = toClient
        \/ (ReceiveReply \/ ReceiveEvent) /\ toClient # <<>> /\ toClient' = Tail(toClient)
        \/ Handle \/ ForwardEvent
    BY QuietEffect DEF Next, ClientStep, ReceiveReply, ReceiveEvent, Pump, ReaderFails, StopReader, ReaderCancelled,
           CancelPending, CloseStream, Connect, Shutdown, Operate, Begin, Cancel, WriteHeader,
           WriteBody, WriteFails, ReadStep, ReadHeader, ReadBody, InvalidLength, Garbled,
           EndOfStream, HandshakeTimeout, HelperDies, Tick, vars
  <2>3. ForwardEvent => toClient' = toClient \/
          (toClient' = Append(toClient, Event(cursor + 1)) /\ cursor' = cursor + 1 /\ cursor < published)
    BY DEF ForwardEvent
  <2> QED
    BY <2>1, <2>2, <2>3
<1>2. CASE \E c \in Calls : WriteHeader(c) \/ WriteBody(c)
  BY <1>2 DEF WriteHeader, WriteBody, helperVars
<1>3. CASE ReadStep \/ HandshakeTimeout \/ HelperDies \/ Tick
  BY <1>3 DEF ReadStep, ReadHeader, ReadBody, InvalidLength, Garbled, EndOfStream,
              HandshakeTimeout, HelperDies, Tick, DropRead
<1>4. CASE ForwardEvent
  BY <1>4 DEF ForwardEvent, DropRead
<1> QED
  BY <1>1, <1>2, <1>3, <1>4, StepKinds

\* An answer on its way stays the answer to the request it names.
LEMMA AnswersTrueStep ==
    ASSUME IInv, [Next]_vars
    PROVE  AnswersTrue'
<1>1. TypeOK /\ ServedOnce /\ AnswersTrue
  BY DEF IInv
<1>2. toClient \in Seq(Messages) /\ served \in [Calls -> {"no", "ok", "error"}]
  BY <1>1, TypeGroups DEF HelperTypes
<1>3. CASE UNCHANGED <<toClient, served>>
  BY <1>1, <1>3 DEF AnswersTrue
<1>4. CASE toClient # <<>> /\ toClient' = Tail(toClient) /\ served' = served
  <2>1. \A i \in 1..Len(toClient') : toClient'[i] = toClient[i + 1] /\ i + 1 \in 1..Len(toClient)
    BY <1>2, <1>4, TailFacts
  <2> QED
    BY <1>1, <1>4, <2>1 DEF AnswersTrue
<1>5. CASE Handle
  <2>1. PICK r \in {"ok", "error"} : Answering(r)
    BY <1>1, <1>5, HandleEffect
  <2>2. /\ serving \in Calls /\ serving # None /\ served[serving] = "no"
        /\ served' = [served EXCEPT ![serving] = r]
        /\ toClient' = Append(toClient, Reply(serving, r))
    BY <1>1, <1>5, <2>1, HandleEffect DEF Answering, Answer, ServedOnce
  <2>3. /\ Len(toClient') = Len(toClient) + 1 /\ Len(toClient) \in Nat
        /\ \A i \in 1..Len(toClient) : toClient'[i] = toClient[i] /\ toClient[i] \in Messages
        /\ toClient'[Len(toClient) + 1] = Reply(serving, r)
    BY <1>2, <2>2, MessageTypes, AppendFacts
  <2>4. \A i \in 1..Len(toClient) : toClient[i].type = "reply" =>
           toClient[i].of # serving /\ served'[toClient[i].of] = toClient[i].res
    <3> SUFFICES ASSUME NEW i \in 1..Len(toClient), toClient[i].type = "reply"
                 PROVE  toClient[i].of # serving /\ served'[toClient[i].of] = toClient[i].res
      OBVIOUS
    <3>1. toClient[i].of \in Calls /\ toClient[i].res \in {"ok", "error"}
      BY <2>3, MessageTypes
    <3>2. served[toClient[i].of] = toClient[i].res
      BY <1>1 DEF AnswersTrue
    <3> QED
      BY <1>2, <2>2, <3>1, <3>2
  <2>5. Reply(serving, r).of = serving /\ Reply(serving, r).res = r
    BY DEF Reply
  <2>6. served'[serving] = r
    BY <1>2, <2>2
  <2> QED
    BY <2>3, <2>4, <2>5, <2>6 DEF AnswersTrue
<1>6. CASE /\ ForwardEvent /\ toClient' = Append(toClient, Event(cursor + 1)) /\ served' = served
           /\ cursor' = cursor + 1 /\ cursor < published
  <2>1. cursor + 1 \in 1..MaxEvents
    BY <1>1, <1>6, Bounds DEF TypeOK
  <2>2. /\ Len(toClient') = Len(toClient) + 1 /\ Len(toClient) \in Nat
        /\ \A i \in 1..Len(toClient) : toClient'[i] = toClient[i]
        /\ toClient'[Len(toClient) + 1] = Event(cursor + 1)
    BY <1>2, <1>6, <2>1, MessageTypes, AppendFacts
  <2>3. Event(cursor + 1).type # "reply"
    BY DEF Event
  <2> QED
    BY <1>1, <1>6, <2>2, <2>3 DEF AnswersTrue
<1> QED
  BY <1>1, <1>3, <1>4, <1>5, <1>6, AnswerKinds

\* Steps of the helper leave the plugin's end alone.
LEMMA HelperLeavesClient ==
    ASSUME TypeOK,
           \/ ReadStep \/ Handle \/ HandshakeTimeout \/ HelperDies \/ Tick \/ ForwardEvent
           \/ UNCHANGED vars
    PROVE  UNCHANGED <<client, reader, pc, kind, pending, initialized, channel, pumped, late, cut>>
<1>1. UNCHANGED clientVars
  BY QuietEffect, HandleEffect DEF Answering, Answer, vars
<1> QED
  BY <1>1 DEF clientVars, events

\* The calls that can be completed are open, the gate has one holder, and the
\* disposed client reads nothing.
LEMMA CallerStep ==
    ASSUME IInv, [Next]_vars
    PROVE  PendingOpen' /\ OneWriter' /\ ReaderStopped'
<1>1. TypeOK /\ PendingOpen /\ OneWriter /\ ReaderStopped
  BY DEF IInv
<1>2. pc \in [Calls -> Open \cup Settled \cup {"idle"}] /\ pending \subseteq Calls
  BY <1>1 DEF TypeOK
<1>3. ASSUME NEW c \in Calls, NEW k, Begin(c, k) PROVE PendingOpen' /\ OneWriter' /\ ReaderStopped'
  <2>1. /\ pending' = pending \cup {c} /\ UNCHANGED <<client, reader>>
        /\ \A d \in Calls \ {c} : pc'[d] = pc[d]
        /\ pc'[c] = IF \E d \in Calls : pc[d] \in Writing THEN "gate" ELSE "header"
    BY <1>2, <1>3 DEF Begin
  <2>2. PendingOpen'
    BY <1>1, <1>2, <2>1 DEF PendingOpen, Open, Writing
  <2>3. OneWriter'
    BY <1>1, <2>1 DEF OneWriter, Writing
  <2> QED
    BY <1>1, <2>1, <2>2, <2>3 DEF ReaderStopped
<1>4. CASE Connect \/ Shutdown \/ \E c \in Ops : Operate(c)
  <2>1. \E c \in Calls, k \in Kinds : Begin(c, k)
    BY <1>4, Bounds DEF Connect, Shutdown, Operate, Kinds
  <2> QED
    BY <1>3, <2>1
<1>5. ASSUME NEW c \in Calls, WriteHeader(c) PROVE PendingOpen' /\ OneWriter' /\ ReaderStopped'
  <2>1. /\ UNCHANGED <<pending, client, reader>> /\ pc[c] = "header" /\ pc'[c] = "body"
        /\ \A d \in Calls \ {c} : pc'[d] = pc[d]
    BY <1>2, <1>5 DEF WriteHeader
  <2>2. PendingOpen'
    BY <1>1, <1>2, <2>1 DEF PendingOpen, Open, Writing
  <2>3. OneWriter'
    BY <1>1, <2>1 DEF OneWriter, Writing
  <2> QED
    BY <1>1, <2>1, <2>2, <2>3 DEF ReaderStopped
<1>6. ASSUME NEW c \in Calls, pc[c] \in Writing, NEW x \in {"wait", "failed", "cancelled"},
             LeaveGate(c, x), UNCHANGED <<client, reader>>,
             pending' \subseteq pending, x # "wait" => c \notin pending'
      PROVE  PendingOpen' /\ OneWriter' /\ ReaderStopped'
  <2>1. /\ pc'[c] = x
        /\ \A d \in Calls \ {c} : pc'[d] = pc[d] \/ (pc[d] = "gate" /\ pc'[d] = "header")
        /\ \A d, e \in Calls \ {c} : pc'[d] # pc[d] /\ pc'[e] # pc[e] => d = e
    BY <1>1, <1>6, LeaveGateEffect DEF Open, Settled
  <2>2. PendingOpen'
    BY <1>1, <1>2, <1>6, <2>1 DEF PendingOpen, Open, Writing
  <2>3. \A d \in Calls \ {c} : pc[d] \notin Writing
    BY <1>1, <1>6 DEF OneWriter
  <2>4. OneWriter'
    BY <1>6, <2>1, <2>3 DEF OneWriter, Writing
  <2> QED
    BY <1>1, <1>6, <2>2, <2>4 DEF ReaderStopped
<1>7. ASSUME NEW c \in Calls, WriteBody(c) \/ WriteFails(c) \/ (pc[c] \in Writing /\ Cancel(c))
      PROVE  PendingOpen' /\ OneWriter' /\ ReaderStopped'
  <2>1. CASE WriteBody(c)
    <3>1. /\ LeaveGate(c, IF c \in pending THEN "wait" ELSE "failed")
          /\ pc[c] \in Writing /\ UNCHANGED <<client, reader, pending>>
      BY <2>1 DEF WriteBody, Writing
    <3>2. CASE c \in pending
      <4>1. LeaveGate(c, "wait")
        BY <3>1, <3>2
      <4> QED
        BY <1>6, <3>1, <4>1
    <3>3. CASE c \notin pending
      <4>1. LeaveGate(c, "failed")
        BY <3>1, <3>3
      <4> QED
        BY <1>6, <3>1, <3>3, <4>1
    <3> QED
      BY <3>2, <3>3
  <2>2. CASE WriteFails(c)
    BY <1>6, <2>2 DEF WriteFails
  <2>3. CASE pc[c] \in Writing /\ Cancel(c)
    BY <1>6, <2>3 DEF Cancel
  <2> QED
    BY <1>7, <2>1, <2>2, <2>3
<1>8. ASSUME NEW c \in Calls, pc[c] \notin Writing, Cancel(c)
      PROVE  PendingOpen' /\ OneWriter' /\ ReaderStopped'
  <2>1. /\ pending' = pending \ {c} /\ pc'[c] = "cancelled" /\ UNCHANGED <<client, reader>>
        /\ \A d \in Calls \ {c} : pc'[d] = pc[d]
    BY <1>2, <1>8 DEF Cancel
  <2> QED
    BY <1>1, <1>2, <2>1 DEF PendingOpen, OneWriter, ReaderStopped, Writing
<1>9. CASE ReceiveReply
  <2>1. toClient \in Seq(Messages)
    BY <1>1, TypeGroups
  <2>2. Head(toClient) \in Messages
    BY <1>9, <2>1, TailFacts DEF ReceiveReply
  <2>3. Head(toClient).of \in Calls /\ Head(toClient).res \in {"ok", "error"}
    BY <1>9, <2>2, MessageTypes DEF ReceiveReply
  <2>4. CASE Head(toClient).of \notin pending
    BY <1>1, <1>9, <2>4 DEF ReceiveReply, PendingOpen, OneWriter, ReaderStopped
  <2>5. CASE Head(toClient).of \in pending
    <3>1. /\ pending' = pending \ {Head(toClient).of}
          /\ pc' = [pc EXCEPT ![Head(toClient).of] = Head(toClient).res]
          /\ reader = "running" /\ client' \in {client, "up"}
      BY <1>9, <2>5 DEF ReceiveReply
    <3>2. PendingOpen'
      BY <1>1, <1>2, <2>3, <3>1 DEF PendingOpen
    <3>3. OneWriter'
      BY <1>1, <1>2, <2>3, <3>1 DEF OneWriter, Writing
    <3> QED
      BY <1>1, <3>1, <3>2, <3>3 DEF ReaderStopped
  <2> QED
    BY <2>4, <2>5
<1>10. CASE ReaderFails \/ CancelPending
  <2>1. /\ pending' = {}
        /\ pc' = [c \in Calls |-> IF pc[c] = "wait" /\ c \in pending THEN "failed" ELSE pc[c]]
    BY <1>10 DEF ReaderFails, CancelPending, Abandon
  <2>2. OneWriter'
    BY <1>1, <2>1 DEF OneWriter, Writing
  <2> QED
    BY <1>1, <1>10, <2>1, <2>2 DEF PendingOpen, ReaderStopped, ReaderFails, CancelPending
<1>11. CASE ReceiveEvent \/ Pump \/ StopReader \/ ReaderCancelled \/ CloseStream
  BY <1>1, <1>11 DEF ReceiveEvent, Pump, StopReader, ReaderCancelled, CloseStream, PendingOpen, OneWriter, ReaderStopped
<1>12. CASE \/ ReadStep \/ Handle \/ HandshakeTimeout \/ HelperDies \/ Tick \/ ForwardEvent
            \/ UNCHANGED vars
  BY <1>1, <1>12, HelperLeavesClient DEF PendingOpen, OneWriter, ReaderStopped
<1> QED
  BY <1>4, <1>5, <1>7, <1>8, <1>9, <1>10, <1>11, <1>12 DEF Next, ClientStep
-----------------------------------------------------------------------------
(* The identity *)

\* A session that accepts an identity has it, and keeps it while it is open.
LEMMA HandleIdentity ==
    ASSUME TypeOK, Handle, phase' = "open"
    PROVE  /\ identity => identity'
           /\ phase = "handshake" => kind[serving] = "hello"
           /\ served'[serving] = "ok" /\ kind[serving] = "identity" => identity'
<1>1. serving \in Calls /\ served \in [Calls -> {"no", "ok", "error"}]
  BY HandleEffect DEF TypeOK
<1>2. CASE Handshake
  BY <1>2 DEF Handshake, End
<1>3. CASE RefuseMalformed
  BY <1>1, <1>3 DEF RefuseMalformed, Handling, Answer
<1>4. CASE Refuse
  BY <1>1, <1>4 DEF Refuse, Recordable, Handling, Answer
<1>5. CASE InitializeIdentity
  BY <1>5 DEF InitializeIdentity, Recordable, Handling
<1>6. CASE RoomRequest
  BY <1>6 DEF RoomRequest, Recordable, Handling
<1>7. CASE RefuseAtLimit \/ AcceptShutdown
  BY <1>7 DEF RefuseAtLimit, AcceptShutdown, End
<1> QED
  BY <1>2, <1>3, <1>4, <1>5, <1>6, <1>7 DEF Handle

\* What the gateway remembers of the identity stays true of the session.
LEMMA IdentityKnownStep ==
    ASSUME IInv, [Next]_vars
    PROVE  IdentityKnown'
<1>1. TypeOK /\ ServedOnce /\ AnswersTrue /\ IdentityKnown
  BY DEF IInv
<1>2. /\ kind \in [Calls -> Kinds] /\ served \in [Calls -> {"no", "ok", "error"}]
      /\ initialized \in BOOLEAN
  BY <1>1 DEF TypeOK
<1>3. CASE ClientOnly
  <2>1. UNCHANGED <<phase, identity, served>>
    BY <1>3 DEF ClientOnly, helperVars
  <2>2. \A c \in Calls : served[c] = "ok" => kind'[c] = kind[c]
    BY <1>1, CallEffect DEF ServedOnce, Sent, Settled
  <2>3. initialized' => initialized \/ \E c \in Calls : served[c] = "ok" /\ kind[c] = "identity"
    <3>1. CASE ReceiveReply
      <4>1. toClient \in Seq(Messages) /\ toClient # <<>> /\ Head(toClient).type = "reply"
        BY <1>1, <3>1, TypeGroups DEF ReceiveReply
      <4>2. Head(toClient) = toClient[1] /\ Head(toClient) \in Messages /\ 1 \in 1..Len(toClient)
        BY <4>1, TailFacts
      <4>3. served[Head(toClient).of] = Head(toClient).res /\ Head(toClient).of \in Calls
        BY <1>1, <4>1, <4>2, MessageTypes DEF AnswersTrue
      <4> QED
        BY <1>2, <3>1, <4>3 DEF ReceiveReply
    <3>2. CASE ~ReceiveReply
      <4>1. CASE \/ ReadStep \/ Handle \/ HandshakeTimeout \/ HelperDies \/ Tick \/ ForwardEvent
                 \/ UNCHANGED vars
        BY <1>1, <4>1, HelperLeavesClient
      <4>2. CASE Connect \/ Shutdown \/ \E c \in Ops : Operate(c)
        BY <1>2, <4>2 DEF Connect, Shutdown, Operate
      <4>3. CASE \/ \E c \in Calls : Cancel(c) \/ WriteHeader(c) \/ WriteBody(c) \/ WriteFails(c)
                 \/ ReceiveEvent \/ Pump \/ ReaderFails \/ StopReader \/ ReaderCancelled \/ CancelPending \/ CloseStream
        BY <4>3 DEF Cancel, WriteHeader, WriteBody, WriteFails, ReceiveEvent, Pump, ReaderFails,
                    StopReader, ReaderCancelled, CancelPending, CloseStream
      <4> QED
        BY <3>2, <4>1, <4>2, <4>3 DEF Next, ClientStep
    <3> QED
      BY <3>1, <3>2
  <2> QED
    BY <1>1, <2>1, <2>2, <2>3 DEF IdentityKnown
<1>4. CASE \E c \in Calls : WriteHeader(c) \/ WriteBody(c)
  BY <1>1, <1>4 DEF WriteHeader, WriteBody, IdentityKnown, helperVars
<1>5. CASE Handle
  <2>1. PICK r \in {"ok", "error"} : Answering(r)
    BY <1>1, <1>5, HandleEffect
  <2>2. /\ serving \in Calls /\ served[serving] = "no"
        /\ served' = [served EXCEPT ![serving] = r]
        /\ UNCHANGED <<kind, initialized>>
    BY <1>1, <1>5, <2>1, HandleEffect DEF Answering, Answer, clientVars, ServedOnce
  <2>3. \A d \in Calls \ {serving} : served'[d] = served[d]
    BY <1>2, <2>2
  <2>4. phase' # "handshake"
    BY <1>1, <1>5, HandleEffect
  <2>5. phase' = "open" => \A c \in Calls : served'[c] = "ok" /\ kind[c] = "identity" => identity'
    <3> SUFFICES ASSUME phase' = "open", NEW c \in Calls, served'[c] = "ok", kind[c] = "identity"
                 PROVE  identity'
      OBVIOUS
    <3>1. CASE c = serving
      BY <1>1, <1>5, <3>1, HandleIdentity
    <3>2. CASE c # serving
      <4>1. served[c] = "ok" /\ phase # "ended" /\ phase \in {"handshake", "open", "ended"}
        BY <1>1, <2>1, <2>3, <3>2 DEF TypeOK, Answering
      <4>2. identity
        BY <1>1, <4>1 DEF IdentityKnown
      <4> QED
        BY <1>1, <1>5, <4>2, HandleIdentity
    <3> QED
      BY <3>1, <3>2
  <2>6. initialized => \E c \in Calls : served'[c] = "ok" /\ kind[c] = "identity"
    BY <1>1, <2>2, <2>3 DEF IdentityKnown
  <2> QED
    BY <2>2, <2>4, <2>5, <2>6 DEF IdentityKnown
<1>6. CASE ReadStep \/ HandshakeTimeout \/ HelperDies \/ Tick \/ ForwardEvent
  <2>1. UNCHANGED <<kind, initialized, served, identity>> /\ (phase' = phase \/ phase' = "ended")
    BY <1>1, <1>6, QuietEffect, HelperLeavesClient
  <2> QED
    BY <1>1, <2>1 DEF IdentityKnown
<1> QED
  BY <1>3, <1>4, <1>5, <1>6, StepKinds

-----------------------------------------------------------------------------
(* Frames *)

\* While the stream is in step no length is missing and no JSON is foreign: a
\* framing error is impossible.
LEMMA InStepReads ==
    ASSUME TypeOK, StreamInStep, InStep
    PROVE  ~InvalidLength /\ ~Garbled /\ ~EndOfStream
<1>1. Frames /\ toHelper \in Seq(Parts) /\ client # "disposed"
  BY DEF StreamInStep, TypeOK, InStep
<1>2. ~InvalidLength
  <2> SUFFICES ASSUME InvalidLength PROVE FALSE
    OBVIOUS
  <2>1. toHelper # <<>> /\ Head(toHelper).part = "body" /\ partial = None
    BY DEF InvalidLength
  <2>2. Head(toHelper) = toHelper[1] /\ 1 \in 1..Len(toHelper) /\ toHelper[1] \in Parts
    BY <1>1, <2>1, TailFacts
  <2>3. partial = toHelper[1].of
    BY <1>1, <2>1, <2>2 DEF Frames
  <2> QED
    BY <2>1, <2>2, <2>3, PartFacts, Bounds
<1>3. ~Garbled
  <2> SUFFICES ASSUME Garbled PROVE FALSE
    OBVIOUS
  <2>1. partial # None /\ toHelper # <<>> /\ Head(toHelper) # Body(partial)
    BY DEF Garbled
  <2>2. Head(toHelper) = toHelper[1]
    BY <1>1, <2>1, TailFacts
  <2> QED
    BY <1>1, <2>1, <2>2 DEF Frames
<1>4. ~EndOfStream
  BY <1>1 DEF EndOfStream
<1> QED
  BY <1>2, <1>3, <1>4

\* What has put the stream out of step is never undone.
LEMMA OutOfStepStays ==
    ASSUME IInv, [Next]_vars
    PROVE  /\ client = "disposed" => client' = "disposed"
           /\ cut => cut'
           /\ InStep' => InStep
<1>1. TypeOK /\ ReaderStopped
  BY DEF IInv
<1>2. client = "disposed" => client' = "disposed"
  <2>1. CASE \/ ReadStep \/ Handle \/ HandshakeTimeout \/ HelperDies \/ Tick \/ ForwardEvent
             \/ UNCHANGED vars
    BY <1>1, <2>1, HelperLeavesClient
  <2>2. CASE Connect \/ Shutdown \/ \E c \in Ops : Operate(c)
    BY <2>2 DEF Connect, Shutdown, Operate, Begin
  <2>3. CASE \/ \E c \in Calls : Cancel(c) \/ WriteHeader(c) \/ WriteBody(c) \/ WriteFails(c)
             \/ ReceiveEvent \/ Pump \/ ReaderFails \/ StopReader \/ ReaderCancelled \/ CancelPending \/ CloseStream
    BY <2>3 DEF Cancel, WriteHeader, WriteBody, WriteFails, ReceiveEvent, Pump, ReaderFails,
                StopReader, ReaderCancelled, CancelPending, CloseStream
  <2>4. CASE ReceiveReply
    BY <1>1, <2>4 DEF ReceiveReply, ReaderStopped
  <2> QED
    BY <2>1, <2>2, <2>3, <2>4 DEF Next, ClientStep
<1>3. cut => cut'
  <2>1. CASE \/ ReadStep \/ Handle \/ HandshakeTimeout \/ HelperDies \/ Tick \/ ForwardEvent
             \/ UNCHANGED vars
    BY <1>1, <2>1, HelperLeavesClient
  <2>2. CASE Connect \/ Shutdown \/ \E c \in Ops : Operate(c)
    BY <2>2 DEF Connect, Shutdown, Operate, Begin
  <2>3. CASE \/ \E c \in Calls : Cancel(c) \/ WriteHeader(c) \/ WriteBody(c) \/ WriteFails(c)
             \/ ReceiveEvent \/ Pump \/ ReaderFails \/ StopReader \/ ReaderCancelled \/ CancelPending \/ CloseStream
             \/ ReceiveReply
    BY <2>3 DEF Cancel, WriteHeader, WriteBody, WriteFails, ReceiveEvent, Pump, ReaderFails,
                StopReader, ReaderCancelled, CancelPending, CloseStream, ReceiveReply
  <2> QED
    BY <2>1, <2>2, <2>3 DEF Next, ClientStep
<1>4. (dropped => dropped') /\ (phase = "ended" => phase' = "ended")
  <2>1. CASE ClientOnly \/ \E c \in Calls : WriteHeader(c) \/ WriteBody(c)
    BY <2>1 DEF ClientOnly, WriteHeader, WriteBody, helperVars
  <2>2. CASE Handle
    BY <1>1, <2>2, HandleEffect DEF Answering
  <2>3. CASE ReadStep \/ HandshakeTimeout \/ HelperDies
    BY <2>3 DEF ReadStep, ReadHeader, ReadBody, InvalidLength, Garbled, EndOfStream,
                HandshakeTimeout, HelperDies, End
  <2>4. CASE Tick \/ ForwardEvent
    BY <2>4 DEF Tick, ForwardEvent, DropRead
  <2> QED
    BY <2>1, <2>2, <2>3, <2>4, StepKinds
<1> QED
  BY <1>2, <1>3, <1>4 DEF InStep

\* The session ends for a reason, and its outcome is written once.
LEMMA EndKnownStep ==
    ASSUME IInv, [Next]_vars
    PROVE  EndKnown'
<1>1. TypeOK /\ StreamInStep /\ EndKnown
  BY DEF IInv
<1>2. client = "disposed" => client' = "disposed"
  BY OutOfStepStays
<1>3. cut => cut'
  BY OutOfStepStays
<1>4. CASE ClientOnly \/ \E c \in Calls : WriteHeader(c) \/ WriteBody(c)
  <2>1. UNCHANGED <<phase, outcome, dropped, seen>>
    BY <1>4 DEF ClientOnly, WriteHeader, WriteBody, helperVars
  <2> QED
    BY <1>1, <1>2, <1>3, <2>1 DEF EndKnown, EndsForAReason
<1>5. CASE Handle
  <2>1. phase # "ended" /\ outcome = "none" /\ dropped' = dropped
    BY <1>1, <1>5, HandleEffect DEF Answering, EndKnown
  <2>2. outcome' \in {"none", "refused", "limit", "shutdown"} /\ (phase' # "ended" => outcome' = "none")
    BY <1>1, <1>5, <2>1, HandleEffect
  <2>3. outcome' = "limit" => Cardinality(seen') >= RequestLimit
    BY <1>1, <1>5, <2>1, HandleEffect
  <2> QED
    BY <2>2, <2>3 DEF EndKnown, EndsForAReason
<1>6. CASE HandshakeTimeout \/ HelperDies
  BY <1>6 DEF HandshakeTimeout, HelperDies, End, EndKnown, EndsForAReason
<1>7. CASE Tick \/ ForwardEvent
  <2>1. UNCHANGED <<phase, outcome, seen>> /\ (dropped => dropped')
    BY <1>7 DEF Tick, ForwardEvent, DropRead
  <2> QED
    BY <1>1, <1>2, <1>3, <2>1 DEF EndKnown, EndsForAReason
<1>8. CASE ReadHeader \/ ReadBody
  <2>1. UNCHANGED <<phase, outcome, seen, dropped>>
    BY <1>8 DEF ReadHeader, ReadBody
  <2> QED
    BY <1>1, <1>2, <1>3, <2>1 DEF EndKnown, EndsForAReason
<1>9. CASE InvalidLength \/ Garbled \/ EndOfStream
  <2>1. cut \/ dropped \/ client = "disposed"
    <3>1. ~InStep
      BY <1>1, <1>9, InStepReads
    <3>2. phase # "ended"
      BY <1>9 DEF InvalidLength, Garbled, EndOfStream, Reading
    <3> QED
      BY <3>1, <3>2 DEF InStep
  <2>2. UNCHANGED <<seen, dropped, cut, client>>
    BY <1>9 DEF InvalidLength, Garbled, EndOfStream, End, clientVars
  <2>3. \/ phase' = phase /\ outcome' = outcome
        \/ phase' = "ended" /\ outcome' = "frame"
        \/ phase' = "ended" /\ outcome' = "peer" /\ client = "disposed"
    BY <1>9 DEF InvalidLength, Garbled, EndOfStream, End
  <2> QED
    BY <1>1, <2>1, <2>2, <2>3 DEF EndKnown, EndsForAReason
<1> QED
  BY <1>4, <1>5, <1>6, <1>7, <1>8, <1>9, StepKinds DEF ReadStep
\* While the stream stays in step, a step of the client that writes nothing neither
\* begins nor gives up the JSON of a frame.
LEMMA NobodyStopsWriting ==
    ASSUME IInv, [Next]_vars, ClientOnly, InStep'
    PROVE  \A d \in Calls : pc'[d] = "body" <=> pc[d] = "body"
<1>1. TypeOK /\ ServedOnce /\ AnswersTrue /\ InStep
  BY OutOfStepStays DEF IInv
<1>2. pc \in [Calls -> Open \cup Settled \cup {"idle"}]
  BY <1>1 DEF TypeOK
<1>3. ASSUME NEW c \in Calls, NEW k, Begin(c, k) PROVE \A d \in Calls : pc'[d] = "body" <=> pc[d] = "body"
  BY <1>2, <1>3 DEF Begin
<1>4. CASE Connect \/ Shutdown \/ \E c \in Ops : Operate(c)
  <2>1. \E c \in Calls, k \in Kinds : Begin(c, k)
    BY <1>4, Bounds DEF Connect, Shutdown, Operate, Kinds
  <2> QED
    BY <1>3, <2>1
<1>5. ASSUME NEW c \in Calls, Cancel(c) PROVE \A d \in Calls : pc'[d] = "body" <=> pc[d] = "body"
  <2>1. pc[c] # "body"
    BY <1>5 DEF Cancel, InStep
  <2>2. CASE pc[c] \in Writing
    <3>1. /\ pc'[c] = "cancelled"
          /\ \A d \in Calls \ {c} : pc'[d] = pc[d] \/ (pc[d] = "gate" /\ pc'[d] = "header")
      BY <1>1, <1>5, <2>2, LeaveGateEffect DEF Cancel, Settled
    <3> QED
      BY <2>1, <3>1
  <2>3. CASE pc[c] \notin Writing
    BY <1>2, <1>5, <2>1, <2>3 DEF Cancel
  <2> QED
    BY <2>2, <2>3
<1>6. ASSUME NEW c \in Calls, WriteFails(c) PROVE FALSE
  BY <1>1, <1>6 DEF WriteFails, StreamOpen, InStep
<1>7. CASE ReceiveReply
  <2>1. toClient \in Seq(Messages) /\ toClient # <<>> /\ Head(toClient).type = "reply"
    BY <1>1, <1>7, TypeGroups DEF ReceiveReply
  <2>2. Head(toClient) = toClient[1] /\ Head(toClient) \in Messages /\ 1 \in 1..Len(toClient)
    BY <2>1, TailFacts
  <2>3. /\ Head(toClient).of \in Calls /\ Head(toClient).res \in {"ok", "error"}
        /\ served[Head(toClient).of] = Head(toClient).res
    BY <1>1, <2>1, <2>2, MessageTypes DEF AnswersTrue
  <2>4. pc[Head(toClient).of] # "body"
    BY <1>1, <2>3 DEF ServedOnce, Sent, Settled
  <2> QED
    BY <1>2, <1>7, <2>3, <2>4 DEF ReceiveReply
<1>8. CASE ReaderFails \/ CancelPending
  BY <1>2, <1>8 DEF ReaderFails, CancelPending, Abandon
<1>9. CASE ReceiveEvent \/ Pump \/ StopReader \/ ReaderCancelled \/ CloseStream
  BY <1>9 DEF ReceiveEvent, Pump, StopReader, ReaderCancelled, CloseStream
<1>10. CASE \/ ReadStep \/ Handle \/ HandshakeTimeout \/ HelperDies \/ Tick \/ ForwardEvent
            \/ UNCHANGED vars
  BY <1>1, <1>10, HelperLeavesClient
<1>11. ASSUME NEW c \in Calls, WriteHeader(c) \/ WriteBody(c) PROVE FALSE
  <2>1. toHelper \in Seq(Parts)
    BY <1>1 DEF TypeOK
  <2>2. Len(toHelper') = Len(toHelper) + 1 /\ Len(toHelper) \in Nat
    BY <1>11, <2>1, MessageTypes, AppendFacts DEF WriteHeader, WriteBody
  <2> QED
    BY <2>2 DEF ClientOnly
<1> QED
  BY <1>4, <1>5, <1>6, <1>7, <1>8, <1>9, <1>10, <1>11 DEF Next, ClientStep

\* The stream stays a sequence of frames until something puts it out of step.
LEMMA StreamInStepStep ==
    ASSUME IInv, [Next]_vars
    PROVE  StreamInStep'
<1> SUFFICES ASSUME InStep' PROVE Frames'
  BY DEF StreamInStep
<1>1. TypeOK /\ OneWriter /\ InStep /\ Frames
  BY OutOfStepStays DEF IInv, StreamInStep
<1>2. /\ toHelper \in Seq(Parts) /\ partial \in Calls \cup {None}
      /\ pc \in [Calls -> Open \cup Settled \cup {"idle"}]
      /\ \A i \in 1..Len(toHelper) : toHelper[i] \in Parts
      /\ Len(toHelper) \in Nat /\ (toHelper = <<>> <=> Len(toHelper) = 0)
  BY <1>1 DEF TypeOK
<1>3. \A i \in 1..Len(toHelper) :
         toHelper[i].of \in Calls /\ toHelper[i].part \in {"header", "body"}
  BY <1>2, PartFacts
<1>4. ASSUME UNCHANGED <<toHelper, partial>>,
             \A d \in Calls : pc'[d] = "body" <=> pc[d] = "body"
      PROVE  Frames'
  BY <1>1, <1>2, <1>3, <1>4 DEF Frames
<1>5. CASE ClientOnly
  <2>1. UNCHANGED <<toHelper, partial>>
    BY <1>5 DEF ClientOnly, helperVars
  <2> QED
    BY <1>4, <1>5, <2>1, NobodyStopsWriting
<1>6. ASSUME NEW c \in Calls, WriteHeader(c) PROVE Frames'
  <2>1. /\ toHelper' = Append(toHelper, Header(c)) /\ partial' = partial
        /\ pc[c] = "header" /\ pc' = [pc EXCEPT ![c] = "body"]
    BY <1>6 DEF WriteHeader, helperVars
  <2>2. /\ Len(toHelper') = Len(toHelper) + 1 /\ toHelper' # <<>>
        /\ \A i \in 1..Len(toHelper) : toHelper'[i] = toHelper[i]
        /\ toHelper'[Len(toHelper) + 1] = Header(c)
    BY <1>2, <2>1, MessageTypes, AppendFacts
  <2>3. \A d \in Calls : pc[d] # "body"
    BY <1>1, <2>1 DEF OneWriter, Writing
  <2>4. \A d \in Calls : pc'[d] = "body" <=> d = c
    BY <1>2, <2>1, <2>3
  <2>5. toHelper = <<>> => partial = None
    BY <1>1, <1>2, <2>3 DEF Frames
  <2>6. \A i \in 1..Len(toHelper) : toHelper[i].part = "header" =>
           i + 1 \in 1..Len(toHelper) /\ toHelper[i + 1] = Body(toHelper[i].of)
    BY <1>1, <1>2, <1>3, <2>3 DEF Frames
  <2>7. \A i \in 1..Len(toHelper') : toHelper'[i].part = "header" =>
          IF i = Len(toHelper') THEN pc'[toHelper'[i].of] = "body"
                                ELSE toHelper'[i + 1] = Body(toHelper'[i].of)
    BY <1>2, <2>2, <2>4, <2>6, PartFacts
  <2>8. \A i \in 1..Len(toHelper') : toHelper'[i].part = "body" =>
          IF i = 1 THEN partial' = toHelper'[i].of
                   ELSE toHelper'[i - 1] = Header(toHelper'[i].of)
    <3> SUFFICES ASSUME NEW i \in 1..Len(toHelper'), toHelper'[i].part = "body"
                 PROVE  IF i = 1 THEN partial' = toHelper'[i].of
                                 ELSE toHelper'[i - 1] = Header(toHelper'[i].of)
      OBVIOUS
    <3>1. i \in 1..Len(toHelper) /\ toHelper'[i] = toHelper[i]
      BY <1>2, <2>2, PartFacts
    <3>2. i # 1 => i - 1 \in 1..Len(toHelper)
      BY <1>2, <3>1
    <3> QED
      BY <1>1, <2>1, <2>2, <3>1, <3>2 DEF Frames
  <2>9. partial' # None => toHelper'[1] = Body(partial')
    <3>1. partial # None => toHelper # <<>> /\ toHelper[1] = Body(partial) /\ 1 \in 1..Len(toHelper)
      BY <1>1, <1>2, <2>5 DEF Frames
    <3> QED
      BY <2>1, <2>2, <3>1
  <2> QED
    BY <2>2, <2>4, <2>7, <2>8, <2>9 DEF Frames
<1>7. ASSUME NEW c \in Calls, WriteBody(c) PROVE Frames'
  <2>1. /\ toHelper' = Append(toHelper, Body(c)) /\ partial' = partial /\ pc[c] = "body"
    BY <1>7 DEF WriteBody, helperVars
  <2>2. /\ Len(toHelper') = Len(toHelper) + 1 /\ toHelper' # <<>>
        /\ \A i \in 1..Len(toHelper) : toHelper'[i] = toHelper[i]
        /\ toHelper'[Len(toHelper) + 1] = Body(c)
    BY <1>2, <2>1, MessageTypes, AppendFacts
  <2>3. \A d \in Calls : pc'[d] # "body"
    <3>1. PICK x \in {"wait", "failed"} : LeaveGate(c, x)
      BY <1>7 DEF WriteBody
    <3>2. /\ pc'[c] = x
          /\ \A d \in Calls \ {c} : pc'[d] = pc[d] \/ (pc[d] = "gate" /\ pc'[d] = "header")
      BY <1>1, <2>1, <3>1, LeaveGateEffect DEF Open, Settled, Writing
    <3>3. \A d \in Calls \ {c} : pc[d] # "body"
      BY <1>1, <2>1 DEF OneWriter, Writing
    <3> QED
      BY <3>2, <3>3
  <2>4. IF toHelper = <<>> THEN partial = c ELSE toHelper[Len(toHelper)] = Header(c)
    BY <1>1, <2>1 DEF Frames
  <2>5. \A i \in 1..Len(toHelper) : toHelper[i].part = "header" =>
           IF i = Len(toHelper) THEN toHelper[i].of = c ELSE toHelper[i + 1] = Body(toHelper[i].of)
    BY <1>1, <1>2, <2>4, PartFacts DEF Frames
  <2>6. \A i \in 1..Len(toHelper') : toHelper'[i].part = "header" =>
          i # Len(toHelper') /\ toHelper'[i + 1] = Body(toHelper'[i].of)
    <3> SUFFICES ASSUME NEW i \in 1..Len(toHelper'), toHelper'[i].part = "header"
                 PROVE  i # Len(toHelper') /\ toHelper'[i + 1] = Body(toHelper'[i].of)
      OBVIOUS
    <3>1. i \in 1..Len(toHelper) /\ toHelper'[i] = toHelper[i]
      BY <1>2, <2>2, PartFacts
    <3>2. i # Len(toHelper) => i + 1 \in 1..Len(toHelper)
      BY <1>2, <3>1
    <3> QED
      BY <1>2, <2>2, <2>5, <3>1, <3>2
  <2>7. \A i \in 1..Len(toHelper') : toHelper'[i].part = "body" =>
          IF i = 1 THEN partial' = toHelper'[i].of
                   ELSE toHelper'[i - 1] = Header(toHelper'[i].of)
    <3> SUFFICES ASSUME NEW i \in 1..Len(toHelper'), toHelper'[i].part = "body"
                 PROVE  IF i = 1 THEN partial' = toHelper'[i].of
                                 ELSE toHelper'[i - 1] = Header(toHelper'[i].of)
      OBVIOUS
    <3>1. CASE i \in 1..Len(toHelper)
      <4>1. i # 1 => i - 1 \in 1..Len(toHelper)
        BY <1>2, <3>1
      <4> QED
        BY <1>1, <2>1, <2>2, <3>1, <4>1 DEF Frames
    <3>2. CASE i = Len(toHelper) + 1
      <4>1. CASE toHelper = <<>>
        BY <1>2, <2>1, <2>2, <2>4, <3>2, <4>1, PartFacts
      <4>2. CASE toHelper # <<>>
        <5>1. i # 1 /\ i - 1 = Len(toHelper) /\ i - 1 \in 1..Len(toHelper)
          BY <1>2, <3>2, <4>2
        <5> QED
          BY <2>2, <2>4, <3>2, <4>2, <5>1, PartFacts
      <4> QED
        BY <4>1, <4>2
    <3> QED
      BY <1>2, <2>2, <3>1, <3>2
  <2>8. partial' # None => toHelper'[1] = Body(partial')
    <3>1. CASE toHelper = <<>>
      BY <1>2, <2>1, <2>2, <2>4, <3>1
    <3>2. CASE toHelper # <<>>
      BY <1>1, <1>2, <2>1, <2>2, <3>2 DEF Frames
    <3> QED
      BY <3>1, <3>2
  <2> QED
    BY <2>2, <2>3, <2>6, <2>7, <2>8 DEF Frames
<1>8. CASE Handle
  <2>1. phase' # "ended"
    BY DEF InStep
  <2>2. partial' = partial /\ toHelper' = toHelper /\ pc' = pc
    BY <1>1, <1>8, <2>1, HandleEffect, HelperLeavesClient DEF Answering, Answer
  <2> QED
    BY <1>4, <2>2
<1>9. CASE HandshakeTimeout \/ HelperDies
  BY <1>9 DEF HandshakeTimeout, HelperDies, End, InStep
<1>10. CASE Tick \/ ForwardEvent
  <2>1. partial = None /\ partial' = None /\ toHelper' = toHelper
    BY <1>10 DEF Tick, ForwardEvent, DropRead, InStep
  <2>2. pc' = pc
    BY <1>1, <1>10, HelperLeavesClient
  <2> QED
    BY <1>4, <2>1, <2>2
<1>11. CASE ReadHeader \/ ReadBody
  <2>1. toHelper # <<>> /\ toHelper' = Tail(toHelper) /\ pc' = pc
    BY <1>1, <1>11, HelperLeavesClient DEF ReadHeader, ReadBody, ReadStep
  <2>2. /\ Head(toHelper) = toHelper[1] /\ Len(toHelper') = Len(toHelper) - 1
        /\ \A i \in 1..Len(toHelper') : toHelper'[i] = toHelper[i + 1] /\ i + 1 \in 1..Len(toHelper)
        /\ toHelper' = <<>> <=> Len(toHelper) = 1
        /\ 1 \in 1..Len(toHelper) /\ Len(toHelper) \in Nat \ {0}
    BY <1>2, <2>1, TailFacts
  <2>3. \/ toHelper[1].part = "header" /\ partial' = toHelper[1].of
        \/ toHelper[1].part = "body" /\ partial' = None
    BY <1>11, <2>2, PartFacts DEF ReadHeader, ReadBody
  <2>4. \A i \in 1..Len(toHelper') : toHelper'[i].part = "header" =>
          IF i = Len(toHelper') THEN pc'[toHelper'[i].of] = "body"
                                ELSE toHelper'[i + 1] = Body(toHelper'[i].of)
    <3> SUFFICES ASSUME NEW i \in 1..Len(toHelper'), toHelper'[i].part = "header"
                 PROVE  IF i = Len(toHelper') THEN pc'[toHelper'[i].of] = "body"
                                              ELSE toHelper'[i + 1] = Body(toHelper'[i].of)
      OBVIOUS
    <3>1. toHelper'[i] = toHelper[i + 1] /\ i + 1 \in 1..Len(toHelper)
      BY <2>2
    <3>2. i = Len(toHelper') <=> i + 1 = Len(toHelper)
      BY <1>2, <2>2
    <3>3. i # Len(toHelper') => toHelper'[i + 1] = toHelper[(i + 1) + 1]
      BY <1>2, <2>2
    <3> QED
      BY <1>1, <2>1, <3>1, <3>2, <3>3 DEF Frames
  <2>5. \A i \in 1..Len(toHelper') : toHelper'[i].part = "body" =>
          IF i = 1 THEN partial' = toHelper'[i].of
                   ELSE toHelper'[i - 1] = Header(toHelper'[i].of)
    <3> SUFFICES ASSUME NEW i \in 1..Len(toHelper'), toHelper'[i].part = "body"
                 PROVE  IF i = 1 THEN partial' = toHelper'[i].of
                                 ELSE toHelper'[i - 1] = Header(toHelper'[i].of)
      OBVIOUS
    <3>1. toHelper'[i] = toHelper[i + 1] /\ i + 1 \in 1..Len(toHelper) /\ (i + 1) - 1 = i /\ i + 1 # 1
      BY <2>2
    <3>2. toHelper[i] = Header(toHelper[i + 1].of)
      BY <1>1, <3>1 DEF Frames
    <3>3. CASE i = 1
      BY <2>3, <3>1, <3>2, <3>3, PartFacts
    <3>4. CASE i # 1
      <4>1. i - 1 \in 1..Len(toHelper') /\ (i - 1) + 1 = i
        BY <1>2, <2>2, <3>4
      <4>2. toHelper'[i - 1] = toHelper[i]
        BY <2>2, <4>1
      <4> QED
        BY <3>1, <3>2, <3>4, <4>2
    <3> QED
      BY <3>3, <3>4
  <2>6. partial' # None => IF toHelper' = <<>> THEN pc'[partial'] = "body"
                                               ELSE toHelper'[1] = Body(partial')
    <3> SUFFICES ASSUME partial' # None
                 PROVE  IF toHelper' = <<>> THEN pc'[partial'] = "body"
                                            ELSE toHelper'[1] = Body(partial')
      OBVIOUS
    <3>1. toHelper[1].part = "header" /\ partial' = toHelper[1].of
      BY <2>3
    <3>2. IF 1 = Len(toHelper) THEN pc[partial'] = "body" ELSE toHelper[1 + 1] = Body(partial')
      BY <1>1, <2>2, <3>1 DEF Frames
    <3>3. 1 # Len(toHelper) => toHelper'[1] = toHelper[1 + 1]
      BY <1>2, <2>2
    <3> QED
      BY <2>1, <2>2, <3>2, <3>3
  <2>7. \A d \in Calls : pc'[d] = "body" =>
          IF toHelper' = <<>> THEN partial' = d ELSE toHelper'[Len(toHelper')] = Header(d)
    <3> SUFFICES ASSUME NEW d \in Calls, pc'[d] = "body"
                 PROVE  IF toHelper' = <<>> THEN partial' = d ELSE toHelper'[Len(toHelper')] = Header(d)
      OBVIOUS
    <3>1. toHelper[Len(toHelper)] = Header(d)
      BY <1>1, <2>1 DEF Frames
    <3>2. CASE Len(toHelper) = 1
      BY <2>2, <2>3, <3>1, <3>2, PartFacts
    <3>3. CASE Len(toHelper) # 1
      <4>1. Len(toHelper') \in 1..Len(toHelper') /\ Len(toHelper') + 1 = Len(toHelper)
        BY <2>2, <3>3
      <4> QED
        BY <2>2, <3>1, <3>3, <4>1
    <3> QED
      BY <3>2, <3>3
  <2> QED
    BY <2>4, <2>5, <2>6, <2>7 DEF Frames
<1>12. CASE InvalidLength \/ Garbled \/ EndOfStream
  BY <1>1, <1>12, InStepReads DEF IInv
<1> QED
  BY <1>5, <1>6, <1>7, <1>8, <1>9, <1>10, <1>11, <1>12, StepKinds DEF ReadStep

-----------------------------------------------------------------------------
(* Events *)

\* A push appends, and moves the entries down by one when the channel is full.
LEMMA PushEffect ==
    ASSUME TypeOK, NEW n \in 0..MaxEvents, Push(n)
    PROVE  \E d \in {0, 1} :
              /\ Len(channel) \in Nat /\ Len(channel') = Len(channel) + 1 - d
              /\ d = 1 => Len(channel) = EventCap
              /\ Len(channel') \in Nat \ {0} /\ channel'[Len(channel')] = n
              /\ \A k \in 1..(Len(channel') - 1) :
                    channel'[k] = channel[k + d] /\ k + d \in 1..Len(channel)
<1>1. channel \in Seq(0..MaxEvents) /\ Len(channel) <= EventCap /\ Len(channel) \in Nat
  BY DEF TypeOK
<1>2. CASE Len(channel) < EventCap
  <2>1. channel' = Append(channel, n)
    BY <1>2 DEF Push
  <2>2. /\ Len(channel') = Len(channel) + 1 /\ channel'[Len(channel) + 1] = n
        /\ \A k \in 1..Len(channel) : channel'[k] = channel[k]
    BY <1>1, <2>1, AppendFacts
  <2>3. \A k \in 1..(Len(channel') - 1) : channel'[k] = channel[k + 0] /\ k + 0 \in 1..Len(channel)
    BY <1>1, <2>2
  <2> QED
    BY <1>1, <2>2, <2>3
<1>3. CASE ~(Len(channel) < EventCap)
  <2>1. channel' = Append(Tail(channel), n) /\ channel # <<>> /\ Len(channel) = EventCap
    BY <1>1, <1>3, Bounds DEF Push
  <2>2. /\ Tail(channel) \in Seq(0..MaxEvents) /\ Len(Tail(channel)) = Len(channel) - 1
        /\ \A k \in 1..Len(Tail(channel)) : Tail(channel)[k] = channel[k + 1] /\ k + 1 \in 1..Len(channel)
    BY <1>1, <2>1, TailFacts
  <2>3. /\ Len(channel') = Len(Tail(channel)) + 1 /\ channel'[Len(Tail(channel)) + 1] = n
        /\ \A k \in 1..Len(Tail(channel)) : channel'[k] = Tail(channel)[k]
    BY <2>1, <2>2, AppendFacts
  <2>4. Len(channel') = Len(channel) /\ Len(channel) \in Nat \ {0}
    BY <1>1, <2>1, <2>2, <2>3, Bounds
  <2>5. \A k \in 1..(Len(channel') - 1) : channel'[k] = channel[k + 1] /\ k + 1 \in 1..Len(channel)
    BY <2>2, <2>3, <2>4
  <2>6. channel'[Len(channel')] = n
    BY <2>3
  <2> QED
    BY <2>1, <2>4, <2>5, <2>6
<1> QED
  BY <1>2, <1>3

\* Every step, seen from the events: what it writes, takes or puts into the channel.
LEMMA EventKinds ==
    ASSUME IInv, [Next]_vars
    PROVE  \/ UNCHANGED <<toClient, events, cursor, published>>
           \/ cursor' # published' /\ UNCHANGED events
           \/ (ReceiveReply \/ ReceiveEvent) /\ UNCHANGED <<pumped, cursor, published>>
           \/ Pump /\ UNCHANGED <<toClient, late, cursor, published>>
           \/ /\ \E c \in Calls, x \in {"ok", "error"} : toClient' = Append(toClient, Reply(c, x))
              /\ UNCHANGED <<events, cursor, published>>
           \/ /\ toClient' = Append(toClient, Event(cursor + 1)) /\ cursor' = cursor + 1
              /\ cursor < published /\ UNCHANGED <<events, published>>
<1>1. TypeOK /\ NewestKept
  BY DEF IInv
<1>2. /\ cursor \in Nat /\ published \in Nat /\ cursor <= published
      /\ phase \in {"handshake", "open", "ended"}
  BY <1>1, Bounds DEF TypeOK
<1>3. CASE Handle
  <2>1. cursor' = cursor
    BY <1>1, <1>2, <1>3, HandleEffect DEF NewestKept
  <2>2. published' = published \/ published' = published + 1
    BY <1>1, <1>3, HandleEffect
  <2>3. PICK x \in {"ok", "error"} : Answering(x)
    BY <1>1, <1>3, HandleEffect
  <2>4. serving \in Calls /\ toClient' = Append(toClient, Reply(serving, x)) /\ UNCHANGED events
    BY <1>1, <1>3, <2>3, HandleEffect DEF Answering, Answer, clientVars
  <2> QED
    BY <1>2, <2>1, <2>2, <2>4
<1>4. CASE ForwardEvent
  <2>1. UNCHANGED <<events, published>> /\ cursor < published
    BY <1>4 DEF ForwardEvent, DropRead, clientVars
  <2>2. \/ cursor' = published - BusCap
        \/ toClient' = Append(toClient, Event(cursor + 1)) /\ cursor' = cursor + 1
    BY <1>4 DEF ForwardEvent
  <2> QED
    BY <1>2, <2>1, <2>2, Bounds
<1>5. CASE Tick
  <2>1. UNCHANGED <<events, toClient, cursor>> /\ published' \in {published, published + 1}
    BY <1>5 DEF Tick, DropRead, Publish, clientVars
  <2> QED
    BY <1>2, <2>1
<1>6. CASE ReadStep \/ HandshakeTimeout \/ HelperDies
  BY <1>6 DEF ReadStep, ReadHeader, ReadBody, InvalidLength, Garbled, EndOfStream,
              HandshakeTimeout, HelperDies, End, clientVars
<1>7. CASE \E c \in Calls : WriteHeader(c) \/ WriteBody(c)
  BY <1>7 DEF WriteHeader, WriteBody, helperVars
<1>8. CASE \/ Connect \/ Shutdown \/ (\E c \in Ops : Operate(c))
           \/ \E c \in Calls : Cancel(c) \/ WriteFails(c)
  BY <1>8 DEF Connect, Shutdown, Operate, Begin, Cancel, WriteFails, helperVars
<1>9. CASE ReceiveReply \/ ReceiveEvent
  BY <1>9 DEF ReceiveReply, ReceiveEvent, helperVars
<1>10. CASE Pump
  BY <1>10 DEF Pump, helperVars
<1>11. CASE ReaderFails \/ StopReader \/ ReaderCancelled \/ CancelPending \/ CloseStream \/ UNCHANGED vars
  BY <1>11 DEF ReaderFails, StopReader, ReaderCancelled, CancelPending, CloseStream, helperVars, clientVars, vars
<1> QED
  BY <1>3, <1>4, <1>5, <1>6, <1>7, <1>8, <1>9, <1>10, <1>11 DEF Next, ClientStep
\* The channel keeps the newest event when a late answer is put behind it, ...
LEMMA LateAnswerKeeps ==
    ASSUME IInv, Push(0), pumped' = pumped, cursor' = cursor
    PROVE  /\ LateLast'
           /\ (Held \/ Taken) /\ late' < EventCap => (Held \/ Taken)'
<1>1. TypeOK /\ LateLast /\ late \in Nat /\ late' = late + 1
  BY DEF IInv, NewestKept, TypeOK, Push
<1>2. PICK d \in {0, 1} :
         /\ Len(channel) \in Nat /\ Len(channel') = Len(channel) + 1 - d
         /\ d = 1 => Len(channel) = EventCap
         /\ Len(channel') \in Nat \ {0} /\ channel'[Len(channel')] = 0
         /\ \A k \in 1..(Len(channel') - 1) :
               channel'[k] = channel[k + d] /\ k + d \in 1..Len(channel)
  BY <1>1, PushEffect, Bounds
<1>3. \A k \in 1..Len(channel') : k # Len(channel') => k \in 1..(Len(channel') - 1)
  BY <1>2
<1>4. LateLast'
  <2> SUFFICES ASSUME NEW k \in 1..Len(channel'), k > Len(channel') - late' PROVE channel'[k] = 0
    BY DEF LateLast
  <2>1. CASE k = Len(channel')
    BY <1>2, <2>1
  <2>2. CASE k # Len(channel')
    <3>1. channel'[k] = channel[k + d] /\ k + d \in 1..Len(channel)
      BY <1>2, <1>3, <2>2
    <3>2. k + d > Len(channel) - late
      BY <1>1, <1>2
    <3> QED
      BY <1>1, <3>1, <3>2 DEF LateLast
  <2> QED
    BY <2>1, <2>2
<1>5. ASSUME Held, late' < EventCap PROVE Held'
  <2>1. late < Len(channel) /\ cursor > 0 /\ channel[Len(channel) - late] = cursor
    BY <1>5 DEF Held
  <2>2. late' < Len(channel')
    BY <1>1, <1>2, <1>5, <2>1
  <2>3. Len(channel') - late' \in 1..(Len(channel') - 1)
    BY <1>1, <1>2, <2>2
  <2>4. (Len(channel') - late') + d = Len(channel) - late
    BY <1>1, <1>2
  <2>5. channel'[Len(channel') - late'] = channel[(Len(channel') - late') + d]
    BY <1>2, <2>3
  <2> QED
    BY <2>1, <2>2, <2>4, <2>5 DEF Held
<1>6. ASSUME Taken PROVE Taken'
  <2> SUFFICES ASSUME NEW k \in 1..Len(channel') PROVE channel'[k] = 0
    BY <1>6 DEF Taken
  <2> QED
    BY <1>2, <1>3, <1>6 DEF Taken
<1> QED
  BY <1>4, <1>5, <1>6

\* ... and until the pump takes it.
LEMMA PumpKeeps ==
    ASSUME IInv, Pump, UNCHANGED <<late, cursor>>
    PROVE  /\ LateLast'
           /\ Held \/ Taken => (Held \/ Taken)'
<1>1. channel \in Seq(0..MaxEvents) /\ late \in Nat /\ LateLast /\ channel # <<>>
  BY DEF IInv, NewestKept, TypeOK, Pump
<1>2. /\ Head(channel) = channel[1] /\ Len(channel) \in Nat \ {0} /\ Len(channel') = Len(channel) - 1
      /\ \A k \in 1..Len(channel') : channel'[k] = channel[k + 1] /\ k + 1 \in 1..Len(channel)
  BY <1>1, TailFacts DEF Pump
<1>3. LateLast'
  <2> SUFFICES ASSUME NEW k \in 1..Len(channel'), k > Len(channel') - late PROVE channel'[k] = 0
    BY DEF LateLast
  <2>1. channel'[k] = channel[k + 1] /\ k + 1 \in 1..Len(channel) /\ k + 1 > Len(channel) - late
    BY <1>1, <1>2
  <2> QED
    BY <1>1, <2>1 DEF LateLast
<1>4. pumped' = IF channel[1] = 0 THEN pumped ELSE channel[1]
  BY <1>2 DEF Pump
<1>5. ASSUME Held PROVE (Held \/ Taken)'
  <2>1. late < Len(channel) /\ cursor > 0 /\ channel[Len(channel) - late] = cursor
    BY <1>5 DEF Held
  <2>2. CASE Len(channel) - late = 1
    <3>1. channel[1] = cursor /\ pumped' = cursor
      BY <1>4, <2>1, <2>2
    <3>2. \A k \in 1..Len(channel') : k > Len(channel') - late
      BY <1>1, <1>2, <2>2
    <3> QED
      BY <1>3, <3>1, <3>2 DEF Taken, LateLast
  <2>3. CASE Len(channel) - late # 1
    <3>1. late < Len(channel') /\ Len(channel') - late \in 1..Len(channel')
      BY <1>1, <1>2, <2>1, <2>3
    <3>2. (Len(channel') - late) + 1 = Len(channel) - late
      BY <1>1, <1>2
    <3>3. channel'[Len(channel') - late] = channel[Len(channel) - late]
      BY <1>2, <3>1, <3>2
    <3> QED
      BY <2>1, <3>1, <3>3 DEF Held
  <2> QED
    BY <2>2, <2>3
<1>6. ASSUME Taken PROVE Taken'
  <2>1. pumped' = cursor
    <3>1. channel[1] = 0
      BY <1>2, <1>6 DEF Taken
    <3> QED
      BY <1>4, <1>6, <3>1 DEF Taken
  <2> QED
    BY <1>2, <1>6, <2>1 DEF Taken
<1> QED
  BY <1>3, <1>5, <1>6

\* The newest event is never lost between the bus and the pump.
LEMMA NewestKeptStep ==
    ASSUME IInv, [Next]_vars
    PROVE  NewestKept'
<1>1. TypeOK /\ NewestKept /\ TypeOK'
  BY NextType DEF IInv
<1>2. /\ toClient \in Seq(Messages) /\ Len(toClient) \in Nat
      /\ cursor \in Nat /\ published \in Nat /\ cursor <= published /\ late \in Nat
  BY <1>1, TypeGroups, Bounds DEF HelperTypes, EventTypes
<1>3. phase' = "handshake" => published' = 0
  <2>1. CASE ClientOnly \/ \E c \in Calls : WriteHeader(c) \/ WriteBody(c)
    BY <1>1, <2>1 DEF ClientOnly, WriteHeader, WriteBody, helperVars, NewestKept
  <2>2. CASE Handle
    BY <1>1, <2>2, HandleEffect
  <2>3. CASE Tick \/ ForwardEvent
    BY <2>3 DEF Tick, ForwardEvent, DropRead
  <2>4. CASE ReadStep \/ HandshakeTimeout \/ HelperDies
    <3>1. published' = published /\ phase' \in {phase, "ended"}
      BY <2>4 DEF ReadStep, ReadHeader, ReadBody, InvalidLength, Garbled, EndOfStream,
                  HandshakeTimeout, HelperDies, End
    <3> QED
      BY <1>1, <3>1 DEF NewestKept
  <2> QED
    BY <2>1, <2>2, <2>3, <2>4, StepKinds
<1>4. CASE UNCHANGED <<toClient, events, cursor, published>>
  BY <1>1, <1>3, <1>4 DEF NewestKept, LastWritten, LateLast, Held, Taken, NoEvents, events
<1>5. CASE cursor' # published' /\ UNCHANGED events
  BY <1>1, <1>3, <1>5 DEF NewestKept, LastWritten, LateLast, events
<1>6. ASSUME ReceiveReply \/ ReceiveEvent, UNCHANGED <<pumped, cursor, published>> PROVE NewestKept'
  <2>1. toClient # <<>> /\ toClient' = Tail(toClient)
    BY <1>6 DEF ReceiveReply, ReceiveEvent
  <2>2. /\ Head(toClient) = toClient[1] /\ Head(toClient) \in Messages
        /\ Len(toClient) \in Nat \ {0} /\ Len(toClient') = Len(toClient) - 1
        /\ \A i \in 1..Len(toClient') : toClient'[i] = toClient[i + 1] /\ i + 1 \in 1..Len(toClient)
    BY <1>2, <2>1, TailFacts
  <2>3. \A j \in 1..Len(toClient) : j # 1 =>
           j - 1 \in 1..Len(toClient') /\ toClient'[j - 1] = toClient[j]
    <3> SUFFICES ASSUME NEW j \in 1..Len(toClient), j # 1
                 PROVE  j - 1 \in 1..Len(toClient') /\ toClient'[j - 1] = toClient[j]
      OBVIOUS
    <3>1. j - 1 \in 1..Len(toClient') /\ (j - 1) + 1 = j
      BY <2>2
    <3> QED
      BY <2>2, <3>1
  <2>4. LastWritten'
    <3> SUFFICES ASSUME NEW i \in 1..Len(toClient'), cursor' = published', toClient'[i].type = "event",
                        \A j \in 1..Len(toClient') : i < j => toClient'[j].type = "reply"
                 PROVE  toClient'[i].seq = cursor'
      BY DEF LastWritten
    <3>1. toClient'[i] = toClient[i + 1] /\ i + 1 \in 1..Len(toClient)
      BY <2>2
    <3>2. \A j \in 1..Len(toClient) : i + 1 < j => toClient[j].type = "reply"
      <4> SUFFICES ASSUME NEW j \in 1..Len(toClient), i + 1 < j PROVE toClient[j].type = "reply"
        OBVIOUS
      <4>1. j - 1 \in 1..Len(toClient') /\ toClient'[j - 1] = toClient[j]
        BY <2>3
      <4>2. i < j - 1
        OBVIOUS
      <4> QED
        BY <4>1, <4>2
    <3>3. LastWritten /\ cursor = published /\ toClient[i + 1].type = "event"
      BY <1>1, <1>6, <3>1 DEF NewestKept
    <3>4. toClient[i + 1].seq = cursor
      BY <3>1, <3>2, <3>3 DEF LastWritten
    <3> QED
      BY <1>6, <3>1, <3>4
  <2>5. Head(toClient).type = "reply" /\ NoEvents' => NoEvents
    BY <2>2, <2>3 DEF NoEvents
  <2>6. CASE ReceiveReply /\ Head(toClient).of \in pending
    <3>1. UNCHANGED <<channel, late>> /\ Head(toClient).type = "reply"
      BY <2>6 DEF ReceiveReply
    <3> QED
      BY <1>1, <1>3, <1>6, <2>4, <2>5, <3>1 DEF NewestKept, LateLast, Held, Taken
  <2>7. CASE ReceiveReply /\ Head(toClient).of \notin pending
    <3>1. Push(0) /\ Head(toClient).type = "reply"
      BY <2>7 DEF ReceiveReply
    <3>2. late' = late + 1
      BY <3>1 DEF Push
    <3>3. LateLast' /\ ((Held \/ Taken) /\ late' < EventCap => (Held \/ Taken)')
      BY <1>6, <3>1, LateAnswerKeeps
    <3>4. ASSUME cursor' = published', NoEvents', late' < EventCap PROVE (Held \/ Taken)'
      <4>1. NoEvents /\ cursor = published
        BY <1>6, <2>5, <3>1, <3>4
      <4>2. late < EventCap
        BY <1>2, <3>2, <3>4, Bounds
      <4> QED
        BY <1>1, <3>3, <3>4, <4>1, <4>2 DEF NewestKept
    <3> QED
      BY <1>3, <2>4, <3>3, <3>4 DEF NewestKept
  <2>8. CASE ReceiveEvent
    <3>1. Push(Head(toClient).seq) /\ Head(toClient).type = "event" /\ Head(toClient).seq \in 1..MaxEvents
      BY <2>2, <2>8, MessageTypes DEF ReceiveEvent
    <3>2. /\ Len(channel') \in Nat \ {0} /\ channel'[Len(channel')] = Head(toClient).seq
          /\ late' = 0
      <4>1. Head(toClient).seq \in 0..MaxEvents /\ Head(toClient).seq # 0
        BY <3>1, Bounds
      <4>2. late' = 0
        BY <3>1, <4>1 DEF Push
      <4> QED
        BY <1>1, <3>1, <4>1, <4>2, PushEffect
    <3>3. LateLast'
      BY <3>2 DEF LateLast
    <3>4. ASSUME cursor' = published', NoEvents' PROVE Held'
      <4>1. \A j \in 1..Len(toClient) : 1 < j => toClient[j].type = "reply"
        BY <2>2, <2>3, <3>4 DEF NoEvents
      <4>2. toClient[1].seq = cursor
        BY <1>1, <1>6, <2>2, <3>1, <3>4, <4>1 DEF NewestKept, LastWritten
      <4>3. channel'[Len(channel') - late'] = cursor' /\ cursor' > 0 /\ late' < Len(channel')
        BY <1>6, <2>2, <3>1, <3>2, <4>2, Bounds
      <4> QED
        BY <4>3 DEF Held
    <3> QED
      BY <1>3, <2>4, <3>3, <3>4 DEF NewestKept
  <2> QED
    BY <1>6, <2>6, <2>7, <2>8
<1>7. CASE Pump /\ UNCHANGED <<toClient, late, cursor, published>>
  <2>1. LateLast' /\ (Held \/ Taken => (Held \/ Taken)')
    BY <1>7, PumpKeeps
  <2> QED
    BY <1>1, <1>3, <1>7, <2>1 DEF NewestKept, LastWritten, NoEvents
<1>8. ASSUME NEW m \in Messages, toClient' = Append(toClient, m)
      PROVE  /\ Len(toClient') = Len(toClient) + 1
             /\ \A i \in 1..Len(toClient) : toClient'[i] = toClient[i] /\ i \in 1..Len(toClient')
             /\ toClient'[Len(toClient) + 1] = m /\ Len(toClient) + 1 \in 1..Len(toClient')
  BY <1>2, <1>8, AppendFacts
<1>9. ASSUME NEW c \in Calls, NEW x \in {"ok", "error"}, toClient' = Append(toClient, Reply(c, x)),
             UNCHANGED <<events, cursor, published>>
      PROVE  NewestKept'
  <2>1. /\ Len(toClient') = Len(toClient) + 1
        /\ \A i \in 1..Len(toClient) : toClient'[i] = toClient[i] /\ i \in 1..Len(toClient')
        /\ toClient'[Len(toClient) + 1].type = "reply"
    BY <1>8, <1>9, MessageTypes DEF Reply
  <2>2. NoEvents' => NoEvents
    BY <2>1 DEF NoEvents
  <2>3. LastWritten'
    <3> SUFFICES ASSUME NEW i \in 1..Len(toClient'), cursor' = published', toClient'[i].type = "event",
                        \A j \in 1..Len(toClient') : i < j => toClient'[j].type = "reply"
                 PROVE  toClient'[i].seq = cursor'
      BY DEF LastWritten
    <3>1. i \in 1..Len(toClient)
      BY <1>2, <2>1
    <3>2. \A j \in 1..Len(toClient) : i < j => toClient[j].type = "reply"
      BY <2>1
    <3> QED
      BY <1>1, <1>9, <2>1, <3>1, <3>2 DEF NewestKept, LastWritten
  <2> QED
    BY <1>1, <1>3, <1>9, <2>2, <2>3 DEF NewestKept, LateLast, Held, Taken, events
<1>10. ASSUME toClient' = Append(toClient, Event(cursor + 1)), cursor' = cursor + 1,
              cursor < published, UNCHANGED <<events, published>>
       PROVE  NewestKept'
  <2>1. cursor + 1 \in 1..MaxEvents
    <3>1. published <= MaxEvents /\ MaxEvents \in Nat
      BY <1>1, Bounds DEF TypeOK
    <3> QED
      BY <1>2, <1>10, <3>1
  <2>2. /\ Len(toClient') = Len(toClient) + 1
        /\ Len(toClient) + 1 \in 1..Len(toClient')
        /\ toClient'[Len(toClient) + 1] = Event(cursor + 1)
    BY <1>8, <1>10, <2>1, MessageTypes
  <2>3. toClient'[Len(toClient) + 1].type = "event" /\ toClient'[Len(toClient) + 1].seq = cursor'
    BY <1>10, <2>2 DEF Event
  <2>4. ~NoEvents'
    BY <2>2, <2>3 DEF NoEvents
  <2>5. LastWritten'
    <3> SUFFICES ASSUME NEW i \in 1..Len(toClient'), toClient'[i].type = "event",
                        \A j \in 1..Len(toClient') : i < j => toClient'[j].type = "reply"
                 PROVE  toClient'[i].seq = cursor'
      BY DEF LastWritten
    <3>1. ~(i < Len(toClient) + 1)
      BY <2>2, <2>3
    <3>2. i = Len(toClient) + 1
      BY <1>2, <2>2, <3>1
    <3> QED
      BY <2>3, <3>2
  <2> QED
    BY <1>1, <1>3, <1>10, <2>4, <2>5 DEF NewestKept, LateLast, events
<1> QED
  BY <1>4, <1>5, <1>6, <1>7, <1>9, <1>10, EventKinds
-----------------------------------------------------------------------------
(* The theorems *)

\* The invariant holds when the connection has just been made.
LEMMA InitIInv == Init => IInv
<1> SUFFICES ASSUME Init PROVE IInv
  OBVIOUS
<1>1. TypeOK
  BY InitType
<1>2. toHelper = <<>> /\ toClient = <<>> /\ channel = <<>> /\ Len(<<>>) = 0
  BY DEF Init
<1>3. ServedOnce /\ AnswersTrue
  BY <1>2 DEF Init, ServedOnce, AnswersTrue
<1>4. PendingOpen /\ ReaderStopped /\ OneWriter
  BY DEF Init, PendingOpen, ReaderStopped, OneWriter, Writing
<1>5. IdentityKnown
  BY DEF Init, IdentityKnown
<1>6. StreamInStep
  BY <1>2 DEF Init, StreamInStep, Frames
<1>7. EndKnown
  BY DEF Init, EndKnown, EndsForAReason
<1>8. NewestKept
  BY <1>2 DEF Init, NewestKept, LastWritten, LateLast, Taken
<1> QED
  BY <1>1, <1>3, <1>4, <1>5, <1>6, <1>7, <1>8 DEF IInv

\* The invariant is kept by every step of the plugin and of the helper.
THEOREM Inductive == Spec => []IInv
<1>1. IInv /\ [Next]_vars => IInv'
  BY NextType, ServedOnceStep, AnswersTrueStep, CallerStep, IdentityKnownStep,
     StreamInStepStep, EndKnownStep, NewestKeptStep DEF IInv
<1> QED
  BY <1>1, InitIInv, PTL DEF Spec

\* Types; the event channel of the client stays within its capacity.
THEOREM TypesHold == Spec => []TypeOK
<1>1. IInv => TypeOK
  BY DEF IInv
<1> QED
  BY <1>1, Inductive, PTL

\* While the gateway remembers the client as initialized, the session it talks to
\* has the identity, whatever was cancelled, refused or answered late.
THEOREM IdentityAlwaysKnown == Spec => []InitializedHasIdentity
<1>1. IInv => InitializedHasIdentity
  BY DEF IInv, IdentityKnown, InitializedHasIdentity
<1> QED
  BY <1>1, Inductive, PTL

\* Lagging receivers and full channels lose old events, never the newest, for every
\* capacity; a channel full of late answers is the only thing that can lose it.
THEOREM NewestAlwaysArrives == Spec => []NewestEventArrives
<1>1. IInv => NewestEventArrives
  <2> SUFFICES ASSUME IInv, cursor = published, channel = <<>>, late < EventCap, NoEvents
               PROVE  pumped = published
    BY DEF NewestEventArrives, NoEvents
  <2>1. late \in Nat /\ Len(channel) = 0
    BY DEF IInv, TypeOK
  <2>2. ~Held
    BY <2>1 DEF Held
  <2> QED
    BY <2>2 DEF IInv, NewestKept, Taken
<1> QED
  BY <1>1, Inductive, PTL

\* A framing error, a disconnection and the limit of request ids each have their cause.
THEOREM AlwaysEndsForAReason == Spec => []EndsForAReason
<1>1. IInv => EndsForAReason
  BY DEF IInv, EndKnown
<1> QED
  BY <1>1, Inductive, PTL

\* How far a call is, as its caller sees it.
LEMMA AsSeenFacts ==
    /\ \A x \in Open : AsSeen(x) = "open"
    /\ \A x \in {"failed", "cancelled"} : AsSeen(x) = "lost"
    /\ \A x \in {"idle", "ok", "error"} : AsSeen(x) = x
<1>1. \A x \in Open : AsSeen(x) = "open"
  BY DEF AsSeen, Open, Writing
<1>2. \A x \in {"failed", "cancelled"} : AsSeen(x) = "lost"
  BY DEF AsSeen, Open, Writing
<1>3. \A x \in {"idle", "ok", "error"} : AsSeen(x) = x
  BY DEF AsSeen, Open, Writing
<1> QED
  BY <1>1, <1>2, <1>3

\* A step in which calls are only given up, seen from their callers.
LEMMA CallsLost ==
    ASSUME NEW C \in SUBSET Calls, served' = served,
           \A c \in C : pc[c] \in Open /\ pc'[c] \in {"failed", "cancelled"},
           \A c \in Calls \ C : pc'[c] = pc[c] \/ (pc[c] \in Open /\ pc'[c] \in Open)
    PROVE  RR!Lose(C)
<1>1. \A c \in C : CallView[c] = "open" /\ CallView'[c] = "lost"
  BY AsSeenFacts DEF CallView
<1>2. \A c \in Calls \ C : CallView'[c] = CallView[c]
  BY AsSeenFacts DEF CallView
<1>3. CallView' = [c \in Calls |-> IF c \in C THEN "lost" ELSE CallView[c]]
  BY <1>1, <1>2 DEF CallView
<1> QED
  BY <1>1, <1>3 DEF RR!Lose

\* The connection implements what the plugin relies on: the helper serves a request
\* at most once, and a caller that gets an answer gets the one to its own request.
THEOREM CallsServed == Spec => ServesCalls
<1>1. Init => RR!CallInit
  <2> SUFFICES ASSUME Init PROVE RR!CallInit
    OBVIOUS
  <2>1. CallView = [c \in Calls |-> "idle"]
    BY AsSeenFacts DEF Init, CallView
  <2> QED
    BY <2>1 DEF Init, RR!CallInit
<1>2. IInv /\ [Next]_vars => [RR!CallNext]_<<CallView, served>>
  <2> SUFFICES ASSUME IInv, [Next]_vars PROVE [RR!CallNext]_<<CallView, served>>
    OBVIOUS
  <2>1. TypeOK /\ ServedOnce /\ AnswersTrue /\ PendingOpen
    BY DEF IInv
  <2>2. /\ pc \in [Calls -> Open \cup Settled \cup {"idle"}]
        /\ served \in [Calls -> {"no", "ok", "error"}] /\ pending \subseteq Calls
    BY <2>1 DEF TypeOK
  <2>3. ASSUME NEW C \in SUBSET Calls, served' = served,
               \A c \in C : pc[c] \in Open /\ pc'[c] \in {"failed", "cancelled"},
               \A c \in Calls \ C : pc'[c] = pc[c] \/ (pc[c] \in Open /\ pc'[c] \in Open)
        PROVE  RR!CallNext
    BY <2>3, CallsLost DEF RR!CallNext
  <2>4. CASE Connect \/ Shutdown \/ \E c \in Ops : Operate(c)
    <3>1. PICK c \in Calls, k \in Kinds : Begin(c, k)
      BY <2>4, Bounds DEF Connect, Shutdown, Operate, Kinds
    <3>2. pc[c] = "idle" /\ served' = served
      BY <3>1 DEF Begin, helperVars
    <3>3. pc'[c] \in Open /\ \A d \in Calls \ {c} : pc'[d] = pc[d]
      BY <2>2, <3>1 DEF Begin, Open, Writing
    <3>4. CallView[c] = "idle" /\ CallView' = [CallView EXCEPT ![c] = "open"]
      BY <3>2, <3>3, AsSeenFacts DEF CallView
    <3> QED
      BY <3>2, <3>4 DEF RR!CallNext, RR!Ask
  <2>5. ASSUME NEW c \in Calls, Cancel(c) PROVE RR!CallNext
    <3>1. served' = served /\ pc[c] \in Open
      BY <2>5 DEF Cancel, helperVars
    <3>2. pc'[c] = "cancelled" /\
          \A d \in Calls \ {c} : pc'[d] = pc[d] \/ (pc[d] = "gate" /\ pc'[d] = "header")
      BY <2>1, <2>2, <2>5, LeaveGateEffect DEF Cancel, Settled
    <3>3. {c} \in SUBSET Calls /\ \A e \in {c} : pc[e] \in Open /\ pc'[e] \in {"failed", "cancelled"}
      BY <3>1, <3>2
    <3>4. \A e \in Calls \ {c} : pc'[e] = pc[e] \/ (pc[e] \in Open /\ pc'[e] \in Open)
      BY <3>2 DEF Open, Writing
    <3> QED
      BY <2>3, <3>1, <3>3, <3>4
  <2>6. ASSUME NEW c \in Calls, WriteFails(c) PROVE RR!CallNext
    <3>1. served' = served /\ pc[c] \in Writing
      BY <2>6 DEF WriteFails, helperVars
    <3>2. pc'[c] = "failed" /\
          \A d \in Calls \ {c} : pc'[d] = pc[d] \/ (pc[d] = "gate" /\ pc'[d] = "header")
      BY <2>1, <2>6, LeaveGateEffect DEF WriteFails, Settled
    <3> QED
      BY <2>3, <3>1, <3>2 DEF Open, Writing
  <2>7. ASSUME NEW c \in Calls, WriteBody(c) PROVE RR!CallNext
    <3>1. served' = served /\ pc[c] = "body"
      BY <2>7 DEF WriteBody, helperVars
    <3>2. PICK x \in {"wait", "failed"} : LeaveGate(c, x)
      BY <2>7 DEF WriteBody
    <3>3. pc'[c] = x /\
          \A d \in Calls \ {c} : pc'[d] = pc[d] \/ (pc[d] = "gate" /\ pc'[d] = "header")
      BY <2>1, <3>1, <3>2, LeaveGateEffect DEF Open, Settled, Writing
    <3>4. CASE x = "failed"
      BY <2>3, <3>1, <3>3, <3>4 DEF Open, Writing
    <3>5. CASE x = "wait"
      <4>1. {} \in SUBSET Calls
            /\ \A d \in Calls : pc'[d] = pc[d] \/ (pc[d] \in Open /\ pc'[d] \in Open)
        BY <3>1, <3>3, <3>5 DEF Open, Writing
      <4> QED
        BY <2>3, <3>1, <4>1
    <3> QED
      BY <3>4, <3>5
  <2>8. ASSUME NEW c \in Calls, WriteHeader(c) PROVE RR!CallNext
    <3>1. served' = served /\ {} \in SUBSET Calls
          /\ \A d \in Calls : pc'[d] = pc[d] \/ (pc[d] \in Open /\ pc'[d] \in Open)
      BY <2>2, <2>8 DEF WriteHeader, helperVars, Open, Writing
    <3> QED
      BY <2>3, <3>1
  <2>9. CASE ReaderFails \/ CancelPending
    <3>1. Abandon /\ served' = served
      BY <2>9 DEF ReaderFails, CancelPending, helperVars
    <3>2. \A c \in Calls : pc'[c] = IF pc[c] = "wait" /\ c \in pending THEN "failed" ELSE pc[c]
      BY <3>1 DEF Abandon
    <3>3. {c \in Calls : pc[c] = "wait" /\ c \in pending} \in SUBSET Calls
      OBVIOUS
    <3> QED
      BY <2>3, <3>1, <3>2, <3>3 DEF Open
  <2>10. CASE ReceiveReply
    <3> DEFINE c == Head(toClient).of
               a == Head(toClient).res
    <3>1. toClient \in Seq(Messages) /\ toClient # <<>> /\ Head(toClient).type = "reply"
      BY <2>1, <2>10, TypeGroups DEF ReceiveReply
    <3>2. Head(toClient) = toClient[1] /\ Head(toClient) \in Messages /\ 1 \in 1..Len(toClient)
      BY <3>1, TailFacts
    <3>3. c \in Calls /\ a \in {"ok", "error"} /\ served[c] = a /\ served' = served
      BY <2>1, <2>10, <3>1, <3>2, MessageTypes DEF AnswersTrue, ReceiveReply, helperVars
    <3>4. CASE c \in pending
      <4>1. pc[c] \in Open /\ pc' = [pc EXCEPT ![c] = a]
        BY <2>1, <2>10, <3>4 DEF PendingOpen, ReceiveReply
      <4>2. pc'[c] = a /\ \A d \in Calls \ {c} : pc'[d] = pc[d]
        BY <2>2, <3>3, <4>1
      <4>3. CallView[c] = "open" /\ AsSeen(a) = a
        BY <3>3, <4>1, AsSeenFacts DEF CallView
      <4>4. CallView' = [CallView EXCEPT ![c] = a]
        BY <3>3, <4>2, <4>3 DEF CallView
      <4>5. RR!GetAnswer(c)
        BY <3>3, <4>3, <4>4 DEF RR!GetAnswer, RR!Answers
      <4> QED
        BY <3>3, <4>5 DEF RR!CallNext
    <3>5. CASE c \notin pending
      BY <2>10, <3>3, <3>5 DEF ReceiveReply, CallView
    <3> QED
      BY <3>4, <3>5
  <2>11. CASE Handle
    <3>1. PICK x \in {"ok", "error"} : Answering(x)
      BY <2>1, <2>11, HandleEffect
    <3>2. serving \in Calls /\ serving # None /\ pc' = pc /\ served' = [served EXCEPT ![serving] = x]
      BY <2>1, <2>11, <3>1, HandleEffect DEF Answering, Answer, clientVars
    <3>3. served[serving] = "no" /\ pc[serving] \in Sent
      BY <2>1, <3>2 DEF ServedOnce
    <3>4. CallView[serving] # "idle"
      BY <3>2, <3>3, AsSeenFacts DEF CallView, Sent, Settled, Open
    <3>5. RR!Serve(serving, x)
      BY <3>2, <3>3, <3>4 DEF RR!Serve, CallView
    <3> QED
      BY <3>2, <3>5 DEF RR!CallNext, RR!Answers
  <2>12. CASE \/ ReadStep \/ HandshakeTimeout \/ HelperDies \/ Tick \/ ForwardEvent
             \/ UNCHANGED vars
    <3>1. pc' = pc /\ served' = served
      BY <2>1, <2>12, QuietEffect DEF clientVars, helperVars, vars
    <3> QED
      BY <3>1 DEF CallView
  <2>13. CASE ReceiveEvent \/ Pump \/ StopReader \/ ReaderCancelled \/ CloseStream
    BY <2>13 DEF ReceiveEvent, Pump, StopReader, ReaderCancelled, CloseStream, helperVars, CallView
  <2> QED
    BY <2>4, <2>5, <2>6, <2>7, <2>8, <2>9, <2>10, <2>11, <2>12, <2>13 DEF Next, ClientStep
<1> QED
  BY <1>1, <1>2, Inductive, PTL DEF Spec, ServesCalls, RR!CallSpec
===============================================================================

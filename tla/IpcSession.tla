------------------------------ MODULE IpcSession ------------------------------
(* One connection between the plugin and the helper: the plugin's duplex client *)
(* (HelperIpcClient.cs, IpcFraming.cs) and the helper's session (ipc/session.rs, *)
(* protocol/framing.rs) over a local stream.                                    *)
(*                                                                              *)
(* A frame is two writes of the client, its length and its JSON, and the        *)
(* session reads it in the same two parts inside a select!: when another arm    *)
(* completes, the read that has begun is dropped with what it has consumed.     *)
(* Frames of the helper are read by a loop of their own that nothing            *)
(* interrupts, and are one step.                                                *)
(*                                                                              *)
(* Callers are those of the plugin: hello while connecting, one operation at a  *)
(* time (the controller's gate), and shutdown from the process manager, which   *)
(* does not wait for that gate.  A request is its id; ids are fresh GUIDs.      *)
EXTENDS Naturals, Sequences, FiniteSets

CONSTANTS NumOps,       \* bound: calls of room operations, numbered in their order
          Hello, Stop,  \* the handshake and the shutdown request
          None,
          RequestLimit, \* MAX_REQUEST_IDS
          BusCap,       \* EVENT_CAPACITY of the helper's event bus
          EventCap,     \* capacity of the client's event channel
          MaxEvents     \* bound: events published in one session

Ops == 1..NumOps
Calls == Ops \cup {Hello, Stop}

ASSUME CallsAssumption ==
    Hello # Stop /\ {Hello, Stop} \cap Ops = {} /\ None \notin Calls
ASSUME BoundsAssumption ==
    /\ NumOps \in Nat /\ RequestLimit \in Nat \ {0} /\ BusCap \in Nat \ {0}
    /\ EventCap \in Nat \ {0} /\ MaxEvents \in Nat

VARIABLES
    \* the plugin's end
    client,             \* life of the HelperIpcClient
    reader,             \* its read loop
    pc, kind,           \* how far a call is, and what it asks for
    pending,            \* _pending: calls the read loop can still complete
    initialized,        \* the gateway's _initializedClient is this client
    channel, pumped,    \* _events, and the newest event taken out of it
    late,               \* history: answers put into _events since its newest event
    cut,                \* a cancelled write has left a frame without its JSON
    \* the stream
    toHelper, toClient,
    \* the helper's end
    phase, outcome,     \* life of the session and how it ended
    partial,            \* the frame whose length read_frame has consumed
    serving,            \* the request being handled
    seen, identity,     \* request_ids, identity
    published, cursor,  \* events on the bus, and how many recv has passed
    dropped,            \* select! has dropped a read that had begun
    served              \* what was answered to each request

events == <<channel, pumped, late>>
clientVars == <<client, reader, pc, kind, pending, initialized, events, cut>>
helperVars == <<phase, outcome, partial, serving, seen, identity, published, cursor, dropped, served>>
vars == <<clientVars, toHelper, toClient, helperVars>>

Kinds == {"hello", "identity", "enter", "query", "malformed", "shutdown"}
Writing == {"header", "body"}
Open == {"gate", "wait"} \cup Writing
Settled == {"ok", "error", "failed", "cancelled"}

Parts == [part : Writing, of : Calls]
Header(c) == [part |-> "header", of |-> c]
Body(c) == [part |-> "body", of |-> c]

Reply(c, r) == [type |-> "reply", of |-> c, res |-> r]
Event(n) == [type |-> "event", seq |-> n]

Init ==
    /\ client = "connecting" /\ reader = "running"
    /\ pc = [c \in Calls |-> "idle"]
    /\ kind = [c \in Calls |-> IF c = Stop THEN "shutdown" ELSE "hello"]
    /\ pending = {} /\ initialized = FALSE
    /\ channel = <<>> /\ pumped = 0 /\ late = 0 /\ cut = FALSE
    /\ toHelper = <<>> /\ toClient = <<>>
    /\ phase = "handshake" /\ outcome = "none"
    /\ partial = None /\ serving = None
    /\ seen = {} /\ identity = FALSE
    /\ published = 0 /\ cursor = 0
    /\ dropped = FALSE
    /\ served = [c \in Calls |-> "no"]

-----------------------------------------------------------------------------
(* The client: SendAsync.  A call registers its id, waits for the write gate,  *)
(* writes the two parts of its frame and waits for the read loop.               *)

Begin(c, k) ==
    /\ pc[c] = "idle"
    /\ pc' = [pc EXCEPT ![c] = IF \E d \in Calls : pc[d] \in Writing THEN "gate" ELSE "header"]
    /\ kind' = [kind EXCEPT ![c] = k]
    /\ pending' = pending \cup {c}
    /\ UNCHANGED <<client, reader, events, cut, toHelper, toClient, helperVars>>

Connect == client = "connecting" /\ Begin(Hello, "hello") /\ UNCHANGED initialized

\* EnsureInitializedAsync: the identity first, until it has been accepted once.
Operate(c) ==
    /\ client \notin {"connecting", "disposed"} /\ pc[Hello] = "ok"
    /\ \A o \in Ops : pc[o] \notin Open /\ (o < c => pc[o] # "idle")
    /\ \E k \in IF initialized THEN {"enter", "query", "malformed"} ELSE {"identity"} :
          Begin(c, k)
    /\ UNCHANGED initialized

\* StopAsync of the manager is the one caller that is not an operation.  The gateway
\* forgets the client and stops its pump first; disposal of the manager does not.
Shutdown ==
    /\ client = "up"
    /\ Begin(Stop, "shutdown")
    /\ initialized' \in {initialized, FALSE}

\* The write gate is given to the caller that waits for it, if there is one.
\* Once the semaphore is disposed nobody is woken.
Waiters == IF client = "disposed" THEN {} ELSE {c \in Calls : pc[c] = "gate"}

LeaveGate(c, s) ==
    \/ /\ Waiters = {}
       /\ pc' = [pc EXCEPT ![c] = s]
    \/ \E w \in Waiters : pc' = [pc EXCEPT ![c] = s, ![w] = "header"]

StreamOpen == phase # "ended" /\ client # "disposed"

WriteHeader(c) ==
    /\ pc[c] = "header" /\ StreamOpen
    /\ toHelper' = Append(toHelper, Header(c))
    /\ pc' = [pc EXCEPT ![c] = "body"]
    /\ UNCHANGED <<client, reader, kind, pending, initialized, events, cut, toClient, helperVars>>

WriteBody(c) ==
    /\ pc[c] = "body" /\ StreamOpen
    /\ toHelper' = Append(toHelper, Body(c))
    /\ LeaveGate(c, IF c \in pending THEN "wait" ELSE "failed")
    /\ UNCHANGED <<client, reader, kind, pending, initialized, events, cut, toClient, helperVars>>

WriteFails(c) ==
    /\ pc[c] \in Writing /\ ~StreamOpen
    /\ LeaveGate(c, "failed")
    /\ pending' = pending \ {c}
    /\ UNCHANGED <<client, reader, kind, initialized, events, cut, toHelper, toClient, helperVars>>

\* The caller's token.  Between the two writes it leaves a length without JSON.
Cancel(c) ==
    /\ pc[c] \in Open
    /\ IF pc[c] \in Writing THEN LeaveGate(c, "cancelled")
                            ELSE pc' = [pc EXCEPT ![c] = "cancelled"]
    /\ cut' = (cut \/ pc[c] = "body")
    /\ pending' = pending \ {c}
    /\ UNCHANGED <<client, reader, kind, initialized, events, toHelper, toClient, helperVars>>

-----------------------------------------------------------------------------
(* The client: ReadLoopAsync, the event pump and DisposeAsync *)

\* Mutant: an unbounded channel.
PushUnbounded(n) ==
    /\ channel' = Append(channel, n)
    /\ late' = IF n = 0 THEN late + 1 ELSE 0

\* _events is bounded and gives up its oldest entry.  0 is a late answer: an
\* envelope whose id nobody waits for any more, which the loop takes for a push.
Push(n) ==
    /\ channel' = IF Len(channel) < EventCap THEN Append(channel, n) ELSE Append(Tail(channel), n)
    /\ late' = IF n = 0 THEN late + 1 ELSE 0

\* Mutant: answers complete the calls in whatever order they wait.
ReceiveReplyUnmatched ==
    /\ reader = "running" /\ toClient # <<>> /\ Head(toClient).type = "reply"
    /\ \E c \in pending :
          /\ pending' = pending \ {c}
          /\ pc' = [pc EXCEPT ![c] = Head(toClient).res]
          /\ client' = IF c = Hello /\ Head(toClient).res = "ok" THEN "up" ELSE client
    /\ toClient' = Tail(toClient)
    /\ UNCHANGED <<reader, kind, initialized, events, cut, toHelper, helperVars>>

\* Mutant: the gateway remembers the client whatever the helper answered.
ReceiveReplyUnread ==
    /\ reader = "running" /\ toClient # <<>> /\ Head(toClient).type = "reply"
    /\ Head(toClient).of \in pending
    /\ pending' = pending \ {Head(toClient).of}
    /\ pc' = [pc EXCEPT ![Head(toClient).of] = Head(toClient).res]
    /\ client' = IF Head(toClient).of = Hello /\ Head(toClient).res = "ok" THEN "up" ELSE client
    /\ initialized' = (initialized \/ kind[Head(toClient).of] = "identity")
    /\ toClient' = Tail(toClient)
    /\ UNCHANGED <<reader, kind, events, cut, toHelper, helperVars>>

ReceiveReply ==
    /\ reader = "running" /\ toClient # <<>> /\ Head(toClient).type = "reply"
    /\ LET c == Head(toClient).of
           r == Head(toClient).res IN
       IF c \in pending
       THEN /\ pending' = pending \ {c}
            /\ pc' = [pc EXCEPT ![c] = r]
            /\ client' = IF c = Hello /\ r = "ok" THEN "up" ELSE client
            /\ initialized' = (initialized \/ (kind[c] = "identity" /\ r = "ok"))
            /\ UNCHANGED <<channel, late>>
       ELSE /\ Push(0)
            /\ UNCHANGED <<pending, pc, client, initialized>>
    /\ toClient' = Tail(toClient)
    /\ UNCHANGED <<reader, kind, pumped, cut, toHelper, helperVars>>

ReceiveEvent ==
    /\ reader = "running" /\ toClient # <<>> /\ Head(toClient).type = "event"
    /\ Push(Head(toClient).seq)
    /\ toClient' = Tail(toClient)
    /\ UNCHANGED <<client, reader, pc, kind, pending, initialized, pumped, cut, toHelper, helperVars>>

Pump ==
    /\ initialized /\ channel # <<>>
    /\ channel' = Tail(channel)
    /\ pumped' = IF Head(channel) = 0 THEN pumped ELSE Head(channel)
    /\ UNCHANGED <<client, reader, pc, kind, pending, initialized, late, cut, toHelper, toClient, helperVars>>

\* Every completion is failed or cancelled; a caller that still writes finds out later.
Abandon ==
    /\ pc' = [c \in Calls |-> IF pc[c] = "wait" /\ c \in pending THEN "failed" ELSE pc[c]]
    /\ pending' = {}

\* The helper has closed the stream.
ReaderFails ==
    /\ reader = "running" /\ phase = "ended" /\ toClient = <<>>
    /\ reader' = "failed"
    /\ Abandon
    /\ UNCHANGED <<client, kind, initialized, events, cut, toHelper, toClient, helperVars>>

\* The host cancels the token it gave the reader's task: the loop ends silently, and
\* whoever waits for an answer is left waiting.
ReaderCancelled ==
    /\ reader = "running"
    /\ reader' = "cancelled"
    /\ UNCHANGED <<client, pc, kind, pending, initialized, events, cut, toHelper, toClient, helperVars>>

\* ConnectAsync disposes after a failed hello, StopCoreAsync after a shutdown that
\* was answered or failed (not: cancelled), OnProcessEndedAsync after the exit, under
\* the gate of the manager that a stop holds.
StopReader ==
    /\ \/ client = "connecting" /\ pc[Hello] \in Settled \ {"ok"}
       \/ client = "up" /\ pc[Stop] \in Settled \ {"cancelled"}
       \/ client = "up" /\ phase = "ended" /\ pc[Stop] \in {"idle", "cancelled"}
    /\ client' = "closing"
    /\ reader' = IF reader = "running" THEN "stopped" ELSE reader
    /\ UNCHANGED <<pc, kind, pending, initialized, events, cut, toHelper, toClient, helperVars>>

\* Mutant: disposal forgets the calls that wait.
CancelPendingForgets ==
    /\ client = "closing"
    /\ client' = "cleared"
    /\ pending' = {}
    /\ UNCHANGED <<reader, pc, kind, initialized, events, cut, toHelper, toClient, helperVars>>

CancelPending ==
    /\ client = "closing"
    /\ client' = "cleared"
    /\ Abandon
    /\ UNCHANGED <<reader, kind, initialized, events, cut, toHelper, toClient, helperVars>>

CloseStream ==
    /\ client = "cleared"
    /\ client' = "disposed"
    /\ UNCHANGED <<reader, pc, kind, pending, initialized, events, cut, toHelper, toClient, helperVars>>

-----------------------------------------------------------------------------
(* The helper: read_frame.  Only bytes that follow a length count as JSON;     *)
(* JSON text in the place of a length is far above MAX_FRAME_SIZE.              *)

End(o) ==
    /\ phase' = "ended" /\ outcome' = o
    /\ partial' = None /\ serving' = None
    /\ UNCHANGED <<seen, identity, published, cursor, dropped>>

Reading == phase # "ended" /\ serving = None

ReadHeader ==
    /\ Reading /\ partial = None /\ toHelper # <<>> /\ Head(toHelper).part = "header"
    /\ partial' = Head(toHelper).of
    /\ toHelper' = Tail(toHelper)
    /\ UNCHANGED <<clientVars, toClient, phase, outcome, serving, seen, identity, published, cursor, dropped, served>>

\* Mutant: the length read is not forgotten with its frame.
ReadBodyKeepsLength ==
    /\ Reading /\ partial # None /\ toHelper # <<>> /\ Head(toHelper) = Body(partial)
    /\ serving' = partial
    /\ toHelper' = Tail(toHelper)
    /\ UNCHANGED <<clientVars, toClient, phase, outcome, partial, seen, identity, published, cursor, dropped, served>>

ReadBody ==
    /\ Reading /\ partial # None /\ toHelper # <<>> /\ Head(toHelper) = Body(partial)
    /\ serving' = partial /\ partial' = None
    /\ toHelper' = Tail(toHelper)
    /\ UNCHANGED <<clientVars, toClient, phase, outcome, seen, identity, published, cursor, dropped, served>>

InvalidLength ==
    /\ Reading /\ partial = None /\ toHelper # <<>> /\ Head(toHelper).part = "body"
    /\ End("frame")
    /\ UNCHANGED <<clientVars, toHelper, toClient, served>>

\* What follows the length belongs to another frame: it either completes a text
\* that is not JSON, or is too short and read_exact waits for more.
Garbled ==
    /\ Reading /\ partial # None /\ toHelper # <<>> /\ Head(toHelper) # Body(partial)
    /\ \/ End("frame") /\ UNCHANGED toHelper
       \/ /\ toHelper' = Tail(toHelper)
          /\ UNCHANGED <<phase, outcome, partial, serving, seen, identity, published, cursor, dropped>>
    /\ UNCHANGED <<clientVars, toClient, served>>

EndOfStream ==
    /\ Reading /\ client = "disposed" /\ toHelper = <<>>
    /\ End(IF partial = None THEN "peer" ELSE "frame")
    /\ UNCHANGED <<clientVars, toHelper, toClient, served>>

-----------------------------------------------------------------------------
(* The helper: the session *)

Answer(c, r) ==
    /\ toClient' = Append(toClient, Reply(c, r))
    /\ served' = [served EXCEPT ![c] = r]
    /\ UNCHANGED <<clientVars, toHelper>>

HandshakeTimeout ==
    /\ phase = "handshake" /\ serving = None
    /\ End("timeout")
    /\ UNCHANGED <<clientVars, toHelper, toClient, served>>

\* The version, the token and the client's name are accepted or refused.
Handshake ==
    /\ phase = "handshake" /\ serving # None
    /\ \/ /\ kind[serving] = "hello"
          /\ Answer(serving, "ok")
          /\ phase' = "open" /\ serving' = None
          /\ seen' = {serving} /\ cursor' = published
          /\ UNCHANGED <<outcome, partial, identity, published, dropped>>
       \/ Answer(serving, "error") /\ End("refused")

Continue == phase = "open" /\ phase' = phase /\ outcome' = outcome /\ partial' = partial
            /\ serving' = None /\ UNCHANGED <<cursor, dropped>>

Record == seen' = seen \cup {serving}

Publish == published' \in {n \in {published, published + 1} : n <= MaxEvents}

Handling == phase = "open" /\ serving # None
Recordable == Handling /\ kind[serving] # "malformed" /\ Cardinality(seen) < RequestLimit /\ serving \notin seen

\* Another protocol version or an unprintable id: refused before it is recorded.
\* The same for an id already seen.
RefuseMalformed ==
    /\ Handling /\ (kind[serving] = "malformed" \/ (Cardinality(seen) < RequestLimit /\ serving \in seen))
    /\ Answer(serving, "error")
    /\ Continue /\ UNCHANGED <<seen, identity, published>>

RefuseAtLimit ==
    /\ Handling /\ kind[serving] # "malformed" /\ Cardinality(seen) >= RequestLimit
    /\ Answer(serving, "error")
    /\ End("limit")

\* A key that does not decode, or a room before an identity.
Refuse ==
    /\ Recordable
    /\ kind[serving] = "identity" \/ (kind[serving] = "enter" /\ ~identity)
    /\ Answer(serving, "error")
    /\ Continue /\ Record /\ UNCHANGED <<identity, published>>

InitializeIdentity ==
    /\ Recordable /\ kind[serving] = "identity"
    /\ identity' = TRUE
    /\ Answer(serving, "ok")
    /\ Continue /\ Record /\ UNCHANGED published

\* room.create and room.join, and the requests that need no identity.  The room
\* may publish events and may refuse, as the session does with an unknown type.
RoomRequest ==
    /\ Recordable
    /\ kind[serving] = "query" \/ (kind[serving] = "enter" /\ identity)
    /\ \E r \in {"ok", "error"} : Answer(serving, r)
    /\ Publish
    /\ Continue /\ Record /\ UNCHANGED identity

AcceptShutdown ==
    /\ Recordable /\ kind[serving] = "shutdown"
    /\ Answer(serving, "ok")
    /\ End("shutdown")

\* Another arm of the select! completes: the read under way is dropped.
DropRead ==
    /\ phase = "open" /\ serving = None
    /\ partial' = None /\ dropped' = (dropped \/ partial # None)
    /\ UNCHANGED <<clientVars, toHelper, phase, outcome, serving, seen, identity, served>>

Tick ==
    /\ DropRead
    /\ Publish
    /\ UNCHANGED <<toClient, cursor>>

\* Mutant: a receiver that lags starts again with what is published next.
ForwardEventResubscribes ==
    /\ DropRead
    /\ cursor < published
    /\ IF published - cursor > BusCap
       THEN cursor' = published /\ UNCHANGED toClient
       ELSE cursor' = cursor + 1 /\ toClient' = Append(toClient, Event(cursor + 1))
    /\ UNCHANGED published

\* recv: a receiver that has fallen behind the capacity is moved to the oldest
\* event that is left; otherwise the next event is written.
ForwardEvent ==
    /\ DropRead
    /\ cursor < published
    /\ IF published - cursor > BusCap
       THEN cursor' = published - BusCap /\ UNCHANGED toClient
       ELSE cursor' = cursor + 1 /\ toClient' = Append(toClient, Event(cursor + 1))
    /\ UNCHANGED published

\* The process ends by itself.
HelperDies ==
    /\ phase # "ended"
    /\ End("crash")
    /\ UNCHANGED <<clientVars, toHelper, toClient, served>>

-----------------------------------------------------------------------------
ClientStep ==
    \/ \E c \in Calls : WriteHeader(c) \/ WriteBody(c) \/ WriteFails(c)
    \/ ReceiveReply \/ ReceiveEvent \/ Pump \/ ReaderFails
    \/ StopReader \/ CancelPending \/ CloseStream

ReadStep == ReadHeader \/ ReadBody \/ InvalidLength \/ Garbled \/ EndOfStream

Handle ==
    \/ Handshake \/ RefuseMalformed \/ RefuseAtLimit \/ Refuse
    \/ InitializeIdentity \/ RoomRequest \/ AcceptShutdown

Next ==
    \/ Connect \/ Shutdown
    \/ \E c \in Ops : Operate(c)
    \/ \E c \in Calls : Cancel(c)
    \/ ClientStep \/ ReaderCancelled
    \/ ReadStep \/ Handle \/ HandshakeTimeout
    \/ Tick \/ ForwardEvent \/ HelperDies

Spec == Init /\ [][Next]_vars

\* The runtime runs what is ready; select! takes the ready arms in random order;
\* every request is handled in bounded time.  Callers, tokens (a caller's and the
\* reader's) and crashes are free.
FairSpec ==
    /\ Spec
    /\ \A c \in Calls : WF_vars(WriteHeader(c) \/ WriteBody(c) \/ WriteFails(c))
    /\ WF_vars(ReceiveReply \/ ReceiveEvent) /\ WF_vars(Pump) /\ WF_vars(ReaderFails)
    /\ WF_vars((pc[Stop] # "cancelled" /\ StopReader) \/ CancelPending \/ CloseStream)
    /\ WF_vars(ReadStep) /\ WF_vars(Handle) /\ WF_vars(ForwardEvent)
-----------------------------------------------------------------------------
(* Properties *)

\* Types; the client's event channel stays within its capacity.
TypeOK ==
    /\ client \in {"connecting", "up", "closing", "cleared", "disposed"}
    /\ reader \in {"running", "failed", "stopped", "cancelled"}
    /\ pc \in [Calls -> Open \cup Settled \cup {"idle"}]
    /\ kind \in [Calls -> Kinds]
    /\ pending \subseteq Calls
    /\ initialized \in BOOLEAN /\ cut \in BOOLEAN /\ dropped \in BOOLEAN /\ identity \in BOOLEAN
    /\ channel \in Seq(0..MaxEvents) /\ Len(channel) <= EventCap
    /\ pumped \in 0..MaxEvents /\ late \in Nat /\ published \in 0..MaxEvents /\ cursor \in 0..published
    /\ toHelper \in Seq(Parts)
    /\ toClient \in Seq([type : {"reply"}, of : Calls, res : {"ok", "error"}]
                        \cup [type : {"event"}, seq : 1..MaxEvents])
    /\ phase \in {"handshake", "open", "ended"}
    /\ outcome \in {"none", "shutdown", "peer", "limit", "refused", "timeout", "frame", "crash"}
    /\ partial \in Calls \cup {None} /\ serving \in Calls \cup {None}
    /\ seen \subseteq Calls
    /\ served \in [Calls -> {"no", "ok", "error"}]

\* A call as its caller sees it.
AsSeen(s) == CASE s \in Open -> "open"
               [] s \in {"failed", "cancelled"} -> "lost"
               [] OTHER -> s

CallView == [c \in Calls |-> AsSeen(pc[c])]

RR == INSTANCE RequestReply WITH call <- CallView

\* With cancelled calls, late answers, broken frames and crashes, a request is
\* served at most once and whoever gets an answer gets the one to its own request
\* (the id match of ReadLoopAsync, HelperIpcClient.cs:191).
ServesCalls == RR!CallSpec

\* The gateway enters a room without sending the identity again only when this
\* session of the helper has it (HelperRoomGateway.cs:112, session.rs:221), also
\* after an initialisation that was cancelled, answered late or refused.
InitializedHasIdentity == initialized /\ phase = "open" => identity

\* Lagging on the helper's bus and the full channel of the client lose old events,
\* never the newest: once everything published has been passed on, the pump has
\* seen the last one (session.rs:154, HelperIpcClient.cs:24).  Only late answers,
\* which share the channel, can push it out, and it takes a channel full of them.
NewestEventArrives ==
    /\ initialized /\ phase = "open" /\ reader = "running"
    /\ cursor = published /\ channel = <<>> /\ late < EventCap
    /\ \A i \in 1..Len(toClient) : toClient[i].type = "reply"
    => pumped = published

\* A session ends with a framing error only after a cancelled write cut a frame, a
\* select! dropped a read that had begun, or the client closed the stream; it ends
\* as disconnected only when the client is gone, and at the limit of request ids
\* only when they are used up (session.rs:126-163, framing.rs:30-55).
EndsForAReason ==
    /\ outcome = "frame" => cut \/ dropped \/ client = "disposed"
    /\ outcome = "peer" => client = "disposed"
    /\ outcome = "limit" => Cardinality(seen) >= RequestLimit

\* Whatever becomes of the helper, in the end no call is left open (SendAsync has no
\* timeout of its own, HelperIpcClient.cs:123) but one begun on a client whose disposal
\* has already failed the pending calls, unless a cancelled write has cut a frame on
\* this stream or the host has ended the reader.
CallsSettle ==
    <>[](\/ cut \/ reader = "cancelled"
         \/ \A c \in Calls : pc[c] \in Open => client = "disposed" /\ c \in pending)

\* docs/security.md:27, "3 秒内未退出则取消宿主进程任务并终止进程树": stopping the helper
\* comes to its end even if the helper does not, as long as the host keeps the reader
\* running.  It does so only after the shutdown request has been answered or has failed.
StopEnds == (pc[Stop] \in Open) ~> (pc[Stop] \in Settled \/ reader = "cancelled")
===============================================================================

---------------------- MODULE TerracottaControllerProofs ----------------------
(* Theorems about TerracottaController, for any number of waiting operations    *)
(* and any capacity of the event channels: a waiting room can go on, nothing    *)
(* but a cancellation leaves a transient state behind, and no operation hides a *)
(* room of the helper behind an idle controller.                                *)
EXTENDS TerracottaController, TLAPS

-----------------------------------------------------------------------------
(* The inductive invariant *)

Responses == {"none", "ok", "error", "cancelled", "Idle", "Active", "Faulted"}

Operations == {"none", "create", "join", "leave", "close", "refresh", "diagnose", "recover"}

Gates == [op : Operations, at : {"none", "begin", "call", "stop", "answer", "persist"},
          resp : Responses, prev : States]

\* The gate's record: which operations have which stages.
GateShape ==
    /\ gate \in Gates
    /\ gate.at = "stop" => gate.op \in {"close", "leave", "recover"}
    /\ gate.op = "close" => gate.at = "stop"
    /\ gate.at = "begin" => gate.op = "leave" /\ gate.resp = "none"
    /\ gate.at = "persist" => gate.op \in {"create", "join"}

\* A room that was made is no longer in the making while its session is stored.
MadeIsSettled == gate.at = "persist" => sm \notin Transient

\* A leave that has succeeded has stopped the helper.
LeftIsOff == gate.op = "leave" /\ gate.at = "answer" /\ gate.resp = "ok" => helper = "off"

\* What has to be shown of a step besides its types.
Safety == WaitingIsResumable /\ MadeIsSettled /\ LeftIsOff

IInv == TypeOK /\ GateShape /\ Safety

-----------------------------------------------------------------------------
(* States, operations and the event channel *)

\* The states of the room.
LEMMA StatesAre ==
    States = {"Idle", "WaitingForGame", "WaitingForLan", "Creating", "Joining", "Connected",
              "Reconnecting", "Leaving", "Faulted", "Diagnosing"}
BY DEF States, AllowedTransitions

\* The operation a transient state belongs to.
LEMMA OwnerFacts ==
    /\ Owner("Creating") = "create" /\ Owner("Joining") = "join"
    /\ Owner("Leaving") = "leave" /\ Owner("Diagnosing") = "diagnose"
    /\ Transient = {"Creating", "Joining", "Leaving", "Diagnosing"}
<1>1. Owner("Creating") = "create"
  BY DEF Owner
<1>2. Owner("Joining") = "join"
  BY DEF Owner
<1>3. Owner("Leaving") = "leave"
  BY DEF Owner
<1>4. Owner("Diagnosing") = "diagnose"
  BY DEF Owner
<1> QED
  BY <1>1, <1>2, <1>3, <1>4 DEF Transient

\* The free gate, and an operation that has just passed it.
LEMMA GateFacts ==
    /\ NoOp \in Gates /\ NoOp.op = "none" /\ NoOp.at = "none" /\ NoOp.resp = "none"
    /\ \A o \in {"create", "join", "leave", "close", "refresh", "diagnose", "recover"},
         a \in {"begin", "call", "stop"}, p \in States :
           /\ Inside(o, a, p) \in Gates /\ Inside(o, a, p).op = o /\ Inside(o, a, p).at = a
           /\ Inside(o, a, p).resp = "none" /\ Inside(o, a, p).prev = p
    /\ \A g \in Gates : /\ g.op \in Operations
                         /\ g.at \in {"none", "begin", "call", "stop", "answer", "persist"}
                         /\ g.resp \in Responses /\ g.prev \in States
BY StatesAre DEF NoOp, Inside, Gates, Responses, Operations

\* An answer changes nothing else of the operation.
LEMMA ReplyFacts ==
    ASSUME gate \in Gates, NEW r \in Responses, Reply(r)
    PROVE  /\ gate' \in Gates /\ gate'.op = gate.op /\ gate'.at = "answer"
           /\ gate'.resp = r /\ gate'.prev = gate.prev
BY DEF Gates, Reply

\* A channel of events within its capacity.
Channel(q) == q \in Seq(Events) /\ Len(q) <= MaxPushes

\* The empty channel.
LEMMA EmptyFacts == Channel(<<>>)
<1>1. <<>> \in Seq(Events) /\ Len(<<>>) = 0
  OBVIOUS
<1> QED
  BY <1>1, BoundsAssumption DEF Channel

\* Taking an event out of a channel.
LEMMA TakeFacts ==
    ASSUME NEW q, Channel(q), q # <<>>
    PROVE  /\ Channel(Tail(q)) /\ Tail(q) \in Seq(Events)
           /\ Len(Tail(q)) = Len(q) - 1 /\ Len(q) \in Nat
<1>1. Tail(q) \in Seq(Events) /\ Len(Tail(q)) = Len(q) - 1 /\ Len(q) \in Nat
  BY DEF Channel
<1> QED
  BY <1>1, BoundsAssumption DEF Channel

\* The event channel drops its oldest entry and stays within its capacity.
LEMMA EnqueueFacts ==
    ASSUME NEW q, Channel(q), NEW e \in Events
    PROVE  Channel(Enqueue(q, e))
<1>1. MaxPushes \in Nat \ {0} /\ q \in Seq(Events) /\ Len(q) <= MaxPushes
  BY BoundsAssumption DEF Channel
<1>2. CASE Len(q) < MaxPushes
  <2>1. Append(q, e) \in Seq(Events) /\ Len(Append(q, e)) = Len(q) + 1 /\ Len(q) \in Nat
    BY <1>1
  <2> QED
    BY <1>1, <1>2, <2>1 DEF Enqueue, Channel
<1>3. CASE ~(Len(q) < MaxPushes)
  <2>1. Enqueue(q, e) = Append(Tail(q), e) /\ q # <<>>
    BY <1>1, <1>3 DEF Enqueue
  <2>2. Tail(q) \in Seq(Events) /\ Len(Tail(q)) = Len(q) - 1 /\ Len(q) \in Nat
    BY <2>1, TakeFacts
  <2>3. Append(Tail(q), e) \in Seq(Events) /\ Len(Append(Tail(q), e)) = Len(Tail(q)) + 1
    BY <2>2
  <2> QED
    BY <1>1, <2>1, <2>2, <2>3 DEF Channel
<1> QED
  BY <1>2, <1>3

-----------------------------------------------------------------------------
(* Types *)

\* The types in groups: the controller, the gate and its queue, the helper's side.
ControlTypes ==
    /\ sm \in States /\ snap \in States
    /\ pending \in {"none", "any", "session"}
    /\ recovery \in BOOLEAN /\ poll \in {"off", "on", "dead"}

QueueTypes ==
    /\ waiting \subseteq {"create", "refresh", "task", "recover"}
    /\ restarting \in BOOLEAN

GateTypes == GateShape /\ (gate.op = "none" => gate = NoOp)

OutsideTypes ==
    /\ helper \in {"off", "Idle", "Active", "Faulted"}
    /\ Channel(pushes) /\ Channel(late)
    /\ exit \in BOOLEAN

\* The types are their groups.
LEMMA Groups ==
    TypeOK /\ GateShape <=> ControlTypes /\ QueueTypes /\ GateTypes /\ OutsideTypes
BY GateFacts
   DEF TypeOK, ControlTypes, QueueTypes, GateTypes, GateShape, OutsideTypes, Channel, Operations


\* The first part of an operation, between the gate and the helper.
LEMMA EnterEffect ==
    ASSUME TypeOK, GateShape, NEW o, Enter(o)
    PROVE  /\ gate = NoOp /\ waiting' \in {waiting, waiting \ {o}}
           /\ UNCHANGED <<restarting, helper, pushes, late, exit>>
           /\ \/ sm' = "Faulted" /\ gate' = NoOp
              \/ sm' = "WaitingForGame" /\ pending' = "any" /\ gate' = NoOp
              \/ sm' = "WaitingForLan" /\ pending' = "session" /\ gate' = NoOp
              \/ sm' = "Creating" /\ gate' = Inside("create", "call", "Idle")
              \/ sm' = "Joining" /\ gate' = Inside("join", "call", "Idle")
              \/ sm' = sm /\ gate' = Inside("leave", "begin", "Idle")
              \/ /\ sm' = sm /\ pending' = pending
                 /\ gate' \in {Inside("refresh", "call", "Idle"), Inside("recover", "stop", "Idle")}
              \/ sm' = "Diagnosing" /\ gate' = Inside("diagnose", "call", sm)
           /\ ControlTypes' /\ GateTypes'
<1>1. ControlTypes /\ GateTypes
  BY Groups
<1>2. /\ gate = NoOp /\ waiting' \in {waiting, waiting \ {o}}
      /\ UNCHANGED <<restarting, helper, pushes, late, exit>>
  BY DEF Enter, outside
<1>3. CASE EnterCreate
  <2>1. ControlTypes'
    BY <1>1, <1>3, StatesAre DEF EnterCreate, ControlTypes, Settled, Fault, Move, Show
  <2>2. \/ sm' = "Faulted" /\ gate' = NoOp
        \/ sm' = "WaitingForGame" /\ pending' = "any" /\ gate' = NoOp
        \/ sm' = "WaitingForLan" /\ pending' = "session" /\ gate' = NoOp
        \/ sm' = "Creating" /\ gate' = Inside("create", "call", "Idle")
    BY <1>3 DEF EnterCreate, Fault, Move, Release
  <2> QED
    BY <1>1, <1>2, <2>1, <2>2, GateFacts, StatesAre DEF GateTypes, GateShape
<1>4. CASE EnterJoin
  <2>1. ControlTypes'
    BY <1>1, <1>4, StatesAre DEF EnterJoin, ControlTypes, Settled, Fault, Move, Show
  <2>2. \/ sm' = "Faulted" /\ gate' = NoOp
        \/ sm' = "Joining" /\ gate' = Inside("join", "call", "Idle")
    BY <1>4 DEF EnterJoin, Fault, Move, Release
  <2> QED
    BY <1>1, <1>2, <2>1, <2>2, GateFacts, StatesAre DEF GateTypes, GateShape
<1>5. CASE EnterLeave
  <2>1. ControlTypes' /\ sm' = sm /\ gate' = Inside("leave", "begin", "Idle")
    BY <1>1, <1>5 DEF EnterLeave, ControlTypes
  <2> QED
    BY <1>1, <1>2, <2>1, GateFacts, StatesAre DEF GateTypes, GateShape
<1>6. CASE EnterRefresh \/ EnterRecover
  <2>1. ControlTypes' /\ sm' = sm /\ pending' = pending
    BY <1>1, <1>6 DEF EnterRefresh, EnterRecover, control, ControlTypes
  <2>2. gate' = Inside("refresh", "call", "Idle") \/ gate' = Inside("recover", "stop", "Idle")
    BY <1>6 DEF EnterRefresh, EnterRecover
  <2> QED
    BY <1>1, <1>2, <2>1, <2>2, GateFacts, StatesAre DEF GateTypes, GateShape
<1>7. CASE EnterDiagnose
  <2>1. ControlTypes'
    BY <1>1, <1>7, StatesAre DEF EnterDiagnose, ControlTypes, Settled, Fault, Move, Show
  <2>2. \/ sm' = "Faulted" /\ gate' = NoOp
        \/ sm' = "Diagnosing" /\ gate' = Inside("diagnose", "call", sm)
    BY <1>7 DEF EnterDiagnose, Fault, Move, Release
  <2> QED
    BY <1>1, <1>2, <2>1, <2>2, GateFacts, StatesAre DEF GateTypes, GateShape, ControlTypes
<1> QED
  BY <1>3, <1>4, <1>5, <1>6, <1>7 DEF Enter

\* A leave decides by the state it finds: it ends, closes the helper or calls it.
LEMMA DecideEffect ==
    ASSUME TypeOK, GateShape, LeaveDecides
    PROVE  /\ gate.op = "leave" /\ gate.at = "begin"
           /\ UNCHANGED <<pending, recovery, poll, waiting, restarting, helper, pushes, late, exit>>
           /\ \/ sm = "Idle" /\ sm' = sm /\ gate' = NoOp
              \/ sm' = "Idle" /\ gate' = Inside("close", "stop", "Idle")
              \/ sm' = "Leaving" /\ gate' = Inside("leave", "call", "Idle")
              \/ sm # "Leaving" /\ sm' = "Faulted" /\ gate' = NoOp
           /\ ControlTypes' /\ GateTypes'
<1>1. ControlTypes /\ GateTypes
  BY Groups
<1>2. /\ gate.op = "leave" /\ gate.at = "begin"
      /\ UNCHANGED <<pending, recovery, poll, waiting, restarting, helper, pushes, late, exit>>
  BY DEF LeaveDecides, Settled, outside, GateShape
<1>3. /\ \/ sm = "Idle" /\ sm' = sm /\ gate' = NoOp
         \/ sm' = "Idle" /\ gate' = Inside("close", "stop", "Idle")
         \/ sm' = "Leaving" /\ gate' = Inside("leave", "call", "Idle")
         \/ sm # "Leaving" /\ sm' = "Faulted" /\ gate' = NoOp
      /\ snap' \in {snap, sm'}
  BY DEF LeaveDecides, Release, Move, Show, Fault, CanTransition
<1>4. ControlTypes'
  BY <1>1, <1>2, <1>3, StatesAre DEF ControlTypes
<1> QED
  BY <1>2, <1>3, <1>4, GateFacts, StatesAre DEF GateTypes, GateShape

\* A helper that is started gets a new pump; the old one's rest is bounded by its channel.
LEMMA WakeFacts ==
    ASSUME OutsideTypes
    PROVE  /\ Channel(Fresh) /\ Woken \in {"Idle", "Active", "Faulted"}
           /\ Woken = "Active" <=> helper = "Active"
           /\ Wake => Channel(late')
           /\ Retire => Channel(late')
<1>1. /\ Channel(pushes) /\ Channel(late) /\ Channel(<<>>)
      /\ helper \in {"off", "Idle", "Active", "Faulted"}
  BY EmptyFacts DEF OutsideTypes
<1>2. Retire => late' = late \/ late' = pushes
  BY DEF Retire
<1>3. Wake => late' = late \/ late' = pushes
  BY <1>2 DEF Wake
<1>4. Channel(Fresh)
  BY <1>1 DEF Fresh
<1>5. Woken \in {"Idle", "Active", "Faulted"} /\ (Woken = "Active" <=> helper = "Active")
  BY <1>1 DEF Woken
<1>6. ASSUME late' = late \/ late' = pushes PROVE Channel(late')
  <2>1. CASE late' = late
    BY <1>1, <2>1 DEF Channel
  <2>2. CASE late' = pushes
    BY <1>1, <2>2 DEF Channel
  <2> QED
    BY <1>6, <2>1, <2>2
<1> QED
  BY <1>2, <1>3, <1>4, <1>5, <1>6

\* An answer of the helper, and what it leaves alone.
LEMMA ServeEffect ==
    ASSUME TypeOK, GateShape, Serve
    PROVE  /\ gate.at = "call" /\ gate'.op = gate.op /\ gate'.prev = gate.prev
           /\ \/ gate'.at = "answer"
              \/ gate.op = "leave" /\ gate'.at = "stop"
           /\ gate.op = "leave" /\ gate'.at = "answer" => gate'.resp = "error"
           /\ helper' = "Active" => helper = "Active" \/ gate.op \in {"create", "join", "recover"}
           /\ UNCHANGED <<sm, snap, pending, recovery, poll, waiting, restarting, exit>>
           /\ GateTypes' /\ OutsideTypes'
<1>1. GateTypes /\ OutsideTypes /\ gate \in Gates /\ gate.op # "none"
  BY Groups, GateFacts DEF GateShape, GateTypes, Serve
<1>2. gate.at = "call" /\ gate.op # "close"
      /\ UNCHANGED <<sm, snap, pending, recovery, poll, waiting, restarting, exit>>
  BY <1>1 DEF Serve, control, GateShape, GateTypes
<1>3. ASSUME NEW r \in Responses, Reply(r)
      PROVE  /\ GateTypes' /\ gate'.op = gate.op /\ gate'.prev = gate.prev
             /\ gate'.at = "answer" /\ gate'.resp = r
  BY <1>1, <1>2, <1>3, ReplyFacts DEF GateTypes, GateShape
<1>4. /\ Channel(Fresh) /\ Woken \in {"Idle", "Active", "Faulted"}
      /\ Woken = "Active" <=> helper = "Active"
      /\ Wake => Channel(late')
  BY <1>1, WakeFacts
<1>5. {"ok", "error", "Idle", "Active", "Faulted"} \subseteq Responses
      /\ "Connected" \in Events /\ "Idle" \in Events
  BY DEF Responses, Events, Linked
<1>6. Channel(Enqueue(Fresh, "Connected")) /\ Channel(Enqueue(Fresh, "Idle"))
  BY <1>4, <1>5, EnqueueFacts
<1>7. exit' \in BOOLEAN /\ exit \in BOOLEAN
  BY <1>1, <1>2 DEF OutsideTypes
<1>8. ASSUME Channel(late'), helper' \in {"off", "Idle", "Active", "Faulted"},
             pushes' \in {Fresh, Enqueue(Fresh, "Connected"), Enqueue(Fresh, "Idle")}
      PROVE  OutsideTypes'
  <2>1. Channel(pushes')
    BY <1>4, <1>6, <1>8
  <2> QED
    BY <1>7, <1>8, <2>1 DEF OutsideTypes, Channel
<1>9. ASSUME UNCHANGED <<helper, pushes, late>>
      PROVE  OutsideTypes'
  BY <1>1, <1>7, <1>9 DEF OutsideTypes, Channel
<1>10. CASE ServeNothing
  BY <1>2, <1>3, <1>5, <1>9, <1>10 DEF ServeNothing
<1>11. CASE ServeRoom
  <2>1. CASE Wake /\ Reply("ok") /\ helper' = "Active" /\ pushes' = Enqueue(Fresh, "Connected")
    BY <1>2, <1>3, <1>4, <1>5, <1>8, <1>11, <2>1 DEF ServeRoom
  <2>2. CASE Wake /\ Reply("error") /\ helper' \in {"Idle", "Faulted"} /\ pushes' = Fresh
    BY <1>2, <1>3, <1>4, <1>5, <1>8, <1>11, <2>2 DEF ServeRoom
  <2>3. CASE Reply("error") /\ UNCHANGED <<helper, pushes, late>>
    BY <1>2, <1>3, <1>5, <1>9, <1>11, <2>3 DEF ServeRoom
  <2> QED
    BY <1>11, <2>1, <2>2, <2>3 DEF ServeRoom
<1>12. CASE ServeLeave
  <2>1. CASE helper' = "Idle" /\ pushes' = Enqueue(Fresh, "Idle") /\ gate' = [gate EXCEPT !.at = "stop"]
    <3>1. OutsideTypes'
      BY <1>4, <1>8, <1>12, <2>1 DEF ServeLeave
    <3>2. gate' \in Gates /\ gate'.op = gate.op /\ gate'.prev = gate.prev /\ gate'.at = "stop"
      BY <1>1, <2>1 DEF Gates
    <3> QED
      BY <1>1, <1>2, <1>12, <2>1, <3>1, <3>2 DEF ServeLeave, GateTypes, GateShape
  <2>2. CASE helper' = "Faulted" /\ pushes' = Fresh /\ Reply("error")
    BY <1>2, <1>3, <1>4, <1>5, <1>8, <1>12, <2>2 DEF ServeLeave
  <2> QED
    BY <1>12, <2>1, <2>2 DEF ServeLeave
<1>13. CASE ServeStatus \/ ServeDiagnose
  <2>1. /\ helper' \in {"Idle", "Active", "Faulted"} /\ (helper' = "Active" => helper = "Active")
        /\ pushes' = Fresh /\ Wake /\ gate.op \in {"refresh", "diagnose"}
    BY <1>4, <1>13 DEF ServeStatus, ServeDiagnose
  <2>2. \E r \in {"ok", "error", "Idle", "Active", "Faulted"} : Reply(r)
    BY <1>4, <1>13 DEF ServeStatus, ServeDiagnose
  <2>3. OutsideTypes'
    BY <1>4, <1>8, <2>1
  <2> QED
    BY <1>2, <1>3, <1>5, <2>1, <2>2, <2>3
<1> QED
  BY <1>10, <1>11, <1>12, <1>13 DEF Serve

\* The helper is stopped.
LEMMA StopHelperEffect ==
    ASSUME OutsideTypes, StopHelper
    PROVE  helper' = "off" /\ OutsideTypes'
<1>1. helper' = "off" /\ pushes' = <<>> /\ Retire /\ exit' \in {exit, FALSE} /\ exit \in BOOLEAN
  BY DEF StopHelper, OutsideTypes
<1>2. Channel(late') /\ Channel(pushes')
  BY <1>1, WakeFacts, EmptyFacts
<1>3. exit' \in BOOLEAN
  BY <1>1
<1> QED
  BY <1>1, <1>2, <1>3 DEF OutsideTypes, Channel

\* Stopping the helper on the way of an operation.
LEMMA StopEffect ==
    ASSUME TypeOK, GateShape, GateStops \/ StopThrows
    PROVE  /\ gate.at = "stop" /\ gate.op \in {"close", "leave", "recover"} /\ helper' = "off"
           /\ \/ gate.op = "close" /\ gate' = NoOp /\ sm' = sm
              \/ /\ gate.op # "close" /\ gate'.op = gate.op
                 /\ gate'.at \in {"call", "answer"} /\ sm' = sm
              \/ sm' = "Faulted" /\ gate' = NoOp
           /\ UNCHANGED <<pending, poll, waiting, restarting>>
           /\ ControlTypes' /\ GateTypes' /\ OutsideTypes'
<1>1. gate \in Gates /\ ControlTypes /\ OutsideTypes
  BY Groups DEF GateShape
<1>2. /\ gate.at = "stop" /\ gate.op \in {"close", "leave", "recover"} /\ StopHelper
      /\ UNCHANGED <<pending, poll, waiting, restarting>>
  BY DEF GateStops, StopThrows, GateShape, control
<1>3. helper' = "off" /\ OutsideTypes'
  BY <1>1, <1>2, StopHelperEffect
<1>4. CASE StopThrows
  <2>1. sm' = "Faulted" /\ snap' = "Faulted" /\ gate' = NoOp
    BY <1>4 DEF StopThrows, Fault, Move, Show, Release
  <2>2. recovery' \in BOOLEAN
    BY <1>4 DEF StopThrows
  <2>3. ControlTypes'
    BY <1>1, <1>2, <2>1, <2>2, StatesAre DEF ControlTypes
  <2> QED
    BY <1>2, <1>3, <2>1, <2>3, GateFacts DEF GateTypes, GateShape
<1>5. CASE GateStops
  <2>1. ControlTypes' /\ sm' = sm
    BY <1>1, <1>5 DEF GateStops, control, ControlTypes
  <2>2. CASE gate.op = "close"
    <3>1. gate' = NoOp
      BY <1>5, <2>2 DEF GateStops
    <3>2. GateTypes'
      BY <3>1, GateFacts DEF GateTypes, GateShape
    <3> QED
      BY <1>2, <1>3, <2>1, <2>2, <3>1, <3>2
  <2>3. CASE gate.op = "leave"
    <3>1. gate' = [gate EXCEPT !.at = "answer", !.resp = "ok"]
      BY <1>5, <2>3 DEF GateStops
    <3>2. gate' \in Gates /\ gate'.op = gate.op /\ gate'.at = "answer"
      BY <1>1, <3>1 DEF Gates, Responses
    <3> QED
      BY <1>2, <1>3, <2>1, <2>3, <3>2 DEF GateTypes, GateShape
  <2>4. CASE gate.op = "recover"
    <3>1. gate' = [gate EXCEPT !.at = "call"]
      BY <1>5, <2>4 DEF GateStops
    <3>2. gate' \in Gates /\ gate'.op = gate.op /\ gate'.at = "call"
      BY <1>1, <3>1 DEF Gates
    <3> QED
      BY <1>2, <1>3, <2>1, <2>4, <3>2 DEF GateTypes, GateShape
  <2> QED
    BY <1>2, <2>2, <2>3, <2>4
<1> QED
  BY <1>4, <1>5

\* The last part of an operation publishes its result; a room that was made is then
\* stored, every other operation frees the gate.
LEMMA FinishEffect ==
    ASSUME TypeOK, GateShape, Finish
    PROVE  /\ gate.at = "answer" /\ pending' = pending
           /\ UNCHANGED <<waiting, restarting, helper, pushes, late, exit>>
           /\ \/ /\ sm' = "Connected" /\ gate'.op \in {"create", "join"} /\ gate'.at = "persist"
              \/ gate' = NoOp /\ sm' \in {"Connected", "Reconnecting", "Faulted"}
              \/ gate' = NoOp /\ gate.op = "leave" /\ gate.resp = "ok" /\ sm' = "Idle"
              \/ gate' = NoOp /\ gate.op = "refresh" /\ sm' = sm
              \/ /\ gate' = NoOp /\ gate.op = "diagnose" /\ sm' = sm
                 /\ sm = "Diagnosing" => gate.prev = "Diagnosing"
           /\ ControlTypes' /\ GateTypes'
<1>1. ControlTypes /\ gate \in Gates
  BY Groups DEF GateShape
<1>2. gate.at = "answer" /\ UNCHANGED <<waiting, restarting, helper, pushes, late, exit>>
  BY DEF Finish, outside
<1>3. ASSUME gate' = NoOp PROVE GateTypes'
  BY <1>3, GateFacts DEF GateTypes, GateShape
<1>4. CASE FinishRoom
  <2>1. CASE Fault /\ Release /\ Settled
    <3>1. /\ gate' = NoOp /\ sm' = "Faulted" /\ snap' = "Faulted"
          /\ UNCHANGED <<pending, recovery, poll>>
      BY <2>1 DEF Fault, Move, Show, Release, Settled
    <3> QED
      BY <1>1, <1>2, <1>3, <3>1, StatesAre DEF ControlTypes
  <2>2. CASE /\ Move("Connected") /\ recovery' = TRUE /\ poll' = "on"
             /\ gate' = [gate EXCEPT !.at = "persist"] /\ UNCHANGED pending
    <3>1. /\ gate' \in Gates /\ gate'.op = gate.op /\ gate'.at = "persist"
          /\ gate.op \in {"create", "join"}
      BY <1>1, <1>4, <2>2 DEF Gates, FinishRoom
    <3>2. GateTypes'
      BY <3>1 DEF GateTypes, GateShape
    <3>3. ControlTypes' /\ sm' = "Connected" /\ pending' = pending
      BY <1>1, <2>2, StatesAre DEF ControlTypes, Move, Show
    <3> QED
      BY <1>2, <3>1, <3>2, <3>3
  <2> QED
    BY <1>4, <2>1, <2>2 DEF FinishRoom
<1>5. CASE FinishRecover /\ Release
  <2>1. /\ gate' = NoOp /\ pending' = pending
        /\ sm' \in {"Connected", "Faulted"} /\ snap' = sm'
        /\ recovery' \in {FALSE, recovery} /\ poll' \in {"on", poll}
    BY <1>5 DEF FinishRecover, Fault, Move, Show, Release
  <2> QED
    BY <1>1, <1>2, <1>3, <2>1, StatesAre DEF ControlTypes
<1>6. CASE FinishLeave /\ Release
  <2>1. /\ gate' = NoOp /\ gate.op = "leave" /\ UNCHANGED <<pending, recovery, poll>> /\ snap' = sm'
        /\ sm' = "Faulted" \/ (gate.resp = "ok" /\ sm' = "Idle")
    BY <1>6 DEF FinishLeave, Settled, Fault, Move, Show, Release
  <2> QED
    BY <1>1, <1>2, <1>3, <2>1, StatesAre DEF ControlTypes
<1>7. CASE FinishRefresh /\ Release
  <2>1. /\ gate' = NoOp /\ gate.op = "refresh" /\ UNCHANGED <<pending, recovery>>
        /\ poll' \in {"off", poll}
        /\ sm' \in {"Faulted", sm} /\ snap' \in {"Connected", "Reconnecting", "Faulted", sm, snap}
    BY <1>7 DEF FinishRefresh, Fault, Move, Show, Linked, Release
  <2> QED
    BY <1>1, <1>2, <1>3, <2>1, StatesAre DEF ControlTypes
<1>8. CASE FinishDiagnose /\ Release
  <2>1. /\ gate' = NoOp /\ gate.op = "diagnose" /\ UNCHANGED <<pending, recovery, poll>> /\ snap' = sm'
        /\ \/ sm' \in {"Connected", "Reconnecting", "Faulted"}
           \/ sm' = sm /\ (sm = "Diagnosing" => gate.prev = "Diagnosing")
    BY <1>8 DEF FinishDiagnose, Settled, Fault, Move, Show, Release
  <2> QED
    BY <1>1, <1>2, <1>3, <2>1, StatesAre DEF ControlTypes
<1> QED
  BY <1>4, <1>5, <1>6, <1>7, <1>8 DEF Finish

\* Storing the session ends the operation.
LEMMA PersistEffect ==
    ASSUME TypeOK, GateShape, Persist
    PROVE  /\ gate.at = "persist" /\ gate' = NoOp /\ sm' \in {"Faulted", sm}
           /\ UNCHANGED <<pending, waiting, restarting, helper, pushes, late, exit>>
           /\ ControlTypes' /\ GateTypes'
<1>1. ControlTypes
  BY Groups
<1>2. /\ gate.at = "persist" /\ gate' = NoOp
      /\ (sm' = "Faulted" /\ snap' = "Faulted") \/ (sm' = sm /\ snap' = snap)
      /\ UNCHANGED <<pending, recovery, poll, waiting, restarting, helper, pushes, late, exit>>
  BY DEF Persist, Fault, Move, Show, Release, Settled, outside
<1> QED
  BY <1>1, <1>2, GateFacts, StatesAre DEF ControlTypes, GateTypes, GateShape

\* The helper goes away under an operation: restarted by the user, or crashed.
LEMMA LostEffect ==
    ASSUME TypeOK, GateShape, RestartHelper \/ HelperCrashes
    PROVE  /\ helper' = "off"
           /\ \/ gate' = gate
              \/ /\ gate.at = "call" /\ gate'.op = gate.op /\ gate'.prev = gate.prev
                 /\ gate'.at = "answer" /\ gate'.resp \in {"error", "cancelled"}
           /\ UNCHANGED <<sm, snap, pending, recovery, poll, waiting>>
           /\ restarting' \in BOOLEAN /\ GateTypes' /\ OutsideTypes'
<1>1. gate \in Gates /\ GateTypes /\ OutsideTypes /\ restarting \in BOOLEAN
  BY Groups DEF GateShape, TypeOK
<1>2. UNCHANGED <<sm, snap, pending, recovery, poll, waiting>> /\ restarting' \in BOOLEAN
  BY <1>1 DEF RestartHelper, HelperCrashes, control
<1>3. helper' = "off" /\ OutsideTypes'
  <2>1. CASE RestartHelper
    BY <1>1, <2>1, StopHelperEffect DEF RestartHelper
  <2>2. CASE HelperCrashes
    BY <1>1, <2>2 DEF HelperCrashes, OutsideTypes, Channel
  <2> QED
    BY <2>1, <2>2
<1>4. CASE gate' = gate
  BY <1>1, <1>2, <1>3, <1>4 DEF GateTypes, GateShape
<1>5. ASSUME NEW r \in {"error", "cancelled"}, gate.at = "call", Reply(r)
      PROVE  /\ gate'.op = gate.op /\ gate'.prev = gate.prev
             /\ gate'.at = "answer" /\ gate'.resp = r /\ GateTypes'
  <2>1. gate.op # "none" /\ gate.op # "close"
    BY <1>1, <1>5, GateFacts DEF GateTypes, GateShape
  <2> QED
    BY <1>1, <1>5, <2>1, ReplyFacts DEF GateTypes, GateShape, Responses
<1> QED
  BY <1>2, <1>3, <1>4, <1>5 DEF RestartHelper, HelperCrashes, Interrupt

\* What the controller does with an event of the helper.
LEMMA HandleEffect ==
    ASSUME NEW e, Handle(e)
    PROVE  /\ poll' \in {"off", "on", poll}
           /\ sm' \in {"Connected", "Reconnecting", "Idle", sm}
           /\ snap' \in {"Connected", "Reconnecting", "Idle", snap, sm'}
           /\ waiting' \in {waiting, waiting \cup {"refresh"}}
<1>1. CASE OnStateChanged(e) /\ UNCHANGED waiting
  BY <1>1 DEF OnStateChanged, Move, Show, Linked
<1>2. CASE OnNetworkUpdated /\ UNCHANGED waiting
  BY <1>2 DEF OnNetworkUpdated, Move, Show, Linked
<1>3. CASE OnPeerEvent
  BY <1>3 DEF OnPeerEvent, Queue
<1> QED
  BY <1>1, <1>2, <1>3 DEF Handle

\* The callbacks that do not wait for the gate.
LEMMA CallbackEffect ==
    ASSUME TypeOK, GateShape,
           \/ JoinMalformed \/ RestartReports \/ OnHelperPushEvent \/ OnHelperProcessExited
    PROVE  /\ UNCHANGED <<gate, pending, recovery, helper>>
           /\ sm' \in {"Connected", "Reconnecting", "Faulted", "Idle", sm}
           /\ OnHelperPushEvent \/ sm' \in {"Reconnecting", "Faulted", sm}
           /\ ControlTypes' /\ QueueTypes' /\ OutsideTypes'
<1>1. ControlTypes /\ QueueTypes /\ OutsideTypes
  BY Groups
<1>2. CASE JoinMalformed
  BY <1>1, <1>2, StatesAre
     DEF JoinMalformed, Fault, Move, Show, ControlTypes, QueueTypes, OutsideTypes, Channel, outside
<1>3. CASE RestartReports
  BY <1>1, <1>3, StatesAre
     DEF RestartReports, Settled, Fault, Move, Show, ControlTypes, QueueTypes, OutsideTypes, Channel, outside
<1>4. CASE OnHelperProcessExited
  <2>1. /\ UNCHANGED <<gate, pending, recovery, helper, pushes, late, restarting>>
        /\ exit' = FALSE /\ waiting' \in {waiting, waiting \cup {"task"}} /\ poll' \in {"off", poll}
        /\ sm' \in {"Reconnecting", "Faulted", sm} /\ snap' \in {"Reconnecting", "Faulted", snap}
    BY <1>4 DEF OnHelperProcessExited, Queue, Fault, Move, Show
  <2>2. OutsideTypes'
    BY <1>1, <2>1 DEF OutsideTypes, Channel
  <2> QED
    BY <1>1, <2>1, <2>2, StatesAre DEF ControlTypes, QueueTypes
<1>5. CASE OnHelperPushEvent
  <2>1. /\ UNCHANGED <<gate, pending, recovery, restarting, helper, exit>>
        /\ \/ pushes # <<>> /\ pushes' = Tail(pushes) /\ late' = late
           \/ late # <<>> /\ late' = Tail(late) /\ pushes' = pushes
        /\ \E e : Handle(e)
    BY <1>5 DEF OnHelperPushEvent
  <2>2. Channel(pushes') /\ Channel(late')
    <3>1. Channel(pushes) /\ Channel(late)
      BY <1>1 DEF OutsideTypes
    <3>2. CASE pushes # <<>> /\ pushes' = Tail(pushes) /\ late' = late
      BY <3>1, <3>2, TakeFacts
    <3>3. CASE late # <<>> /\ late' = Tail(late) /\ pushes' = pushes
      BY <3>1, <3>3, TakeFacts
    <3> QED
      BY <2>1, <3>2, <3>3
  <2>3. OutsideTypes'
    BY <1>1, <2>1, <2>2 DEF OutsideTypes, Channel
  <2>4. /\ poll' \in {"off", "on", poll}
        /\ sm' \in {"Connected", "Reconnecting", "Idle", sm}
        /\ snap' \in {"Connected", "Reconnecting", "Idle", snap, sm'}
        /\ waiting' \in {waiting, waiting \cup {"refresh"}}
    BY <2>1, HandleEffect
  <2> QED
    BY <1>1, <1>5, <2>1, <2>3, <2>4, StatesAre DEF ControlTypes, QueueTypes
<1> QED
  BY <1>2, <1>3, <1>4, <1>5

\* Requests and the helper's own events only fill their queues.
LEMMA QueueEffect ==
    ASSUME TypeOK, GateShape,
           RequestRefresh \/ Resume \/ PollTick \/ RecoverStarts \/ HelperPushes
    PROVE  /\ UNCHANGED <<sm, snap, gate, pending, recovery, restarting, helper, exit>>
           /\ ControlTypes' /\ QueueTypes' /\ OutsideTypes'
<1>1. ControlTypes /\ QueueTypes /\ OutsideTypes
  BY Groups
<1>2. ASSUME UNCHANGED <<helper, pushes, late, exit>> PROVE OutsideTypes'
  BY <1>1, <1>2 DEF OutsideTypes, Channel
<1>3. CASE RequestRefresh
  BY <1>1, <1>2, <1>3 DEF RequestRefresh, Queue, control, outside, ControlTypes, QueueTypes
<1>4. CASE Resume
  BY <1>1, <1>2, <1>4 DEF Resume, Queue, control, outside, ControlTypes, QueueTypes
<1>5. CASE PollTick
  BY <1>1, <1>2, <1>5 DEF PollTick, Queue, outside, ControlTypes, QueueTypes
<1>6. CASE RecoverStarts
  <2>1. waiting' = (waiting \ {"task"}) \cup {"recover"} \/ waiting' = (waiting \ {"task"}) \cup {}
    BY <1>6 DEF RecoverStarts
  <2> QED
    BY <1>1, <1>2, <1>6, <2>1 DEF RecoverStarts, control, outside, ControlTypes, QueueTypes
<1>7. CASE HelperPushes
  <2>1. PICK e \in Events \ {"Idle"} : pushes' = Append(pushes, e)
    BY <1>7 DEF HelperPushes
  <2>2. /\ UNCHANGED <<sm, snap, gate, pending, recovery, poll, waiting, restarting, helper, late, exit>>
        /\ Len(pushes) + Len(late) < MaxPushes
        /\ pushes \in Seq(Events) /\ late \in Seq(Events)
    BY <1>1, <1>7 DEF HelperPushes, control, OutsideTypes, Channel
  <2>3. /\ Append(pushes, e) \in Seq(Events) /\ Len(Append(pushes, e)) = Len(pushes) + 1
        /\ Len(pushes) \in Nat /\ Len(late) \in Nat
    BY <2>1, <2>2
  <2>4. Channel(pushes')
    BY <2>1, <2>2, <2>3, BoundsAssumption DEF Channel
  <2>5. OutsideTypes'
    BY <1>1, <2>2, <2>4 DEF OutsideTypes, Channel
  <2> QED
    BY <1>1, <2>2, <2>5 DEF ControlTypes, QueueTypes
<1> QED
  BY <1>3, <1>4, <1>5, <1>6, <1>7

\* A cancellation frees the gate; it may end the poll loop or stop the helper.
LEMMA CancelEffect ==
    ASSUME TypeOK, GateShape, Cancel
    PROVE  /\ gate' = NoOp /\ UNCHANGED <<sm, snap, pending, recovery, waiting, restarting>>
           /\ ControlTypes' /\ GateTypes' /\ OutsideTypes'
<1>1. ControlTypes /\ OutsideTypes
  BY Groups
<1>2. gate' = NoOp /\ UNCHANGED <<sm, snap, pending, recovery, waiting, restarting>>
  BY DEF Cancel, Release
<1>3. poll' \in {poll, "dead"}
  BY DEF Cancel
<1>4. OutsideTypes'
  <2>1. CASE UNCHANGED outside
    BY <1>1, <2>1 DEF outside, OutsideTypes, Channel
  <2>2. CASE StopHelper
    BY <1>1, <2>2, StopHelperEffect
  <2> QED
    BY <2>1, <2>2 DEF Cancel, outside
<1> QED
  BY <1>1, <1>2, <1>3, <1>4, GateFacts DEF ControlTypes, GateTypes, GateShape

\* Every step keeps the types.
LEMMA NextType ==
    ASSUME TypeOK, GateShape, [Next]_vars
    PROVE  TypeOK' /\ GateShape'
<1>1. ControlTypes /\ QueueTypes /\ GateTypes /\ OutsideTypes
  BY Groups
<1> SUFFICES ControlTypes' /\ QueueTypes' /\ GateTypes' /\ OutsideTypes'
  BY GateFacts
     DEF TypeOK, ControlTypes, QueueTypes, GateTypes, GateShape, OutsideTypes, Channel, Operations
<1>2. ASSUME UNCHANGED gate PROVE GateTypes'
  BY <1>1, <1>2 DEF GateTypes, GateShape
<1>3. ASSUME UNCHANGED <<waiting, restarting>> PROVE QueueTypes'
  BY <1>1, <1>3 DEF QueueTypes
<1>4. ASSUME UNCHANGED <<helper, pushes, late, exit>> PROVE OutsideTypes'
  BY <1>1, <1>4 DEF OutsideTypes, Channel
<1>5. CASE RequestRefresh \/ Resume \/ PollTick \/ RecoverStarts \/ HelperPushes
  BY <1>2, <1>5, QueueEffect
<1>6. CASE JoinMalformed \/ RestartReports \/ OnHelperPushEvent \/ OnHelperProcessExited
  BY <1>2, <1>6, CallbackEffect
<1>7. ASSUME NEW o, Enter(o)
      PROVE  ControlTypes' /\ QueueTypes' /\ GateTypes' /\ OutsideTypes'
  <2>1. /\ ControlTypes' /\ GateTypes' /\ UNCHANGED <<restarting, helper, pushes, late, exit>>
        /\ waiting' \in {waiting, waiting \ {o}}
    BY <1>7, EnterEffect
  <2> QED
    BY <1>1, <1>4, <2>1 DEF QueueTypes
<1>8. CASE LeaveDecides
  BY <1>3, <1>4, <1>8, DecideEffect
<1>9. CASE Serve
  <2>1. /\ GateTypes' /\ OutsideTypes'
        /\ UNCHANGED <<sm, snap, pending, recovery, poll, waiting, restarting>>
    BY <1>9, ServeEffect
  <2> QED
    BY <1>1, <1>3, <2>1 DEF ControlTypes
<1>10. CASE GateStops \/ StopThrows
  BY <1>3, <1>10, StopEffect
<1>11. CASE Finish
  BY <1>3, <1>4, <1>11, FinishEffect
<1>12. CASE Persist
  BY <1>3, <1>4, <1>12, PersistEffect
<1>13. CASE RestartHelper \/ HelperCrashes
  <2>1. /\ GateTypes' /\ OutsideTypes' /\ restarting' \in BOOLEAN
        /\ UNCHANGED <<sm, snap, pending, recovery, poll, waiting>>
    BY <1>13, LostEffect
  <2> QED
    BY <1>1, <2>1 DEF ControlTypes, QueueTypes
<1>14. CASE Cancel
  BY <1>3, <1>14, CancelEffect
<1>15. CASE UNCHANGED vars
  BY <1>1, <1>2, <1>3, <1>4, <1>15 DEF vars, ControlTypes
<1> QED
  BY <1>5, <1>6, <1>7, <1>8, <1>9, <1>10, <1>11, <1>12, <1>13, <1>14, <1>15 DEF Next

-----------------------------------------------------------------------------
(* Safety *)

\* What a step does to the parts the properties read, action by action.
LEMMA StepSafe ==
    ASSUME IInv, Next
    PROVE  Safety'
<1>1. TypeOK /\ GateShape /\ Safety /\ gate \in Gates /\ sm \in States
  BY DEF IInv, GateShape, TypeOK
<1> USE DEF Safety, WaitingIsResumable, MadeIsSettled, LeftIsOff
<1>2. ASSUME NEW o, Enter(o) PROVE Safety'
  <2>1. /\ gate = NoOp
        /\ \/ sm' = "Faulted" /\ gate' = NoOp
           \/ sm' = "WaitingForGame" /\ pending' = "any" /\ gate' = NoOp
           \/ sm' = "WaitingForLan" /\ pending' = "session" /\ gate' = NoOp
           \/ sm' = "Creating" /\ gate' = Inside("create", "call", "Idle")
           \/ sm' = "Joining" /\ gate' = Inside("join", "call", "Idle")
           \/ sm' = sm /\ gate' = Inside("leave", "begin", "Idle")
           \/ /\ sm' = sm /\ pending' = pending
              /\ gate' \in {Inside("refresh", "call", "Idle"), Inside("recover", "stop", "Idle")}
           \/ sm' = "Diagnosing" /\ gate' = Inside("diagnose", "call", sm)
    BY <1>1, <1>2, EnterEffect
  <2> QED
    BY <1>1, <2>1, GateFacts, StatesAre
<1>3. CASE LeaveDecides
  <2>1. \/ sm = "Idle" /\ sm' = sm /\ gate' = NoOp
        \/ sm' = "Idle" /\ gate' = Inside("close", "stop", "Idle")
        \/ sm' = "Leaving" /\ gate' = Inside("leave", "call", "Idle")
        \/ sm' = "Faulted" /\ gate' = NoOp
    BY <1>1, <1>3, DecideEffect
  <2> QED
    BY <1>1, <2>1, GateFacts, StatesAre
<1>4. CASE Serve
  <2>1. /\ gate.at = "call" /\ gate'.op = gate.op
        /\ gate'.at \in {"answer", "stop"}
        /\ gate.op = "leave" /\ gate'.at = "answer" => gate'.resp = "error"
        /\ UNCHANGED <<sm, pending>>
    BY <1>1, <1>4, ServeEffect
  <2> QED
    BY <1>1, <2>1
<1>5. CASE GateStops \/ StopThrows
  <2>1. /\ gate.at = "stop" /\ helper' = "off" /\ pending' = pending
        /\ gate' = NoOp \/ gate'.at \in {"call", "answer"}
        /\ sm' \in {sm, "Faulted"}
    BY <1>1, <1>5, StopEffect
  <2> QED
    BY <1>1, <2>1, GateFacts
<1>6. CASE Finish
  <2>1. /\ gate.at = "answer" /\ pending' = pending
        /\ \/ sm' = "Connected" /\ gate'.op \in {"create", "join"} /\ gate'.at = "persist"
           \/ gate' = NoOp /\ sm' \in {"Connected", "Reconnecting", "Faulted", "Idle", sm}
    BY <1>1, <1>6, FinishEffect
  <2> QED
    BY <1>1, <2>1, GateFacts, OwnerFacts
<1>7. CASE Persist
  <2>1. gate.at = "persist" /\ gate' = NoOp /\ sm' \in {"Faulted", sm} /\ pending' = pending
    BY <1>1, <1>7, PersistEffect
  <2> QED
    BY <1>1, <2>1, GateFacts
<1>8. CASE Cancel
  <2>1. /\ gate' = NoOp /\ UNCHANGED <<sm, pending>>
        /\ gate.at \in {"call", "stop", "persist"} \/ gate.resp = "cancelled"
    BY <1>1, <1>8, CancelEffect DEF Cancel
  <2>2. gate.at # "begin"
    BY <1>1, <2>1 DEF GateShape
  <2> QED
    BY <1>1, <2>1, <2>2, GateFacts
<1>9. CASE RestartHelper \/ HelperCrashes
  <2>1. /\ helper' = "off" /\ UNCHANGED <<sm, pending>>
        /\ gate' = gate \/ (gate.at = "call" /\ gate'.at = "answer")
    BY <1>1, <1>9, LostEffect
  <2> QED
    BY <1>1, <2>1
<1>10. CASE \/ JoinMalformed \/ RestartReports \/ OnHelperPushEvent \/ OnHelperProcessExited
            \/ RequestRefresh \/ Resume \/ PollTick \/ RecoverStarts \/ HelperPushes
  <2>1. /\ UNCHANGED <<gate, pending, helper>>
        /\ sm' \in {"Connected", "Reconnecting", "Faulted", "Idle", sm}
    BY <1>1, <1>10, CallbackEffect, QueueEffect
  <2> QED
    BY <1>1, <2>1, OwnerFacts
<1> QED
  BY <1>2, <1>3, <1>4, <1>5, <1>6, <1>7, <1>8, <1>9, <1>10 DEF Next

\* A transient state is left behind by a cancellation only, or by a diagnosis that
\* found it so.
LEMMA StepOrphans ==
    ASSUME IInv, Next, ~Orphaned, Orphaned'
    PROVE  Cancel \/ (gate.op = "diagnose" /\ gate.prev = "Diagnosing")
<1>1. TypeOK /\ GateShape /\ MadeIsSettled /\ gate \in Gates /\ sm \in States
  BY DEF IInv, Safety, GateShape, TypeOK
<1> USE DEF Orphaned
<1>2. sm' \in {"Creating", "Joining", "Leaving", "Diagnosing"}
  BY OwnerFacts
<1>3. ASSUME sm' = sm, gate'.op = gate.op PROVE FALSE
  BY <1>3
<1>4. ASSUME NEW o, Enter(o) PROVE FALSE
  <2>1. /\ gate = NoOp
        /\ \/ sm' = "Creating" /\ gate' = Inside("create", "call", "Idle")
           \/ sm' = "Joining" /\ gate' = Inside("join", "call", "Idle")
           \/ sm' = sm
           \/ sm' = "Diagnosing" /\ gate' = Inside("diagnose", "call", sm)
    BY <1>1, <1>2, <1>4, EnterEffect
  <2> QED
    BY <1>1, <2>1, GateFacts, OwnerFacts, StatesAre
<1>5. CASE LeaveDecides
  <2>1. sm' = "Leaving" /\ gate' = Inside("leave", "call", "Idle")
    BY <1>1, <1>2, <1>5, DecideEffect
  <2> QED
    BY <2>1, GateFacts, OwnerFacts, StatesAre
<1>6. CASE Serve
  BY <1>1, <1>3, <1>6, ServeEffect
<1>7. CASE GateStops \/ StopThrows
  <2>1. gate.op = "close" /\ gate' = NoOp /\ sm' = sm
    BY <1>1, <1>2, <1>3, <1>7, StopEffect
  <2> QED
    BY <1>2, <2>1, OwnerFacts
<1>8. CASE Finish
  <2>1. CASE gate.op = "refresh" /\ sm' = sm
    BY <1>2, <2>1, OwnerFacts
  <2>2. CASE gate.op = "diagnose" /\ sm' = sm /\ (sm = "Diagnosing" => gate.prev = "Diagnosing")
    BY <1>2, <2>2, OwnerFacts
  <2> QED
    BY <1>1, <1>2, <1>8, <2>1, <2>2, FinishEffect
<1>9. CASE Persist
  BY <1>1, <1>2, <1>9, PersistEffect, OwnerFacts DEF MadeIsSettled
<1>10. CASE RestartHelper \/ HelperCrashes
  BY <1>1, <1>3, <1>10, LostEffect
<1>11. CASE \/ JoinMalformed \/ RestartReports \/ OnHelperPushEvent \/ OnHelperProcessExited
            \/ RequestRefresh \/ Resume \/ PollTick \/ RecoverStarts \/ HelperPushes
  <2>1. UNCHANGED gate /\ sm' \in {"Connected", "Reconnecting", "Faulted", "Idle", sm}
    BY <1>1, <1>11, CallbackEffect, QueueEffect
  <2> QED
    BY <1>2, <1>3, <2>1
<1> QED
  BY <1>4, <1>5, <1>6, <1>7, <1>8, <1>9, <1>10, <1>11 DEF Next

\* A room of the helper gets hidden by an event or a cancellation only.
LEMMA StepHides ==
    ASSUME IInv, Next, ~Hidden, Hidden'
    PROVE  OnHelperPushEvent \/ Cancel
<1>1. TypeOK /\ GateShape /\ LeftIsOff /\ gate \in Gates /\ sm \in States
  BY DEF IInv, Safety, GateShape, TypeOK
<1>2. /\ helper' = "Active" /\ sm' = "Idle"
      /\ gate'.op \in {"none", "refresh", "diagnose"} \/ gate'.at \in {"begin", "persist"}
  BY DEF Hidden
<1>3. ASSUME sm = "Idle", helper = "Active",
             gate.op \in {"none", "refresh", "diagnose"} \/ gate.at \in {"begin", "persist"}
      PROVE  FALSE
  BY <1>3 DEF Hidden
<1>4. ASSUME NEW o, Enter(o) PROVE FALSE
  <2>1. gate = NoOp /\ helper' = helper /\ sm' = sm
    BY <1>1, <1>2, <1>4, EnterEffect
  <2> QED
    BY <1>2, <1>3, <2>1, GateFacts
<1>5. CASE LeaveDecides
  <2>1. /\ gate.at = "begin" /\ helper' = helper
        /\ (sm = "Idle" /\ sm' = sm) \/ gate' = Inside("close", "stop", "Idle")
    BY <1>1, <1>2, <1>5, DecideEffect
  <2> QED
    BY <1>2, <1>3, <2>1, GateFacts, StatesAre
<1>6. CASE Serve
  <2>1. /\ gate'.op = gate.op /\ sm' = sm /\ gate'.at \in {"answer", "stop"}
        /\ helper = "Active" \/ gate.op \in {"create", "join", "recover"}
    BY <1>1, <1>2, <1>6, ServeEffect
  <2> QED
    BY <1>2, <1>3, <2>1
<1>7. CASE GateStops \/ StopThrows
  BY <1>1, <1>2, <1>7, StopEffect
<1>8. CASE Finish
  <2>1. /\ gate.at = "answer" /\ helper' = helper
        /\ \/ gate.op = "leave" /\ gate.resp = "ok"
           \/ gate.op \in {"refresh", "diagnose"} /\ sm' = sm
    BY <1>1, <1>2, <1>8, FinishEffect
  <2> QED
    BY <1>1, <1>2, <1>3, <2>1 DEF LeftIsOff
<1>9. CASE Persist
  <2>1. gate.at = "persist" /\ helper' = helper /\ sm' = sm
    BY <1>1, <1>2, <1>9, PersistEffect
  <2> QED
    BY <1>2, <1>3, <2>1
<1>10. CASE RestartHelper \/ HelperCrashes
  BY <1>1, <1>2, <1>10, LostEffect
<1>11. CASE \/ JoinMalformed \/ RestartReports \/ OnHelperPushEvent \/ OnHelperProcessExited
            \/ RequestRefresh \/ Resume \/ PollTick \/ RecoverStarts \/ HelperPushes
  <2>1. /\ UNCHANGED <<gate, helper>>
        /\ OnHelperPushEvent \/ sm' \in {"Reconnecting", "Faulted", sm}
    BY <1>1, <1>11, CallbackEffect, QueueEffect
  <2> QED
    BY <1>2, <1>3, <2>1
<1> QED
  BY <1>4, <1>5, <1>6, <1>7, <1>8, <1>9, <1>10, <1>11 DEF Next

-----------------------------------------------------------------------------
(* The theorems *)

\* The invariant holds before the first operation.
LEMMA InitIInv == Init => IInv
<1> SUFFICES ASSUME Init PROVE IInv
  OBVIOUS
<1>1. ControlTypes /\ QueueTypes /\ GateTypes
  BY StatesAre, GateFacts DEF Init, ControlTypes, QueueTypes, GateTypes, GateShape
<1>2. OutsideTypes
  <2>1. pushes = <<>> /\ late = <<>> /\ helper = "off" /\ exit = FALSE
    BY DEF Init
  <2> QED
    BY <2>1, EmptyFacts DEF OutsideTypes
<1>3. Safety
  BY GateFacts DEF Init, Safety, WaitingIsResumable, MadeIsSettled, LeftIsOff
<1> QED
  BY <1>1, <1>2, <1>3, Groups DEF IInv

\* The invariant is kept by every operation, callback and failure.
THEOREM Inductive == Spec => []IInv
<1>1. IInv /\ [Next]_vars => IInv'
  <2> SUFFICES ASSUME IInv, [Next]_vars PROVE IInv'
    OBVIOUS
  <2>1. TypeOK' /\ GateShape'
    BY NextType DEF IInv
  <2>2. CASE UNCHANGED vars
    BY <2>1, <2>2 DEF IInv, Safety, WaitingIsResumable, MadeIsSettled, LeftIsOff, vars
  <2>3. CASE Next
    BY <2>1, <2>3, StepSafe DEF IInv
  <2> QED
    BY <2>2, <2>3
<1> QED
  BY <1>1, InitIInv, PTL DEF Spec

\* Types of the controller's fields; the event channels stay within their capacity.
THEOREM TypesHold == Spec => []TypeOK
<1>1. IInv => TypeOK
  BY DEF IInv
<1> QED
  BY <1>1, Inductive, PTL

\* A room that waits for a game or for its LAN port still has the request it
\* resumes with, until a leave takes it away.
THEOREM WaitingAlwaysResumable == Spec => []WaitingIsResumable
<1>1. IInv => WaitingIsResumable
  BY DEF IInv, Safety
<1> QED
  BY <1>1, Inductive, PTL

\* Whatever operations, events, crashes and failures come together, only a cancellation
\* leaves a transient state without its operation (or a diagnosis that found it so).
THEOREM OnlyCancelsOrphan == Spec => OnlyCancelOrphans
<1>1. IInv /\ [Next]_vars =>
        [~Orphaned /\ Orphaned' =>
            Cancel \/ (gate.op = "diagnose" /\ gate.prev = "Diagnosing")]_vars
  BY StepOrphans
<1> QED
  BY <1>1, Inductive, PTL DEF Spec, OnlyCancelOrphans

\* No operation hides an active room of the helper behind an idle controller by the way
\* it ends: only an event of a pump does, or a cancellation.
THEOREM OnlyEventsEverHide == Spec => OnlyEventsHide
<1>1. IInv /\ [Next]_vars => [~Hidden /\ Hidden' => OnHelperPushEvent \/ Cancel]_vars
  BY StepHides
<1> QED
  BY <1>1, Inductive, PTL DEF Spec, OnlyEventsHide
=============================================================================

------------------------ MODULE TerracottaController ------------------------
(* The plugin's controller, Application/TerracottaController.cs, with its       *)
(* state machine RoomStateMachine.cs and the gateway to the helper.  Room       *)
(* operations queue for one semaphore (the operation gate) and keep it across   *)
(* their calls to the helper.  Three entries do not take the gate: the push     *)
(* events of the helper, the exit event of its process, and the restart         *)
(* command; a join with a malformed code publishes a fault before the gate.     *)
(* Code between two awaits is one step.                                         *)
(*                                                                              *)
(* The helper is what RoomService and HelperProcessManager promise of it: off,  *)
(* or running with an idle, active or faulted room.                             *)
EXTENDS Naturals, Sequences, FiniteSets

CONSTANTS MaxWaiting,   \* bound on the queued operations, besides a recovery
          MaxPushes     \* bound on the undelivered push events of a pump

ASSUME BoundsAssumption == MaxWaiting \in Nat /\ MaxPushes \in Nat \ {0}

VARIABLES sm,           \* _stateMachine.State
          snap,         \* _snapshot.State
          gate,         \* _operationGate: the operation inside and how far it is
          waiting,      \* operations at the gate that have read something before it
          pending,      \* _pendingCreate: none, without or with a game session
          recovery,     \* _recovery is not null
          poll,         \* _statusPollCts: off, on, or dead (its loop has ended)
          restarting,   \* RestartHelperAsync has stopped the helper
          helper,       \* the helper process and its room
          pushes,       \* the gateway's event channel
          late,         \* bound: what one stopped pump has still to deliver
          exit          \* a HelperProcessExited event to come

control == <<sm, snap, pending, recovery, poll>>

outside == <<helper, pushes, late, exit>>

vars == <<sm, snap, gate, waiting, pending, recovery, poll, restarting,
          helper, pushes, late, exit>>

-----------------------------------------------------------------------------
(* RoomStateMachine *)

AllowedTransitions ==
    [Idle           |-> {"WaitingForGame", "WaitingForLan", "Creating", "Joining", "Faulted"},
     WaitingForGame |-> {"WaitingForLan", "Creating", "Joining", "Idle", "Faulted"},
     WaitingForLan  |-> {"Creating", "Idle", "Faulted"},
     Creating       |-> {"Connected", "Reconnecting", "Leaving", "Faulted"},
     Joining        |-> {"Connected", "Reconnecting", "Leaving", "Faulted"},
     Connected      |-> {"Reconnecting", "Diagnosing", "Leaving", "Faulted"},
     Reconnecting   |-> {"Connected", "Creating", "Joining", "Diagnosing", "Leaving", "Faulted"},
     Leaving        |-> {"Idle", "Faulted"},
     Faulted        |-> {"Diagnosing", "Idle"},
     Diagnosing     |-> {"Connected", "Reconnecting", "Faulted", "Idle"}]

States == DOMAIN AllowedTransitions

CanTransition(from, next) == next = from \/ next \in AllowedTransitions[from]

-----------------------------------------------------------------------------
(* Data *)

Linked == {"Connected", "Reconnecting"}

Watched == Linked \cup {"Diagnosing"}

Transient == {"Creating", "Joining", "Leaving", "Diagnosing"}

NoOp == [op |-> "none", at |-> "none", resp |-> "none", prev |-> "Idle"]

Inside(o, at, prev) == [op |-> o, at |-> at, resp |-> "none", prev |-> prev]

Events == Linked \cup {"Idle", "network", "peer"}

\* Buttons, commands, exported services and the automatic leave of OnLaunchEvent.  They
\* read nothing before the gate: one that waits there is one that comes when it is free.
Commands == {"create", "join", "leave", "diagnose"}

\* Mutant: the channel is unbounded.
EnqueueUnbounded(queue, e) == Append(queue, e)

\* BoundedChannelFullMode.DropOldest
Enqueue(queue, e) ==
    IF Len(queue) < MaxPushes THEN Append(queue, e) ELSE Append(Tail(queue), e)

Init ==
    /\ sm = "Idle" /\ snap = "Idle"
    /\ gate = NoOp /\ waiting = {}
    /\ pending = "none" /\ recovery = FALSE
    /\ poll = "off" /\ restarting = FALSE
    /\ helper = "off" /\ pushes = <<>> /\ late = <<>> /\ exit = FALSE

-----------------------------------------------------------------------------
(* Publishing *)

Show(state) == snap' = state

\* TransitionTo(next) and Publish
Move(next) == sm' = next /\ Show(next)

\* Fault and PublishFault: the transition to Faulted is legal from every state.
Fault == Move("Faulted")

\* An operation leaves the gate.
Release == gate' = NoOp

Settled == UNCHANGED <<pending, recovery, poll>>

\* QueueOperation
Queue(o) ==
    /\ o = "task" \/ Cardinality(waiting \ {o, "task", "recover"}) < MaxWaiting
    /\ waiting' = waiting \cup {o}

-----------------------------------------------------------------------------
(* Requests *)

\* A refresh looks at the snapshot before it queues.
RequestRefresh ==
    /\ snap \in Watched
    /\ Queue("refresh")
    /\ UNCHANGED <<control, gate, restarting, outside>>

JoinMalformed ==
    /\ Fault
    /\ UNCHANGED <<gate, waiting, pending, recovery, poll, restarting, outside>>

\* OnGameOutput and OnLaunchEvent continue a create that waits for them.
Resume ==
    /\ \/ sm = "WaitingForLan" /\ pending = "session"
       \/ sm = "WaitingForGame" /\ pending # "none"
    /\ Queue("create")
    /\ UNCHANGED <<control, gate, restarting, outside>>

\* The timer of StartStatusPolling: the loop ends where it finds no linked room.
PollTick ==
    /\ poll = "on"
    /\ \/ /\ snap \in Linked
          /\ Queue("refresh")
          /\ UNCHANGED poll
       \/ /\ snap \notin Linked
          /\ poll' = "dead"
          /\ UNCHANGED waiting
    /\ UNCHANGED <<sm, snap, gate, pending, recovery, restarting, outside>>

\* RecoverAfterHelperCrashAsync reads its intent and then waits for the gate.
RecoverStarts ==
    /\ "task" \in waiting
    /\ waiting' = (waiting \ {"task"}) \cup (IF recovery THEN {"recover"} ELSE {})
    /\ UNCHANGED <<control, gate, restarting, outside>>

-----------------------------------------------------------------------------
(* Operations, from the gate to the first call of the helper *)

\* Mutant: the request is forgotten where the room starts to wait.
EnterCreateForgets ==
    \/ /\ sm \in {"Idle", "WaitingForGame", "Faulted"} /\ Move("WaitingForGame") /\ Release
       /\ pending' = "none"
       /\ UNCHANGED <<recovery, poll>>
    \/ /\ sm = "Idle" /\ Move("Creating") /\ gate' = Inside("create", "call", "Idle")
       /\ Settled

EnterCreate ==
    LET ready == IF sm = "Faulted" THEN "Idle" ELSE sm     \* ResetFaultIfNeeded
    IN  \/ /\ ready \notin {"Idle", "WaitingForGame", "WaitingForLan"}
           /\ Fault /\ Release
           /\ Settled
        \/ /\ ready \in {"Idle", "WaitingForGame", "WaitingForLan"}
           /\ \/ /\ pending' = "any"                        \* no game is running
                 /\ IF CanTransition(ready, "WaitingForGame") THEN Move("WaitingForGame") ELSE Fault
                 /\ Release
              \/ /\ pending' = "session"                    \* no LAN port yet
                 /\ Move("WaitingForLan")
                 /\ Release
              \/ /\ pending' = "none"
                 /\ Move("Creating")
                 /\ gate' = Inside("create", "call", "Idle")
           /\ UNCHANGED <<recovery, poll>>

EnterJoin ==
    /\ IF sm \in {"Idle", "Faulted"}
       THEN Move("Joining") /\ gate' = Inside("join", "call", "Idle")
       ELSE Fault /\ Release
    /\ Settled

\* StopStatusPolling; nothing to recover, nothing to resume.
EnterLeave ==
    /\ poll' = "off" /\ recovery' = FALSE /\ pending' = "none"
    /\ gate' = Inside("leave", "begin", "Idle")
    /\ UNCHANGED <<sm, snap>>

\* The state is read after that; callbacks of other threads may come between.
LeaveDecides ==
    /\ gate.at = "begin"
    /\ \/ /\ sm = "Idle"
          /\ Release
          /\ UNCHANGED <<sm, snap>>
       \/ /\ sm \in {"WaitingForGame", "WaitingForLan", "Faulted"}
          /\ Move("Idle")
          /\ gate' = Inside("close", "stop", "Idle")
       \/ /\ sm \notin {"Idle", "WaitingForGame", "WaitingForLan", "Faulted"}
          /\ IF CanTransition(sm, "Leaving")
             THEN Move("Leaving") /\ gate' = Inside("leave", "call", "Idle")
             ELSE Fault /\ Release
    /\ Settled
    /\ UNCHANGED <<waiting, restarting, outside>>

EnterRefresh ==
    /\ gate' = Inside("refresh", "call", "Idle")
    /\ UNCHANGED control

\* The guard reads the snapshot, the transition the state machine.
EnterDiagnose ==
    /\ \/ /\ snap \in Watched /\ CanTransition(sm, "Diagnosing")
          /\ IF sm = "Diagnosing" THEN UNCHANGED <<sm, snap>> ELSE Move("Diagnosing")
          /\ gate' = Inside("diagnose", "call", sm)
       \/ /\ ~(snap \in Watched /\ CanTransition(sm, "Diagnosing"))
          /\ Fault /\ Release
    /\ Settled

\* Recovery stops the helper first.
EnterRecover ==
    /\ gate' = Inside("recover", "stop", "Idle")
    /\ UNCHANGED control

Enter(o) ==
    /\ gate = NoOp
    /\ \/ o \in Commands /\ UNCHANGED waiting
       \/ o \in waiting /\ waiting' = waiting \ {o}
    /\ \/ o = "create" /\ EnterCreate
       \/ o = "join" /\ EnterJoin
       \/ o = "leave" /\ EnterLeave
       \/ o = "refresh" /\ EnterRefresh
       \/ o = "diagnose" /\ EnterDiagnose
       \/ o = "recover" /\ EnterRecover
    /\ UNCHANGED <<restarting, outside>>

-----------------------------------------------------------------------------
(* The helper answers *)

\* A pump that is cancelled goes on with what its channel holds (ReadAllAsync), and
\* nobody need wait for it.
Retire == late' \in {late, pushes}

\* EnsureInitializedAsync: a helper that is off is started, with a new event pump;
\* that of a helper that died is only told to stop.
Woken == IF helper = "off" THEN "Idle" ELSE helper

Fresh == IF helper = "off" THEN <<>> ELSE pushes

Wake == IF helper = "off" THEN Retire ELSE UNCHANGED late

Reply(resp) == gate' = [gate EXCEPT !.at = "answer", !.resp = resp]

\* The helper could not be started.
ServeNothing ==
    /\ helper = "off" /\ Reply("error")
    /\ UNCHANGED <<helper, pushes, late>>

\* room.create and room.join: a room that is not idle is busy.
ServeRoom ==
    /\ gate.op \in {"create", "join", "recover"}
    /\ \/ /\ Woken = "Idle" /\ Wake
          /\ \/ Reply("ok") /\ helper' = "Active" /\ pushes' = Enqueue(Fresh, "Connected")
             \/ Reply("error") /\ helper' \in {"Idle", "Faulted"} /\ pushes' = Fresh
       \/ /\ Woken # "Idle"
          /\ Reply("error")
          /\ UNCHANGED <<helper, pushes, late>>

\* room.leave; the gateway then stops the helper.
ServeLeave ==
    /\ gate.op = "leave" /\ Wake
    /\ \/ /\ helper' = "Idle" /\ pushes' = Enqueue(Fresh, "Idle")
          /\ gate' = [gate EXCEPT !.at = "stop"]
       \/ /\ Woken # "Idle"
          /\ helper' = "Faulted" /\ pushes' = Fresh
          /\ Reply("error")

ServeStatus ==
    /\ gate.op = "refresh" /\ Wake
    /\ helper' = Woken /\ pushes' = Fresh
    /\ Reply(Woken)

\* network.diagnose: a diagnosis that fails leaves the helper's room faulted.
ServeDiagnose ==
    /\ gate.op = "diagnose" /\ Wake
    /\ pushes' = Fresh
    /\ \/ Woken = "Active" /\ helper' = "Active" /\ Reply("ok")
       \/ helper' = (IF Woken = "Active" THEN "Faulted" ELSE Woken) /\ Reply("error")

Serve ==
    /\ gate.at = "call"
    /\ ServeNothing \/ ServeRoom \/ ServeLeave \/ ServeStatus \/ ServeDiagnose
    /\ UNCHANGED <<control, waiting, restarting, exit>>

\* HelperRoomGateway.StopAsync: the pump and the process are stopped; an exit
\* that was not yet handled is then intentional.
StopHelper ==
    /\ helper' = "off" /\ pushes' = <<>> /\ Retire
    /\ exit' \in {exit, FALSE}

GateStops ==
    /\ gate.at = "stop"
    /\ StopHelper
    /\ gate' = CASE gate.op = "close"   -> NoOp
                 [] gate.op = "leave"   -> [gate EXCEPT !.at = "answer", !.resp = "ok"]
                 [] gate.op = "recover" -> [gate EXCEPT !.at = "call"]
    /\ UNCHANGED <<control, waiting, restarting>>

\* The process manager throws once the process has ended.
StopThrows ==
    /\ gate.at = "stop"
    /\ StopHelper
    /\ Fault /\ Release
    /\ recovery' = (recovery /\ gate.op # "recover")
    /\ UNCHANGED <<pending, poll, waiting, restarting>>

-----------------------------------------------------------------------------
(* Operations, from the helper's answer to the release of the gate *)

\* create and join
FinishRoom ==
    /\ gate.op \in {"create", "join"}
    /\ \/ /\ gate.resp = "ok" /\ CanTransition(sm, "Connected")
          /\ Move("Connected")
          /\ recovery' = TRUE /\ poll' = "on"
          /\ gate' = [gate EXCEPT !.at = "persist"]
          /\ UNCHANGED pending
       \/ /\ gate.resp = "error" \/ ~CanTransition(sm, "Connected")
          /\ Fault /\ Release
          /\ Settled

\* The session is stored and the code or address copied, still inside the gate; that
\* may fail.
Persist ==
    /\ gate.at = "persist"
    /\ Fault \/ UNCHANGED <<sm, snap>>
    /\ Release
    /\ Settled
    /\ UNCHANGED <<waiting, restarting, outside>>

\* Mutant: the room a leave has closed is not closed here.
FinishLeaveStays ==
    /\ gate.op = "leave"
    /\ UNCHANGED control

FinishLeave ==
    /\ gate.op = "leave"
    /\ IF gate.resp = "ok" /\ CanTransition(sm, "Idle") THEN Move("Idle") ELSE Fault
    /\ Settled

\* Publishes what the helper reports without moving the state machine, unless
\* the helper's room is faulted; errors are logged.
FinishRefresh ==
    /\ gate.op = "refresh"
    /\ \/ /\ gate.resp = "Active"
          /\ \E state \in Linked : Show(IF sm = "Diagnosing" THEN sm ELSE state)
          /\ UNCHANGED <<sm, poll>>
       \/ gate.resp = "Faulted" /\ Fault /\ poll' = "off"
       \/ gate.resp \in {"Idle", "error"} /\ UNCHANGED <<sm, snap, poll>>
    /\ UNCHANGED <<pending, recovery>>

\* A diagnosis gives back the state it found, if it is still the one it set.
FinishDiagnose ==
    /\ gate.op = "diagnose"
    /\ \/ /\ gate.resp = "ok"
          /\ IF sm = "Diagnosing" /\ gate.prev # "Diagnosing"
             THEN Move(IF gate.prev = "Reconnecting" THEN "Reconnecting" ELSE "Connected")
             ELSE Show(sm) /\ UNCHANGED sm
       \/ gate.resp = "error" /\ Fault
    /\ Settled

\* Mutant: an illegal transition is ignored, as in ApplyHelperSnapshot.
FinishRecoverIgnores ==
    /\ gate.op = "recover"
    /\ IF gate.resp = "error"
       THEN Fault /\ recovery' = FALSE /\ UNCHANGED poll
       ELSE /\ IF CanTransition(sm, "Connected") THEN Move("Connected") ELSE UNCHANGED <<sm, snap>>
            /\ poll' = "on" /\ UNCHANGED recovery
    /\ UNCHANGED pending

FinishRecover ==
    /\ gate.op = "recover"
    /\ \/ /\ gate.resp = "ok" /\ CanTransition(sm, "Connected")
          /\ Move("Connected") /\ poll' = "on"
          /\ UNCHANGED recovery
       \/ /\ gate.resp = "error" \/ ~CanTransition(sm, "Connected")
          /\ Fault /\ recovery' = FALSE
          /\ UNCHANGED poll
    /\ UNCHANGED pending

Finish ==
    /\ gate.at = "answer" /\ gate.resp # "cancelled"
    /\ \/ FinishRoom
       \/ (FinishLeave \/ FinishRefresh \/ FinishDiagnose \/ FinishRecover) /\ Release
    /\ UNCHANGED <<waiting, restarting, outside>>

\* OperationCanceledException passes every catch block: at an await, by the caller's
\* token or the host's task, or from a request whose client is disposed.  The poll
\* loop ends where its own refresh is cancelled so; a stop may have been carried out.
Cancel ==
    /\ gate.at \in {"call", "stop", "persist"} \/ gate.resp = "cancelled"
    /\ Release
    /\ \/ UNCHANGED <<poll, outside>>
       \/ /\ gate.op = "refresh" /\ gate.resp = "cancelled" /\ poll = "on"
          /\ poll' = "dead"
          /\ UNCHANGED outside
       \/ gate.at = "stop" /\ StopHelper /\ UNCHANGED poll
    /\ UNCHANGED <<sm, snap, pending, recovery, waiting, restarting>>

-----------------------------------------------------------------------------
(* Callbacks that do not take the gate *)

\* ApplyHelperSnapshot, room.state-changed
OnStateChanged(state) ==
    \/ /\ state = "Idle"
       /\ poll' = "off" /\ Move("Idle")
    \/ /\ state \in Linked
       /\ sm' = IF CanTransition(sm, state) THEN state ELSE sm
       /\ Show(IF sm' = "Diagnosing" THEN sm' ELSE state)
       /\ poll' = IF poll = "off" THEN "on" ELSE poll

\* The network is healthy or not.
OnNetworkUpdated ==
    /\ \/ snap \in Watched /\ sm \in Linked /\ \E state \in Linked : Move(state)
       \/ snap \in Watched /\ sm \notin Linked /\ UNCHANGED sm /\ Show(sm)
       \/ snap \notin Watched /\ UNCHANGED <<sm, snap>>
    /\ UNCHANGED poll

OnPeerEvent ==
    /\ IF snap \in Watched THEN Queue("refresh") ELSE UNCHANGED waiting
    /\ UNCHANGED <<sm, snap, poll>>

Handle(e) ==
    \/ e \in Linked \cup {"Idle"} /\ OnStateChanged(e) /\ UNCHANGED waiting
    \/ e = "network" /\ OnNetworkUpdated /\ UNCHANGED waiting
    \/ e = "peer" /\ OnPeerEvent

\* From the pump of the helper that runs, or from one that was stopped.
OnHelperPushEvent ==
    /\ \/ /\ pushes # <<>> /\ pushes' = Tail(pushes)
          /\ Handle(Head(pushes))
          /\ UNCHANGED late
       \/ /\ late # <<>> /\ late' = Tail(late)
          /\ Handle(Head(late))
          /\ UNCHANGED pushes
    /\ UNCHANGED <<gate, pending, recovery, restarting, helper, exit>>

\* WillAutoRestart is the manager's answer to how often the helper has crashed.
OnHelperProcessExited ==
    /\ exit /\ exit' = FALSE
    /\ \/ /\ snap \in {"Idle", "Leaving"}
          /\ UNCHANGED <<sm, snap, poll, waiting>>
       \/ /\ snap \notin {"Idle", "Leaving"}
          /\ poll' = "off"
          /\ \/ /\ recovery
                /\ sm' = IF sm \in Watched THEN "Reconnecting" ELSE sm
                /\ Show("Reconnecting")
                /\ Queue("task")
             \/ Fault /\ UNCHANGED waiting
    /\ UNCHANGED <<gate, pending, recovery, restarting, helper, pushes, late>>

\* A call in flight ends with the pipe, or is cancelled with the client.
Interrupt ==
    \/ UNCHANGED gate
    \/ gate.at = "call" /\ Reply("error")
    \/ gate.at = "call" /\ Reply("cancelled")

\* RestartHelperAsync, up to its await, which may throw, and after it
RestartHelper ==
    /\ ~restarting /\ restarting' \in BOOLEAN
    /\ StopHelper /\ Interrupt
    /\ UNCHANGED <<control, waiting>>

RestartReports ==
    /\ restarting /\ restarting' = FALSE
    /\ IF sm # "Idle" THEN Fault ELSE UNCHANGED <<sm, snap>>
    /\ Settled
    /\ UNCHANGED <<gate, waiting, outside>>

-----------------------------------------------------------------------------
(* The helper by itself *)

\* poll_and_emit of an active room
HelperPushes ==
    /\ helper = "Active" /\ Len(pushes) + Len(late) < MaxPushes
    /\ \E e \in Events \ {"Idle"} : pushes' = Append(pushes, e)
    /\ UNCHANGED <<control, gate, waiting, restarting, helper, late, exit>>

\* The process dies; the manager raises its event once it has the gate there.
HelperCrashes ==
    /\ helper # "off" /\ helper' = "off"
    /\ exit' = TRUE
    /\ Interrupt
    /\ UNCHANGED <<control, waiting, restarting, pushes, late>>

-----------------------------------------------------------------------------
(* Specification *)

Next ==
    \/ RequestRefresh \/ JoinMalformed \/ Resume \/ PollTick \/ RecoverStarts
    \/ \E o \in {"create", "join", "leave", "refresh", "diagnose", "recover"} : Enter(o)
    \/ LeaveDecides \/ Serve \/ GateStops \/ StopThrows \/ Finish \/ Persist \/ Cancel
    \/ OnHelperPushEvent \/ OnHelperProcessExited
    \/ RestartHelper \/ RestartReports
    \/ HelperPushes \/ HelperCrashes

Spec == Init /\ [][Next]_vars

\* Every call of the helper is answered or fails, and continuations run.
FairSpec ==
    /\ Spec
    /\ WF_vars(LeaveDecides) /\ WF_vars(Serve) /\ WF_vars(GateStops) /\ WF_vars(Finish)
    /\ WF_vars(Persist)
    /\ WF_vars(gate.resp = "cancelled" /\ Cancel)
    /\ WF_vars(RecoverStarts)

-----------------------------------------------------------------------------
(* Properties *)

\* Types of the fields; the gate's record.
TypeOK ==
    /\ sm \in States /\ snap \in States
    /\ gate.op \in {"none", "create", "join", "leave", "close", "refresh", "diagnose", "recover"}
    /\ gate.at \in {"none", "begin", "call", "stop", "answer", "persist"}
    /\ gate.prev \in States
    /\ gate.op = "none" => gate = NoOp
    /\ waiting \subseteq {"create", "refresh", "task", "recover"}
    /\ pending \in {"none", "any", "session"}
    /\ recovery \in BOOLEAN /\ restarting \in BOOLEAN
    /\ poll \in {"off", "on", "dead"}
    /\ helper \in {"off", "Idle", "Active", "Faulted"}
    /\ pushes \in Seq(Events) /\ Len(pushes) <= MaxPushes
    /\ late \in Seq(Events) /\ Len(late) <= MaxPushes
    /\ exit \in BOOLEAN

\* A room that waits for a game or for its LAN port can go on: the request it
\* resumes with is still there, with the session the LAN case compares
\* (OnGameOutput, OnLaunchEvent, lines 794-817), until a leave takes it away.
WaitingIsResumable ==
    gate.at # "begin" => /\ sm = "WaitingForGame" => pending # "none"
                         /\ sm = "WaitingForLan" => pending = "session"

Owner(state) == CASE state = "Creating" -> "create" [] state = "Joining" -> "join"
                  [] state = "Leaving" -> "leave"   [] state = "Diagnosing" -> "diagnose"

Orphaned == sm \in Transient /\ gate.op # Owner(sm)

\* A state that only an operation in progress justifies is not left behind: none of
\* the operations, callbacks and failures orphans it but a cancellation (which passes
\* every catch block) and a diagnosis that found it orphaned (lines 378-395).
OnlyCancelOrphans ==
    [][~Orphaned /\ Orphaned' =>
          Cancel \/ (gate.op = "diagnose" /\ gate.prev = "Diagnosing")]_vars

\* A room the helper serves while the controller is idle and about neither to close nor
\* to rebuild it: LeaveAsync returns early (line 287), so no leave reaches it.
Hidden ==
    /\ helper = "Active" /\ sm = "Idle"
    /\ gate.op \in {"none", "refresh", "diagnose"} \/ gate.at \in {"begin", "persist"}

\* No operation hides a room by the way it ends, whatever it raced with: a recovery
\* that a leave overtook ends in a fault that a leave can close (lines 522, 551-555).
\* What can hide one is an event that comes late, or a cancellation.
OnlyEventsHide == [][~Hidden /\ Hidden' => OnHelperPushEvent \/ Cancel]_vars

\* plugin.json:60, "退出房间或停用插件时关闭陶瓦联机核心": leaving a room closes the helper.
\* A leave forgets what there was to recover, so no recovery rebuilds the room after it.
LeftRoomStaysClosed ==
    [][gate.op = "recover" /\ helper # "Active" /\ helper' = "Active" => recovery]_vars

\* README.md:11, "连接中轮询与重连": where an operation ends with a connected room that the
\* helper serves, the room is polled.  A tick that falls into a diagnosis ends the loop
\* and leaves _statusPollCts set, so nothing starts it again.
ConnectedIsPolled ==
    [][Finish /\ sm' = "Connected" /\ helper = "Active" => poll' = "on"]_vars

=============================================================================

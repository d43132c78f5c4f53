----------------------------- MODULE RoomService -----------------------------
(* The helper's room state machine, room/service.rs: one snapshot and one       *)
(* table of known members behind their own mutexes, a backend whose calls are   *)
(* awaited with neither lock held, and an event bus.  Every operation is cut at *)
(* those awaits: it begins (validates, takes the snapshot lock), the backend    *)
(* answers, and the operation finishes with whatever it read before the await.  *)
(*                                                                              *)
(* Spec lets any number of callers interleave, which is what the type offers    *)
(* (&self, Sync).  SessionSpec is the deployed system: one IPC session runs the *)
(* body of a select! arm to its end before it polls the arms again, so no       *)
(* operation begins while another is under way.                                 *)
EXTENDS RoomBackend

CONSTANTS Callers,      \* who calls the service: the select! arms of a session
          Member,       \* member ids
          Quality,      \* what a roster entry says about a member that is present
          Net,          \* network samples
          Healthy       \* the samples with is_healthy

ASSUME HealthyAssumption == Healthy \subseteq Net
ASSUME NoneAssumption == "none" \notin Net /\ "absent" \notin Quality

VARIABLES room,         \* state: Mutex<RoomSnapshot>
          known,        \* known_members
          op, at,       \* the operation a caller is in, and the await it has reached
          prev,         \* diagnose: the state saved before the refresh
          res,          \* what the awaited backend call returned
          emit,         \* poll_and_emit: events held back until the lock is released
          reply,        \* what the latest operation to return told its caller
          feed          \* a subscriber that has applied every published event

vars == <<session, room, known, op, at, prev, res, emit, reply, feed>>

-----------------------------------------------------------------------------
(* Data *)

Rosters == [Member -> Quality \cup {"absent"}]

NoMembers == [m \in Member |-> "absent"]

\* A backend answer without a roster (BackendRefresh::members = None).
NoRoster == [m \in {} |-> "absent"]

States == {"Idle", "Creating", "Joining", "Connected", "Reconnecting",
           "Leaving", "Faulted", "Diagnosing"}

Snapshots == [state : States, role : Roles \cup {"None"},
              net : Net \cup {"none"}, members : Rosters]

IdleSnapshot ==
    [state |-> "Idle", role |-> "None", net |-> "none", members |-> NoMembers]

Pending(state, role) ==
    [state |-> state, role |-> role, net |-> "none", members |-> NoMembers]

FaultedSnapshot(role) ==
    [state |-> "Faulted", role |-> role, net |-> "none", members |-> NoMembers]

\* The snapshot s with some of its fields written.
Rewrite(s, state, net, members) ==
    [state |-> state, role |-> s.role, net |-> net, members |-> members]

WithState(s, state) == Rewrite(s, state, s.net, s.members)

\* valid: the answer passes validate_backend_room (room code, loopback address,
\* and for join the presence of the local address).
Results == [ok : BOOLEAN, valid : BOOLEAN,
            net : Net \cup {"none"}, roster : Rosters \cup {NoRoster}]

Answered(ok) == [ok |-> ok, valid |-> FALSE, net |-> "none", roster |-> NoRoster]

NoResult == Answered(FALSE)

Sampled(net, roster) == [ok |-> TRUE, valid |-> FALSE, net |-> net, roster |-> roster]

Emits == [net : BOOLEAN, state : BOOLEAN,
          roster : Rosters \cup {NoRoster}, snapshot : Snapshots]

NothingToEmit == [net |-> FALSE, state |-> FALSE, roster |-> NoRoster, snapshot |-> IdleSnapshot]

Ops == {"none", "create", "join", "setlan", "diagnose", "probe", "leave", "poll"}

Init ==
    /\ BackendInit
    /\ room = IdleSnapshot
    /\ known = NoMembers
    /\ op = [c \in Callers |-> "none"]
    /\ at = [c \in Callers |-> "ready"]
    /\ prev = [c \in Callers |-> "Idle"]
    /\ res = [c \in Callers |-> NoResult]
    /\ emit = [c \in Callers |-> NothingToEmit]
    /\ reply = "none"
    /\ feed = IdleSnapshot

-----------------------------------------------------------------------------
(* Control: where a caller stands *)

Quiet == \A c \in Callers : at[c] = "ready"

Active == {"Connected", "Reconnecting", "Diagnosing"}

Ready(c) == at[c] = "ready"

Await(c, o) ==
    /\ op' = [op EXCEPT ![c] = o]
    /\ at' = [at EXCEPT ![c] = "backend"]

Answer(c, r) ==
    /\ res' = [res EXCEPT ![c] = r]
    /\ at' = [at EXCEPT ![c] = "finish"]

Return(c, answer) ==
    /\ op' = [op EXCEPT ![c] = "none"]
    /\ at' = [at EXCEPT ![c] = "ready"]
    /\ prev' = [prev EXCEPT ![c] = "Idle"]
    /\ res' = [res EXCEPT ![c] = NoResult]
    /\ emit' = [emit EXCEPT ![c] = NothingToEmit]
    /\ reply' = answer

PublishState(snapshot) == feed' = snapshot

-----------------------------------------------------------------------------
(* Operations up to the first await of the backend *)

Refuse(answer) ==
    /\ reply' = answer
    /\ UNCHANGED <<session, room, known, op, at, prev, res, emit, feed>>

\* Mutant: a room that faulted may be tried again.
BeginRoomRetries(c, o, state, role) ==
    /\ Ready(c)
    /\ room.state \in {"Idle", "Faulted"}
    /\ room' = Pending(state, role)
    /\ Await(c, o)
    /\ UNCHANGED <<session, known, prev, res, emit, reply, feed>>

\* create and join: the request is validated first, then the room must be Idle.
BeginRoom(c, o, state, role) ==
    /\ Ready(c)
    /\ \/ Refuse("invalid")
       \/ room.state # "Idle" /\ Refuse("busy")
       \/ /\ room.state = "Idle"
          /\ room' = Pending(state, role)
          /\ Await(c, o)
          /\ UNCHANGED <<session, known, prev, res, emit, reply, feed>>

BeginCreate(c) == BeginRoom(c, "create", "Creating", "Host")

BeginJoin(c) == BeginRoom(c, "join", "Joining", "Member")

BeginSetLan(c) ==
    /\ Ready(c)
    /\ \/ Refuse("invalid")
       \/ ~(room.state = "Connected" /\ room.role = "Host") /\ Refuse("not-host")
       \/ /\ room.state = "Connected"
          /\ room.role = "Host"
          /\ Await(c, "setlan")
          /\ UNCHANGED <<session, room, known, prev, res, emit, reply, feed>>

BeginDiagnose(c) ==
    /\ Ready(c)
    /\ \/ room.state \notin {"Connected", "Reconnecting"} /\ Refuse("not-connected")
       \/ /\ room.state \in {"Connected", "Reconnecting"}
          /\ prev' = [prev EXCEPT ![c] = room.state]
          /\ room' = WithState(room, "Diagnosing")
          /\ Await(c, "diagnose")
          /\ UNCHANGED <<session, known, res, emit, reply, feed>>

\* Mutant: leave that does not mark the room before it awaits the backend.
BeginLeaveUnmarked(c) ==
    /\ Ready(c)
    /\ room.state # "Idle"
    /\ Await(c, "leave")
    /\ UNCHANGED <<session, room, known, prev, res, emit, reply, feed>>

\* leave is refused only while another leave is under way; from Idle it is done.
BeginLeave(c) ==
    /\ Ready(c)
    /\ \/ room.state = "Idle" /\ Refuse("ok")
       \/ room.state = "Leaving" /\ Refuse("busy")
       \/ /\ room.state \notin {"Idle", "Leaving"}
          /\ room' = WithState(room, "Leaving")
          /\ Await(c, "leave")
          /\ UNCHANGED <<session, known, prev, res, emit, reply, feed>>

\* room.status and the two-second tick.
BeginPoll(c) ==
    /\ Ready(c)
    /\ Await(c, "poll")
    /\ UNCHANGED <<session, room, known, prev, res, emit, reply, feed>>

-----------------------------------------------------------------------------
(* The backend's answers *)

BackendRest == <<room, known, op, prev, emit, reply, feed>>

Awaits(c, o) == at[c] = "backend" /\ op[c] = o

\* An error or an answer RoomService does not trust; only the second opens a session.
BackendOpen(c, o, role) ==
    /\ Awaits(c, o)
    /\ \/ /\ OpenSession(role)
          /\ \E v \in BOOLEAN, n \in Net, r \in Rosters :
                Answer(c, [ok |-> TRUE, valid |-> v, net |-> n, roster |-> r])
       \/ /\ Answer(c, NoResult)
          /\ UNCHANGED session
    /\ UNCHANGED BackendRest

BackendCreate(c) == BackendOpen(c, "create", "Host")

BackendJoin(c) == BackendOpen(c, "join", "Member")

BackendSetLan(c) ==
    /\ Awaits(c, "setlan")
    /\ \E ok \in BOOLEAN : (ok => session = "Host") /\ Answer(c, Answered(ok))
    /\ UNCHANGED <<session, BackendRest>>

\* refresh: nothing without a session, else a sample and, when the room answers,
\* the roster.  The trait also lets a backend fail.
BackendRefresh(c) ==
    /\ Awaits(c, "poll") \/ Awaits(c, "diagnose")
    /\ \/ Answer(c, NoResult)
       \/ session = "none" /\ Answer(c, Answered(TRUE))
       \/ /\ session # "none"
          /\ \E n \in Net, r \in Rosters \cup {NoRoster} :
                Answer(c, Sampled(n, r))
    /\ UNCHANGED <<session, BackendRest>>

BackendDiagnose(c) ==
    /\ Awaits(c, "probe")
    /\ \/ Answer(c, NoResult)
       \/ /\ session # "none"
          /\ \E n \in Net :
                Answer(c, Sampled(n, NoRoster))
    /\ UNCHANGED <<session, BackendRest>>

\* The trait lets leave fail; a failed leave keeps the session.
BackendLeave(c) ==
    /\ Awaits(c, "leave")
    /\ \/ CloseSession /\ Answer(c, Answered(TRUE))
       \/ UNCHANGED session /\ Answer(c, NoResult)
    /\ UNCHANGED BackendRest

-----------------------------------------------------------------------------
(* Operations from the backend's answer to their end *)

Finishing(c, o) == at[c] = "finish" /\ op[c] = o

\* replace_known_members, then the snapshot, then the event.  Nothing reads
\* known_members before it has seen the snapshot Connected.
FinishRoom(c, o, role) ==
    /\ Finishing(c, o)
    /\ \/ /\ res[c].ok /\ res[c].valid
          /\ LET snapshot == [state |-> "Connected", role |-> role,
                              net |-> res[c].net, members |-> res[c].roster]
             IN  room' = snapshot /\ PublishState(snapshot)
          /\ known' = res[c].roster
          /\ Return(c, "ok")
       \/ /\ ~(res[c].ok /\ res[c].valid)
          /\ room' = FaultedSnapshot(role)
          /\ Return(c, "error")
          /\ UNCHANGED <<known, feed>>
    /\ UNCHANGED session

FinishCreate(c) == FinishRoom(c, "create", "Host")

FinishJoin(c) == FinishRoom(c, "join", "Member")

\* The error is returned as it is and the snapshot stays; success reports status().
FinishSetLan(c) ==
    /\ Finishing(c, "setlan")
    /\ \/ ~res[c].ok /\ Return(c, "error")
       \/ res[c].ok /\ Await(c, "poll") /\ UNCHANGED <<prev, res, emit, reply>>
    /\ UNCHANGED <<session, room, known, feed>>

\* Mutant: the roster of the refresh is stored without looking whether there is one.
FinishDiagnoseUnchecked(c) ==
    /\ Finishing(c, "diagnose")
    /\ room' = Rewrite(room, prev[c], res[c].net, res[c].roster)
    /\ Return(c, "ok")
    /\ UNCHANGED <<session, known, feed>>

FinishDiagnose(c) ==
    /\ Finishing(c, "diagnose")
    /\ \/ /\ res[c].net = "none"
          /\ Await(c, "probe")
          /\ UNCHANGED <<room, prev, res, emit, reply>>
       \/ /\ res[c].net # "none"
          /\ room' = Rewrite(room, prev[c], res[c].net,
                        IF res[c].roster = NoRoster THEN room.members ELSE res[c].roster)
          /\ Return(c, "ok")
    /\ UNCHANGED <<session, known, feed>>

\* Mutant: a failed probe returns the error and forgets the snapshot.
FinishProbeForgets(c) ==
    /\ Finishing(c, "probe")
    /\ \/ /\ res[c].ok
          /\ room' = Rewrite(room, prev[c], res[c].net, room.members)
          /\ Return(c, "ok")
       \/ /\ ~res[c].ok
          /\ Return(c, "error")
          /\ UNCHANGED room
    /\ UNCHANGED <<session, known, feed>>

FinishProbe(c) ==
    /\ Finishing(c, "probe")
    /\ \/ /\ res[c].ok
          /\ room' = Rewrite(room, prev[c], res[c].net, room.members)
          /\ Return(c, "ok")
       \/ /\ ~res[c].ok
          /\ room' = FaultedSnapshot(room.role)
          /\ Return(c, "error")
    /\ UNCHANGED <<session, known, feed>>

\* Mutant: the result of the backend's leave is ignored.
FinishLeaveIgnoresError(c) ==
    /\ Finishing(c, "leave")
    /\ room' = IdleSnapshot
    /\ known' = NoMembers
    /\ PublishState(IdleSnapshot)
    /\ Return(c, "ok")
    /\ UNCHANGED session

FinishLeave(c) ==
    /\ Finishing(c, "leave")
    /\ \/ /\ res[c].ok
          /\ room' = IdleSnapshot
          /\ known' = NoMembers
          /\ PublishState(IdleSnapshot)
          /\ Return(c, "ok")
       \/ /\ ~res[c].ok
          /\ room' = FaultedSnapshot(room.role)
          /\ Return(c, "error")
          /\ UNCHANGED <<known, feed>>
    /\ UNCHANGED session

\* Mutants: an unhealthy sample faults the room; a healthy one is not acted on.
NextStateFaults(state, net) ==
    IF state = "Connected" /\ net \notin Healthy THEN "Faulted" ELSE state

NextStateOneWay(state, net) ==
    IF state = "Connected" /\ net \notin Healthy THEN "Reconnecting" ELSE state

\* The reconnect transition a sample causes.
NextState(state, net) ==
    IF state = "Connected" /\ net \notin Healthy THEN "Reconnecting"
    ELSE IF state = "Reconnecting" /\ net \in Healthy THEN "Connected"
    ELSE state

\* poll_and_emit under the snapshot lock.  The snapshot to publish is cloned
\* when the state changes, before the new roster is stored.
PollApply(c) ==
    /\ Finishing(c, "poll")
    /\ \/ /\ ~res[c].ok \/ room.state \notin Active
          /\ Return(c, "ok")
          /\ UNCHANGED room
       \/ /\ res[c].ok
          /\ room.state \in Active
          /\ LET sampled == res[c].net # "none"
                 state == IF sampled THEN NextState(room.state, res[c].net) ELSE room.state
                 net == IF sampled THEN res[c].net ELSE room.net
                 cloned == Rewrite(room, state, net, room.members)
             IN  /\ room' = IF res[c].roster = NoRoster THEN cloned
                            ELSE Rewrite(room, state, net, res[c].roster)
                 /\ emit' = [emit EXCEPT ![c] =
                        [net |-> sampled /\ room.net # net, state |-> state # room.state,
                         roster |-> res[c].roster, snapshot |-> cloned]]
          /\ at' = [at EXCEPT ![c] = "publish"]
          /\ UNCHANGED <<op, prev, res, reply>>
    /\ UNCHANGED <<session, known, feed>>

\* What a subscriber holds after the events of one poll, in the order they are
\* published: the peer events of the roster's differences, the sample, the snapshot.
AfterPeerEvents(members, next) ==
    IF next = NoRoster THEN members
    ELSE [m \in Member |-> IF next[m] = known[m] THEN members[m] ELSE next[m]]

\* Mutant: the state-changed event of a poll is not published.
AfterEventsNoState(f, e) ==
    Rewrite(f, f.state, IF e.net THEN e.snapshot.net ELSE f.net,
            AfterPeerEvents(f.members, e.roster))

AfterEvents(f, e) ==
    IF e.state THEN e.snapshot
    ELSE Rewrite(f, f.state, IF e.net THEN e.snapshot.net ELSE f.net,
                 AfterPeerEvents(f.members, e.roster))

\* The rest of poll_and_emit: the difference to known_members becomes events.
PollPublish(c) ==
    /\ at[c] = "publish"
    /\ known' = IF emit[c].roster = NoRoster THEN known ELSE emit[c].roster
    /\ feed' = AfterEvents(feed, emit[c])
    /\ Return(c, "ok")
    /\ UNCHANGED <<session, room>>

-----------------------------------------------------------------------------

Request(c) ==
    \/ BeginCreate(c) \/ BeginJoin(c) \/ BeginSetLan(c)
    \/ BeginDiagnose(c) \/ BeginLeave(c) \/ BeginPoll(c)

Proceed(c) ==
    \/ BackendCreate(c) \/ BackendJoin(c) \/ BackendSetLan(c)
    \/ BackendRefresh(c) \/ BackendDiagnose(c) \/ BackendLeave(c)
    \/ FinishCreate(c) \/ FinishJoin(c) \/ FinishSetLan(c)
    \/ FinishDiagnose(c) \/ FinishProbe(c) \/ FinishLeave(c)
    \/ PollApply(c) \/ PollPublish(c)

Next == \E c \in Callers : Request(c) \/ Proceed(c)

Spec == Init /\ [][Next]_vars

SessionNext == \E c \in Callers : (Quiet /\ Request(c)) \/ Proceed(c)

SessionSpec == Init /\ [][SessionNext]_vars

\* Every awaited backend call is bounded by a timeout, so a begun operation ends;
\* the tick arm of select! is polled again and again, whatever requests arrive.
Fairness ==
    \A c \in Callers : WF_vars(Proceed(c)) /\ SF_vars(Quiet /\ BeginPoll(c))

FairSessionSpec == SessionSpec /\ Fairness

-----------------------------------------------------------------------------
(* Properties *)

\* Every field holds what its declaration allows, whatever callers interleave:
\* in particular a roster is stored only when the backend's answer has one.
TypeOK ==
    /\ session \in Sessions
    /\ room \in Snapshots
    /\ known \in Rosters
    /\ op \in [Callers -> Ops]
    /\ at \in [Callers -> {"ready", "backend", "finish", "publish"}]
    /\ prev \in [Callers -> States]
    /\ res \in [Callers -> Results]
    /\ emit \in [Callers -> Emits]
    /\ reply \in {"none", "ok", "busy", "invalid", "not-host", "not-connected", "error"}
    /\ feed \in Snapshots

\* A snapshot that shows a room is backed by a backend session of the same role:
\* no Connected room after its tunnel has been torn down, and none in the wrong role.
RoomHasSession == room.state \in Active => session = room.role

\* The service is Idle only when the backend holds no session and no member is
\* remembered, so that the next create or join starts from nothing.
IdleIsClean == room.state = "Idle" => session = "none" /\ known = NoMembers

\* A create or a join reaches the backend only when it holds no session, a retry too.
\* An answer that validate_backend_room refuses leaves the session of the backend open
\* behind a Faulted room (service.rs:337-347): the retry must be refused (line 327) until
\* a leave has let that session go.
EntersFresh ==
    \A c \in Callers : op[c] \in {"create", "join"} /\ at[c] = "backend" => session = "none"

\* Between operations, a subscriber that applied every event knows the lifecycle
\* state of the room, unless the room faulted (faults are told to the requester only).
FeedKnowsState ==
    Quiet /\ room.state # "Faulted" => feed.state = room.state

\* A caller is told that it has left only when the backend has let the session go,
\* also when an earlier leave or diagnose had faulted the room.
LeaveIsFinal ==
    [][\A c \in Callers : op[c] = "leave" /\ op'[c] = "none" /\ reply' = "ok"
            => session' = "none" /\ room'.state = "Idle"]_vars

\* An unhealthy or recovered sample moves the room only between Connected and
\* Reconnecting; a poll never takes a room out of or into any other state.
PollOnlyReconnects ==
    [][\A c \in Callers : op[c] = "poll" /\ room'.state # room.state
            => {room.state, room'.state} = {"Connected", "Reconnecting"}]_vars

\* Creating, Joining, Leaving and Diagnosing are passed through, never stayed in.
OperationsEnd ==
    room.state \in {"Creating", "Joining", "Leaving", "Diagnosing"}
        ~> room.state \in {"Idle", "Connected", "Reconnecting", "Faulted"}

\* If every sample from some point on is healthy, the room does not stay
\* Reconnecting, however often it is diagnosed in between.
LinkRecovers ==
    <>[](\A c \in Callers : op[c] = "poll" /\ at[c] = "finish" => res[c].net \in Healthy)
        => []<>(room.state # "Reconnecting")

=============================================================================

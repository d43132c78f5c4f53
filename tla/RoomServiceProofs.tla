-------------------------- MODULE RoomServiceProofs --------------------------
(* Theorems about RoomService, for every set of callers and members and every   *)
(* set of samples: type correctness of any interleaving of callers, and the     *)
(* safety of the room under the session's serialisation.                        *)
EXTENDS RoomService, TLAPS

-----------------------------------------------------------------------------
(* Type correctness *)

\* What the backend returns for a room it opened has a roster and a sample; this
\* is what lets create and join copy them into the snapshot.
OpenedRoster ==
    \A c \in Callers :
        at[c] = "finish" /\ op[c] \in {"create", "join"} /\ res[c].ok
            => res[c].roster \in Rosters

TypeInv == TypeOK /\ OpenedRoster

\* The records an operation builds are snapshots, results and pending events.
LEMMA DataTypes ==
    /\ IdleSnapshot \in Snapshots
    /\ NoMembers \in Rosters
    /\ NothingToEmit \in Emits
    /\ \A s \in States, r \in Roles : Pending(s, r) \in Snapshots
    /\ \A r \in Roles \cup {"None"} : FaultedSnapshot(r) \in Snapshots
    /\ \A ok \in BOOLEAN : Answered(ok) \in Results
    /\ NoResult \in Results
    /\ \A n \in Net, r \in Rosters \cup {NoRoster} : Sampled(n, r) \in Results
<1>1. NoMembers \in Rosters
  BY DEF NoMembers, Rosters
<1>2. IdleSnapshot \in Snapshots
  BY <1>1 DEF IdleSnapshot, Snapshots, States
<1> QED
  BY <1>1, <1>2 DEF NothingToEmit, Emits, Snapshots, Results, Pending, FaultedSnapshot,
                    Answered, NoResult, Sampled, States, Roles

\* Writing fields of a snapshot gives a snapshot.
LEMMA RewriteType ==
    ASSUME NEW s \in Snapshots, NEW state \in States,
           NEW net \in Net \cup {"none"}, NEW members \in Rosters
    PROVE  /\ Rewrite(s, state, net, members) \in Snapshots
           /\ WithState(s, state) \in Snapshots
BY DEF Rewrite, WithState, Snapshots

\* A subscriber's view stays a snapshot whatever events a poll publishes.
LEMMA AfterEventsType ==
    ASSUME NEW f \in Snapshots, known \in Rosters, NEW e \in Emits
    PROVE  AfterEvents(f, e) \in Snapshots
<1>1. f.members \in Rosters /\ f.state \in States /\ f.net \in Net \cup {"none"}
  BY DEF Snapshots
<1>2. e.roster # NoRoster => e.roster \in Rosters
  BY DEF Emits
<1>3. AfterPeerEvents(f.members, e.roster) \in Rosters
  BY <1>1, <1>2 DEF AfterPeerEvents, Rosters
<1>4. e.snapshot \in Snapshots /\ e.snapshot.net \in Net \cup {"none"}
  BY DEF Emits, Snapshots
<1> QED
  BY <1>1, <1>3, <1>4, RewriteType DEF AfterEvents

\* Returning to the caller resets what the operation kept, within its types.
LEMMA ReturnType ==
    ASSUME TypeOK, NEW c \in Callers, NEW a, Return(c, a)
    PROVE  /\ op' \in [Callers -> Ops]
           /\ at' \in [Callers -> {"ready", "backend", "finish", "publish"}]
           /\ prev' \in [Callers -> States]
           /\ res' \in [Callers -> Results]
           /\ emit' \in [Callers -> Emits]
           /\ reply' = a
BY DataTypes DEF Return, TypeOK, Ops, States

\* One step of any caller keeps the types, whatever the other callers are doing.
LEMMA StepTypeInv == TypeInv /\ [Next]_vars => TypeInv'
<1> SUFFICES ASSUME TypeInv, [Next]_vars PROVE TypeInv'
  OBVIOUS
<1>0. CASE UNCHANGED vars
  BY <1>0 DEF TypeInv, TypeOK, OpenedRoster, vars
<1>7. ASSUME NEW c \in Callers
      PROVE  /\ room \in Snapshots /\ room.role \in Roles \cup {"None"}
             /\ room.members \in Rosters /\ room.net \in Net \cup {"none"}
             /\ room.state \in States /\ prev[c] \in States
             /\ res[c].net \in Net \cup {"none"}
             /\ res[c].roster \in Rosters \cup {NoRoster}
  BY DEF TypeInv, TypeOK, Snapshots, Results
<1>1. ASSUME NEW c \in Callers, BeginCreate(c) \/ BeginJoin(c) PROVE TypeInv'
  BY <1>1, DataTypes DEF BeginCreate, BeginJoin, BeginRoom, Refuse, Await, TypeInv, TypeOK,
              OpenedRoster, States, Roles, Ops
<1>2. ASSUME NEW c \in Callers, BeginSetLan(c) \/ BeginPoll(c) PROVE TypeInv'
  BY <1>2 DEF BeginSetLan, BeginPoll, Refuse, Await, TypeInv, TypeOK, OpenedRoster, Ops
<1>3. ASSUME NEW c \in Callers, BeginDiagnose(c) \/ BeginLeave(c) PROVE TypeInv'
  <2>1. room \in Snapshots /\ room.members \in Rosters /\ room.net \in Net \cup {"none"}
    BY DEF TypeInv, TypeOK, Snapshots
  <2>2. WithState(room, "Diagnosing") \in Snapshots /\ WithState(room, "Leaving") \in Snapshots
    BY <2>1, RewriteType DEF States
  <2> QED
    <3>1. CASE BeginDiagnose(c)
      BY <1>7, <2>2, <3>1 DEF BeginDiagnose, Refuse, Await, TypeInv, TypeOK, OpenedRoster, Ops
    <3>2. CASE BeginLeave(c)
      BY <2>2, <3>2 DEF BeginLeave, Refuse, Await, TypeInv, TypeOK, OpenedRoster, Ops
    <3> QED
      BY <1>3, <3>1, <3>2
<1>4. ASSUME NEW c \in Callers, BackendCreate(c) \/ BackendJoin(c) PROVE TypeInv'
  <2>1. PICK o \in {"create", "join"}, role \in Roles : BackendOpen(c, o, role)
    BY <1>4 DEF BackendCreate, BackendJoin, Roles
  <2>2. session' \in Sessions
    BY <2>1 DEF BackendOpen, OpenSession, TypeInv, TypeOK, Sessions
  <2>3. PICK r \in Results : (r.ok => r.roster \in Rosters) /\ Answer(c, r)
    <3>1. NoResult.ok = FALSE /\ NoResult \in Results
      BY DataTypes DEF NoResult, Answered
    <3>2. CASE Answer(c, NoResult)
      BY <3>1, <3>2
    <3>3. ASSUME NEW v \in BOOLEAN, NEW n \in Net, NEW m \in Rosters,
                 Answer(c, [ok |-> TRUE, valid |-> v, net |-> n, roster |-> m])
          PROVE  \E r \in Results : (r.ok => r.roster \in Rosters) /\ Answer(c, r)
      <4>1. [ok |-> TRUE, valid |-> v, net |-> n, roster |-> m] \in Results
        BY DEF Results
      <4> QED
        BY <3>3, <4>1
    <3> QED
      BY <2>1, <3>2, <3>3 DEF BackendOpen
  <2> QED
    BY <2>1, <2>2, <2>3 DEF BackendOpen, Answer, BackendRest, TypeInv, TypeOK, OpenedRoster
<1>5. ASSUME NEW c \in Callers, BackendSetLan(c) \/ BackendLeave(c) PROVE TypeInv'
  BY <1>5, DataTypes DEF BackendSetLan, BackendLeave, CloseSession, Awaits, Answer, BackendRest,
              TypeInv, TypeOK, OpenedRoster, Sessions
<1>6. ASSUME NEW c \in Callers, BackendRefresh(c) \/ BackendDiagnose(c) PROVE TypeInv'
  <2>1. PICK r \in Results : Answer(c, r)
    BY <1>6, DataTypes DEF BackendRefresh, BackendDiagnose
  <2> QED
    BY <1>6, <2>1 DEF BackendRefresh, BackendDiagnose, Awaits, Answer, BackendRest,
                      TypeInv, TypeOK, OpenedRoster
<1>8. ASSUME NEW c \in Callers, FinishCreate(c) \/ FinishJoin(c) PROVE TypeInv'
  <2>1. PICK o \in {"create", "join"}, role \in Roles : FinishRoom(c, o, role)
    BY <1>8 DEF FinishCreate, FinishJoin, Roles
  <2>2. PICK a \in {"ok", "error"} : Return(c, a)
    BY <2>1 DEF FinishRoom
  <2>3. /\ room' \in Snapshots /\ feed' \in Snapshots
        /\ known' \in Rosters /\ session' \in Sessions
    BY <1>7, <2>1, DataTypes DEF FinishRoom, Finishing, PublishState, TypeInv, TypeOK, OpenedRoster,
                      Snapshots, States
  <2> QED
    BY <2>2, <2>3, ReturnType DEF Return, TypeInv, TypeOK, OpenedRoster
<1>9. ASSUME NEW c \in Callers, FinishSetLan(c) PROVE TypeInv'
  <2>1. CASE Return(c, "error")
    BY <1>9, <2>1, ReturnType DEF Return, FinishSetLan, TypeInv, TypeOK, OpenedRoster
  <2>2. CASE Await(c, "poll") /\ UNCHANGED <<prev, res, emit, reply>>
    BY <1>9, <2>2 DEF Await, FinishSetLan, TypeInv, TypeOK, OpenedRoster, Ops
  <2> QED
    BY <1>9, <2>1, <2>2 DEF FinishSetLan
<1>10. ASSUME NEW c \in Callers, FinishDiagnose(c) PROVE TypeInv'
  <2>1. CASE Await(c, "probe") /\ UNCHANGED <<room, prev, res, emit, reply>>
    BY <1>10, <2>1 DEF Await, FinishDiagnose, TypeInv, TypeOK, OpenedRoster, Ops
  <2>2. CASE room' = Rewrite(room, prev[c], res[c].net,
                             IF res[c].roster = NoRoster THEN room.members ELSE res[c].roster)
             /\ Return(c, "ok")
    <3>1. room' \in Snapshots
      BY <1>7, <2>2, RewriteType
    <3> QED
      BY <1>10, <2>2, <3>1, ReturnType DEF Return, FinishDiagnose, TypeInv, TypeOK, OpenedRoster
  <2> QED
    BY <1>10, <2>1, <2>2 DEF FinishDiagnose
<1>11. ASSUME NEW c \in Callers, FinishProbe(c) PROVE TypeInv'
  <2>1. room' \in Snapshots
    <3>1. Rewrite(room, prev[c], res[c].net, room.members) \in Snapshots
      BY <1>7, RewriteType
    <3> QED
      BY <1>7, <1>11, <3>1, DataTypes DEF FinishProbe
  <2>2. PICK a \in {"ok", "error"} : Return(c, a)
    BY <1>11 DEF FinishProbe
  <2> QED
    BY <1>11, <2>1, <2>2, ReturnType DEF Return, FinishProbe, TypeInv, TypeOK, OpenedRoster
<1>12. ASSUME NEW c \in Callers, FinishLeave(c) PROVE TypeInv'
  <2>1. room' \in Snapshots /\ known' \in Rosters /\ feed' \in Snapshots
    BY <1>7, <1>12, DataTypes DEF FinishLeave, PublishState, TypeInv, TypeOK
  <2>2. PICK a \in {"ok", "error"} : Return(c, a)
    BY <1>12 DEF FinishLeave
  <2> QED
    BY <1>12, <2>1, <2>2, ReturnType DEF Return, FinishLeave, TypeInv, TypeOK, OpenedRoster
<1>13. ASSUME NEW c \in Callers, PollApply(c) PROVE TypeInv'
  <2>1. CASE Return(c, "ok") /\ UNCHANGED room
    BY <1>13, <2>1, ReturnType DEF Return, PollApply, TypeInv, TypeOK, OpenedRoster
  <2>2. CASE ~(Return(c, "ok") /\ UNCHANGED room)
    <3> DEFINE sampled == res[c].net # "none"
               state == IF sampled THEN NextState(room.state, res[c].net) ELSE room.state
               net == IF sampled THEN res[c].net ELSE room.net
    <3>1. state \in States /\ net \in Net \cup {"none"}
      BY <1>7 DEF NextState, States
    <3>2. Rewrite(room, state, net, room.members) \in Snapshots
      BY <1>7, <3>1, RewriteType
    <3>3. room' \in Snapshots
      <4>1. res[c].roster # NoRoster => Rewrite(room, state, net, res[c].roster) \in Snapshots
        BY <1>7, <3>1, RewriteType
      <4>2. room' = IF res[c].roster = NoRoster
                    THEN Rewrite(room, state, net, room.members)
                    ELSE Rewrite(room, state, net, res[c].roster)
        BY <1>13, <2>2 DEF PollApply
      <4> QED
        BY <3>2, <4>1, <4>2
    <3>4. emit' \in [Callers -> Emits]
      <4> DEFINE e == [net |-> sampled /\ room.net # net, state |-> state # room.state,
                       roster |-> res[c].roster,
                       snapshot |-> Rewrite(room, state, net, room.members)]
      <4>1. e \in Emits
        BY <1>7, <3>2 DEF Emits
      <4>2. emit' = [emit EXCEPT ![c] = e]
        BY <1>13, <2>2 DEF PollApply
      <4> QED
        BY <4>1, <4>2 DEF TypeInv, TypeOK
    <3> QED
      BY <1>13, <2>2, <3>3, <3>4 DEF PollApply, TypeInv, TypeOK, OpenedRoster
  <2> QED
    BY <2>1, <2>2
<1>14. ASSUME NEW c \in Callers, PollPublish(c) PROVE TypeInv'
  <2>1. emit[c] \in Emits
    BY DEF TypeInv, TypeOK, Emits
  <2>2. known' \in Rosters
    BY <1>14, <2>1 DEF PollPublish, TypeInv, TypeOK, Emits
  <2>3. feed' \in Snapshots
    BY <1>14, <2>1, AfterEventsType DEF PollPublish, TypeInv, TypeOK
  <2> QED
    BY <1>14, <2>2, <2>3, ReturnType DEF Return, PollPublish, TypeInv, TypeOK, OpenedRoster
<1> QED
  BY <1>0, <1>1, <1>2, <1>3, <1>4, <1>5, <1>6, <1>8, <1>9, <1>10, <1>11, <1>12, <1>13, <1>14
     DEF Next, Request, Proceed

\* Every interleaving of any number of callers keeps the service's snapshot, its
\* member table, its pending events and its subscribers' view well formed.
THEOREM TypeCorrect == Spec => []TypeOK
<1>1. Init => TypeInv
  BY DataTypes DEF Init, BackendInit, TypeInv, TypeOK, OpenedRoster, Sessions, Ops, States
<1> QED
  BY <1>1, StepTypeInv, PTL DEF Spec, TypeInv

-----------------------------------------------------------------------------
(* Safety under the session's serialisation *)

Settled == {"Idle", "Connected", "Reconnecting", "Faulted"}

FeedCurrent == room.state # "Faulted" => feed.state = room.state

\* What an operation relies on between two of its awaits: the state it has put
\* the room in, and what the backend has done to the session so far.
Phase(c) ==
    /\ at[c] = "ready" <=> op[c] = "none"
    /\ at[c] = "publish" => op[c] = "poll"
    /\ \A o \in {"create", "join"} : op[c] = o =>
        /\ room.state = (IF o = "create" THEN "Creating" ELSE "Joining")
        /\ at[c] = "backend" => session = "none"
        /\ at[c] = "finish" /\ res[c].ok => session = (IF o = "create" THEN "Host" ELSE "Member")
    /\ op[c] \in {"diagnose", "probe"} =>
        /\ room.state = "Diagnosing"
        /\ prev[c] \in {"Connected", "Reconnecting"}
        /\ feed.state = prev[c]
    /\ op[c] = "leave" =>
        /\ room.state = "Leaving"
        /\ at[c] = "finish" /\ res[c].ok => session = "none"
    /\ op[c] \in {"setlan", "poll"} => room.state \in Settled
    /\ op[c] \in {"setlan", "poll"} /\ at[c] # "publish" => FeedCurrent
    /\ at[c] = "publish" =>
        /\ room.state \in {"Connected", "Reconnecting"}
        /\ IF emit[c].state THEN emit[c].snapshot.state = room.state ELSE FeedCurrent

\* The inductive invariant of SessionSpec.
SessionInv ==
    /\ TypeInv
    /\ RoomHasSession
    /\ IdleIsClean
    /\ \A c, d \in Callers : at[c] # "ready" /\ at[d] # "ready" => c = d
    /\ Quiet => room.state \in Settled /\ FeedCurrent
    /\ \A c \in Callers : Phase(c)

\* While one caller is at work the others are ready, so only its own phase and
\* the shared state have to be looked at.
LEMMA OneAtWork ==
    ASSUME NEW c \in Callers, TypeInv', RoomHasSession', IdleIsClean',
           \A d \in Callers \ {c} : at'[d] = "ready" /\ op'[d] = "none",
           at'[c] = "ready" => room'.state \in Settled /\ FeedCurrent',
           Phase(c)'
    PROVE  SessionInv'
<1>1. ASSUME NEW d \in Callers PROVE Phase(d)'
  <2>1. CASE d = c
    BY <2>1
  <2>2. CASE d # c
    BY <2>2 DEF Phase
  <2> QED
    BY <2>1, <2>2
<1>2. Quiet' => at'[c] = "ready"
  BY DEF Quiet
<1> QED
  BY <1>1, <1>2 DEF SessionInv

\* Every step of the session keeps SessionInv.
LEMMA StepSessionInv == SessionInv /\ [SessionNext]_vars => SessionInv'
<1> SUFFICES ASSUME SessionInv, [SessionNext]_vars PROVE SessionInv'
  OBVIOUS
<1>1. TypeInv'
  <2>1. [Next]_vars
    BY DEF SessionNext, Next
  <2> QED
    BY <2>1, StepTypeInv DEF SessionInv
<1>2. CASE UNCHANGED vars
  BY <1>1, <1>2 DEF vars, SessionInv, RoomHasSession, IdleIsClean, Quiet, FeedCurrent, Phase
<1> DEFINE Goal(c) == /\ RoomHasSession'
                      /\ IdleIsClean'
                      /\ \A d \in Callers \ {c} : at'[d] = "ready" /\ op'[d] = "none"
                      /\ at'[c] = "ready" => room'.state \in Settled /\ FeedCurrent'
                      /\ Phase(c)'
<1> USE DEF RoomHasSession, IdleIsClean, FeedCurrent, Settled, Active
<1>3. ASSUME NEW c \in Callers, Quiet, Request(c) PROVE Goal(c)
  <2>1. \A d \in Callers : at[d] = "ready" /\ op[d] = "none"
    BY <1>3 DEF Quiet, SessionInv, Phase
  <2>2. room.state \in Settled /\ FeedCurrent
    BY <1>3 DEF SessionInv
  <2>3. at \in [Callers -> {"ready", "backend", "finish", "publish"}] /\ op \in [Callers -> Ops]
        /\ prev \in [Callers -> States]
    BY DEF SessionInv, TypeInv, TypeOK
  <2>4. RoomHasSession /\ IdleIsClean
    BY DEF SessionInv
  <2>5. ASSUME NEW a, Refuse(a) PROVE Goal(c)
    BY <2>1, <2>2, <2>4, <2>5 DEF Refuse, Phase
  <2>6. CASE BeginCreate(c)
    BY <2>1, <2>2, <2>3, <2>4, <2>5, <2>6 DEF BeginCreate, BeginRoom, Await, Pending, Phase
  <2>7. CASE BeginJoin(c)
    BY <2>1, <2>2, <2>3, <2>4, <2>5, <2>7 DEF BeginJoin, BeginRoom, Await, Pending, Phase
  <2>8. CASE BeginSetLan(c)
    BY <2>1, <2>2, <2>3, <2>4, <2>5, <2>8 DEF BeginSetLan, Await, Phase
  <2>9. CASE BeginDiagnose(c)
    BY <2>1, <2>2, <2>3, <2>4, <2>5, <2>9 DEF BeginDiagnose, Await, WithState, Rewrite, Phase
  <2>10. CASE BeginLeave(c)
    BY <2>1, <2>2, <2>3, <2>4, <2>5, <2>10 DEF BeginLeave, Await, WithState, Rewrite, Phase
  <2>11. CASE BeginPoll(c)
    BY <2>1, <2>2, <2>3, <2>4, <2>11 DEF BeginPoll, Await, Phase
  <2> QED
    BY <1>3, <2>6, <2>7, <2>8, <2>9, <2>10, <2>11 DEF Request
<1>4. ASSUME NEW c \in Callers, Proceed(c) PROVE Goal(c)
  <2>1. at[c] # "ready"
    BY <1>4 DEF Proceed, BackendCreate, BackendJoin, BackendOpen, BackendSetLan, BackendRefresh,
                BackendDiagnose, BackendLeave, Awaits, FinishCreate, FinishJoin, FinishRoom,
                FinishSetLan, FinishDiagnose, FinishProbe, FinishLeave, PollApply, Finishing,
                PollPublish
  <2>2. \A d \in Callers \ {c} : at[d] = "ready" /\ op[d] = "none"
    BY <2>1 DEF SessionInv, Phase
  <2>3. at \in [Callers -> {"ready", "backend", "finish", "publish"}] /\ op \in [Callers -> Ops]
        /\ prev \in [Callers -> States] /\ res \in [Callers -> Results] /\ emit \in [Callers -> Emits]
    BY DEF SessionInv, TypeInv, TypeOK
  <2>4. RoomHasSession /\ IdleIsClean /\ Phase(c)
    BY DEF SessionInv
  <2>5. ASSUME NEW a, Return(c, a), RoomHasSession', IdleIsClean',
               room'.state \in Settled, FeedCurrent'
        PROVE  Goal(c)
    <3>1. at'[c] = "ready" /\ op'[c] = "none"
      BY <2>3, <2>5 DEF Return
    <3>2. \A d \in Callers \ {c} : at'[d] = "ready" /\ op'[d] = "none"
      BY <2>2, <2>3, <2>5 DEF Return
    <3>3. Phase(c)'
      BY <3>1 DEF Phase
    <3> QED
      BY <2>5, <3>1, <3>2, <3>3
  <2>6. CASE BackendCreate(c) \/ BackendJoin(c)
    <3>1. ~NoResult.ok
      BY DEF NoResult, Answered
    <3> QED
      BY <2>2, <2>3, <2>4, <2>6, <3>1
         DEF BackendCreate, BackendJoin, BackendOpen, OpenSession, Awaits, Answer, BackendRest, Phase
  <2>7. CASE BackendSetLan(c)
    BY <2>2, <2>3, <2>4, <2>7 DEF BackendSetLan, Awaits, Answer, BackendRest, Phase
  <2>8. CASE BackendRefresh(c) \/ BackendDiagnose(c)
    BY <2>2, <2>3, <2>4, <2>8 DEF BackendRefresh, BackendDiagnose, Awaits, Answer, BackendRest, Phase
  <2>9. CASE BackendLeave(c)
    <3>1. ~NoResult.ok
      BY DEF NoResult, Answered
    <3> QED
      BY <2>2, <2>3, <2>4, <2>9, <3>1 DEF BackendLeave, CloseSession, Awaits, Answer, BackendRest, Phase
  <2>10. CASE FinishCreate(c)
    BY <2>4, <2>5, <2>10 DEF FinishCreate, FinishRoom, Finishing, PublishState, FaultedSnapshot, Phase
  <2>11. CASE FinishJoin(c)
    BY <2>4, <2>5, <2>11 DEF FinishJoin, FinishRoom, Finishing, PublishState, FaultedSnapshot, Phase
  <2>12. CASE FinishSetLan(c)
    <3>1. CASE Return(c, "error")
      BY <2>4, <2>5, <2>12, <3>1 DEF FinishSetLan, Finishing, Phase
    <3>2. CASE Await(c, "poll")
      BY <2>2, <2>3, <2>4, <2>12, <3>2 DEF FinishSetLan, Finishing, Await, Phase
    <3> QED
      BY <2>12, <3>1, <3>2 DEF FinishSetLan
  <2>13. CASE FinishDiagnose(c)
    <3>1. CASE Await(c, "probe") /\ UNCHANGED <<room, prev, res, emit, reply>>
      BY <2>2, <2>3, <2>4, <2>13, <3>1 DEF FinishDiagnose, Finishing, Await, Phase
    <3>2. CASE Return(c, "ok") /\ room' = Rewrite(room, prev[c], res[c].net,
                   IF res[c].roster = NoRoster THEN room.members ELSE res[c].roster)
      BY <2>4, <2>5, <2>13, <3>2 DEF FinishDiagnose, Finishing, Rewrite, Phase
    <3> QED
      BY <2>13, <3>1, <3>2 DEF FinishDiagnose
  <2>14. CASE FinishProbe(c)
    BY <2>4, <2>5, <2>14 DEF FinishProbe, Finishing, Rewrite, FaultedSnapshot, Phase
  <2>15. CASE FinishLeave(c)
    BY <2>4, <2>5, <2>15 DEF FinishLeave, Finishing, PublishState, FaultedSnapshot, IdleSnapshot, Phase
  <2>16. CASE PollApply(c)
    <3>1. CASE Return(c, "ok") /\ UNCHANGED room
      BY <2>4, <2>5, <2>16, <3>1 DEF PollApply, Finishing, Phase
    <3>2. CASE ~(Return(c, "ok") /\ UNCHANGED room)
      <4> DEFINE sampled == res[c].net # "none"
                 state == IF sampled THEN NextState(room.state, res[c].net) ELSE room.state
                 net == IF sampled THEN res[c].net ELSE room.net
      <4>1. room.state \in {"Connected", "Reconnecting"} /\ state \in {"Connected", "Reconnecting"}
        BY <2>4, <2>16, <3>2 DEF PollApply, Finishing, NextState, Phase
      <4>2. room'.state = state /\ room'.role = room.role
        BY <2>16, <3>2 DEF PollApply, Rewrite
      <4>3. /\ at' = [at EXCEPT ![c] = "publish"] /\ UNCHANGED <<op, session, known, feed>>
            /\ op[c] = "poll"
        BY <2>16, <3>2 DEF PollApply, Finishing
      <4>4. emit'[c].state = (state # room.state) /\ emit'[c].snapshot.state = state
        BY <2>3, <2>16, <3>2 DEF PollApply, Rewrite
      <4>5. FeedCurrent
        BY <2>4, <2>16 DEF PollApply, Finishing, Phase
      <4>6. Phase(c)'
        BY <2>3, <4>1, <4>2, <4>3, <4>4, <4>5 DEF Phase
      <4> QED
        BY <2>2, <2>3, <2>4, <4>1, <4>2, <4>3, <4>6
    <3> QED
      BY <3>1, <3>2
  <2>17. CASE PollPublish(c)
    <3>1. room.state \in {"Connected", "Reconnecting"}
      BY <2>4, <2>17 DEF PollPublish, Phase
    <3> QED
      BY <2>4, <2>5, <2>17, <3>1 DEF PollPublish, AfterEvents, Rewrite, Phase
  <2> QED
    BY <1>4, <2>6, <2>7, <2>8, <2>9, <2>10, <2>11, <2>12, <2>13, <2>14, <2>15, <2>16, <2>17
       DEF Proceed
<1>5. ASSUME NEW c \in Callers, Goal(c) PROVE SessionInv'
  BY <1>1, <1>5, OneAtWork
<1> QED
  BY <1>2, <1>3, <1>4, <1>5 DEF SessionNext

\* SessionInv holds initially, so it always holds.
LEMMA SessionInvariant == SessionSpec => []SessionInv
<1>1. Init => SessionInv
  <2>1. ASSUME Init PROVE TypeInv
    BY <2>1, DataTypes DEF Init, BackendInit, TypeInv, TypeOK, OpenedRoster, Sessions, Ops, States
  <2> QED
    BY <2>1 DEF Init, BackendInit, SessionInv, RoomHasSession, IdleIsClean, Quiet, FeedCurrent,
                Settled, Active, Phase, IdleSnapshot
<1> QED
  BY <1>1, StepSessionInv, PTL DEF SessionSpec

\* In the deployed system a snapshot that shows a room is always backed by a
\* backend session of its role, for any members, samples and backend failures.
THEOREM RoomAlwaysHasSession == SessionSpec => []RoomHasSession
<1>1. SessionInv => RoomHasSession
  BY DEF SessionInv
<1> QED
  BY <1>1, SessionInvariant, PTL

\* In the deployed system Idle means that nothing of an earlier room is left.
THEOREM IdleAlwaysClean == SessionSpec => []IdleIsClean
<1>1. SessionInv => IdleIsClean
  BY DEF SessionInv
<1> QED
  BY <1>1, SessionInvariant, PTL

\* A create or join never finds a session that an earlier one has left in the backend.
THEOREM AlwaysEntersFresh == SessionSpec => []EntersFresh
<1>1. SessionInv => EntersFresh
  BY DEF SessionInv, Phase, EntersFresh
<1> QED
  BY <1>1, SessionInvariant, PTL

\* Between operations the published events tell the room's lifecycle state.
THEOREM FeedAlwaysKnowsState == SessionSpec => []FeedKnowsState
<1>1. SessionInv => FeedKnowsState
  BY DEF SessionInv, FeedKnowsState, FeedCurrent
<1> QED
  BY <1>1, SessionInvariant, PTL
\* While a caller's operation is under way only that operation goes on.
LEMMA OnlyTheWorker ==
    ASSUME SessionInv, [SessionNext]_vars, NEW c \in Callers, op[c] # "none"
    PROVE  Proceed(c) \/ UNCHANGED vars
<1>1. at[c] # "ready"
  BY DEF SessionInv, Phase
<1>2. ~Quiet
  BY <1>1 DEF Quiet
<1>3. ASSUME NEW d \in Callers, Proceed(d) PROVE d = c
  <2>1. at[d] # "ready"
    BY <1>3 DEF Proceed, BackendCreate, BackendJoin, BackendOpen, BackendSetLan, BackendRefresh,
                BackendDiagnose, BackendLeave, Awaits, FinishCreate, FinishJoin, FinishRoom,
                FinishSetLan, FinishDiagnose, FinishProbe, FinishLeave, PollApply, Finishing,
                PollPublish
  <2> QED
    BY <1>1, <2>1 DEF SessionInv
<1> QED
  BY <1>2, <1>3 DEF SessionNext

\* A leave that is reported as done has closed the backend's session and made the
\* room idle, whatever faults came before it.
THEOREM LeaveAlwaysFinal == SessionSpec => LeaveIsFinal
<1> DEFINE Left(c) == op[c] = "leave" /\ op'[c] = "none" /\ reply' = "ok"
                          => session' = "none" /\ room'.state = "Idle"
<1>1. ASSUME SessionInv, [SessionNext]_vars, NEW c \in Callers PROVE Left(c)
  <2> SUFFICES ASSUME op[c] = "leave", op'[c] = "none", reply' = "ok"
               PROVE  session' = "none" /\ room'.state = "Idle"
    OBVIOUS
  <2>1. Phase(c)
    BY <1>1 DEF SessionInv
  <2>2. Proceed(c) \/ UNCHANGED vars
    BY <1>1, OnlyTheWorker
  <2>3. at[c] # "publish" /\ ~UNCHANGED vars
    BY <2>1 DEF Phase, vars
  <2>4. BackendLeave(c) \/ FinishLeave(c)
    BY <2>2, <2>3 DEF Proceed, BackendCreate, BackendJoin, BackendOpen, BackendSetLan, BackendRefresh,
                BackendDiagnose, Awaits, FinishCreate, FinishJoin, FinishRoom,
                FinishSetLan, FinishDiagnose, FinishProbe, PollApply, Finishing, PollPublish
  <2>5. ~BackendLeave(c)
    BY DEF BackendLeave, BackendRest
  <2>6. at[c] = "finish" /\ res[c].ok /\ room' = IdleSnapshot /\ session' = session
    BY <2>4, <2>5 DEF FinishLeave, Finishing, Return
  <2>7. session = "none"
    BY <2>1, <2>6 DEF Phase
  <2> QED
    BY <2>6, <2>7 DEF IdleSnapshot
<1>2. SessionInv /\ [SessionNext]_vars => [\A c \in Callers : Left(c)]_vars
  BY <1>1
<1> QED
  BY <1>2, SessionInvariant, PTL DEF SessionSpec, LeaveIsFinal

\* A sample moves the room between Connected and Reconnecting and nowhere else.
THEOREM PollsOnlyReconnect == SessionSpec => PollOnlyReconnects
<1> DEFINE Moved(c) == op[c] = "poll" /\ room'.state # room.state
                           => {room.state, room'.state} = {"Connected", "Reconnecting"}
<1>1. ASSUME SessionInv, [SessionNext]_vars, NEW c \in Callers PROVE Moved(c)
  <2> SUFFICES ASSUME op[c] = "poll", room'.state # room.state
               PROVE  {room.state, room'.state} = {"Connected", "Reconnecting"}
    OBVIOUS
  <2>1. Phase(c)
    BY <1>1 DEF SessionInv
  <2>2. Proceed(c) \/ UNCHANGED vars
    BY <1>1, OnlyTheWorker
  <2>3. room' # room
    OBVIOUS
  <2>4. PollApply(c)
    BY <2>2, <2>3 DEF Proceed, BackendCreate, BackendJoin, BackendOpen, BackendSetLan, BackendRefresh,
                BackendDiagnose, BackendLeave, BackendRest, Awaits, FinishCreate, FinishJoin, FinishRoom,
                FinishSetLan, FinishDiagnose, FinishProbe, FinishLeave, Finishing, PollPublish, vars
  <2>5. room.state \in Settled /\ room.state \in Active
    BY <2>1, <2>3, <2>4 DEF Phase, PollApply
  <2>6. room'.state \in {room.state, NextState(room.state, res[c].net)}
    BY <2>3, <2>4 DEF PollApply, Rewrite
  <2> QED
    BY <2>5, <2>6 DEF Settled, Active, NextState
<1>2. SessionInv /\ [SessionNext]_vars => [\A c \in Callers : Moved(c)]_vars
  BY <1>1
<1> QED
  BY <1>2, SessionInvariant, PTL DEF SessionSpec, PollOnlyReconnects
=============================================================================

-------------------------- MODULE ScaffoldingProofs --------------------------
(* The player table of Scaffolding, proved for every set of members and probe   *)
(* ids and for every timeout.  ServerInv is the inductive invariant: a row's    *)
(* age is bounded by how far the cleanup interval has run and how long a        *)
(* cleanup under way has waited, a row is no older than the last ping of its    *)
(* id, and a join is made under the member's own machine id.                    *)
EXTENDS Scaffolding, TLAPS

\* While the next cleanup is timer units away, a guest has been silent for at most
\* the timeout and what has passed of the interval; while a cleanup waits, for the
\* whole interval and that wait.  A server that is gone has no rows.
AgeBound ==
    /\ ~serving => players = {} /\ ~sweeping
    /\ sweeping => /\ timer + since = CleanupInterval
                   /\ \A i \in players \ {Host} :
                         age[i] <= PlayerTimeout + CleanupInterval + since
    /\ ~sweeping => /\ since = 0
                    /\ \A i \in players \ {Host} :
                          age[i] + timer <= PlayerTimeout + CleanupInterval

\* A ping within the timeout has left a row, which is no older.
FreshRows ==
    serving => \A i \in Ids \ {Host} :
                  heard[i] <= PlayerTimeout => i \in players /\ age[i] <= heard[i]

\* collect_member_snapshot connects under the member's machine id.
JoinUnderOwnId == \A m \in Members : stage[m] = "joining" => profile[m] = MachineId(m)

ServerInv == TypeOK /\ HostIsUnique /\ AgeBound /\ FreshRows /\ JoinUnderOwnId

-----------------------------------------------------------------------------
\* Machine ids are ids.
LEMMA MachineIdType == \A m \in Members : MachineId(m) \in Ids
  BY DEF MachineId, Ids

\* The history counts up to LongAgo, one unit more than the timeout.
LEMMA LaterType == \A t \in 0..LongAgo : Later(t) \in 0..LongAgo
  BY TimesAssumption DEF Later, LongAgo

\* The table and the exchanges start within the invariant (ServerContext::new).
LEMMA InitServerInv == Init => ServerInv
<1> SUFFICES ASSUME Init PROVE ServerInv
  OBVIOUS
<1>1. TypeOK
  <2>1. LongAgo \in 0..LongAgo /\ 0 \in 0..LockWait /\ 0 \in 0..CleanupInterval
        /\ 0 \in 0..RequestTimeout
    BY TimesAssumption, LockAssumption DEF LongAgo
  <2> QED  BY <2>1, MachineIdType DEF Init, TypeOK, Ids
<1>2. HostIsUnique /\ JoinUnderOwnId
  BY DEF Init, HostIsUnique, JoinUnderOwnId
<1>3. AgeBound /\ FreshRows
  BY TimesAssumption DEF Init, AgeBound, FreshRows, LongAgo
<1> QED  BY <1>1, <1>2, <1>3 DEF ServerInv

\* The cleanup, from its reading of the clock to the removal, keeps the invariant.
LEMMA CleanupSteps ==
  ASSUME ServerInv, BeginCleanup \/ RemoveStaleGuests
  PROVE  ServerInv'
<1>1. CASE BeginCleanup
  <2>1. TypeOK'
    BY <1>1, TimesAssumption, LockAssumption
    DEF ServerInv, TypeOK, BeginCleanup, memberVars
  <2>2. HostIsUnique' /\ FreshRows' /\ JoinUnderOwnId'
    BY <1>1
    DEF ServerInv, HostIsUnique, FreshRows, JoinUnderOwnId, BeginCleanup, memberVars, MachineId
  <2>3. AgeBound'
    BY <1>1, TimesAssumption DEF ServerInv, TypeOK, AgeBound, BeginCleanup
  <2> QED  BY <2>1, <2>2, <2>3 DEF ServerInv
<1>2. CASE RemoveStaleGuests
  <2>1. TypeOK'
    <3>1. sweeping' \in BOOLEAN
      BY <1>2 DEF RemoveStaleGuests
    <3>4. since' \in 0..LockWait
      <4>1. since' = 0
        BY <1>2 DEF RemoveStaleGuests
      <4> QED  BY <4>1, LockAssumption
    <3>2. players' \subseteq Ids
      BY <1>2 DEF ServerInv, TypeOK, RemoveStaleGuests
    <3>3. age' \in [Ids -> Nat]
      <4>1. age' = [i \in Ids |-> IF i \in players' THEN age[i] ELSE 0] /\ age \in [Ids -> Nat]
        BY <1>2 DEF ServerInv, TypeOK, RemoveStaleGuests
      <4> QED  BY <4>1
    <3> QED  BY <1>2, <3>1, <3>2, <3>3, <3>4
             DEF ServerInv, TypeOK, RemoveStaleGuests, memberVars
  <2>2. HostIsUnique' /\ JoinUnderOwnId'
    BY <1>2 DEF ServerInv, HostIsUnique, JoinUnderOwnId, RemoveStaleGuests, Stale, memberVars, MachineId
  <2>3. AgeBound'
    <3>1. \A i \in players' \ {Host} : age'[i] <= since + PlayerTimeout
      BY <1>2, TimesAssumption, LockAssumption DEF ServerInv, TypeOK, RemoveStaleGuests, Stale
    <3>2. timer' + since = CleanupInterval
      BY <1>2 DEF ServerInv, AgeBound, RemoveStaleGuests
    <3>5. serving' /\ ~sweeping' /\ since' = 0
      BY <1>2 DEF ServerInv, AgeBound, RemoveStaleGuests
    <3>3. age' \in [Ids -> Nat] /\ players' \subseteq Ids /\ timer' \in Nat /\ since \in Nat
      BY <2>1, TimesAssumption, LockAssumption DEF ServerInv, TypeOK
    <3>4. \A i \in players' \ {Host} : age'[i] + timer' <= PlayerTimeout + CleanupInterval
      <4>1. SUFFICES ASSUME NEW i \in players' \ {Host}
                     PROVE  age'[i] + timer' <= PlayerTimeout + CleanupInterval
        OBVIOUS
      <4>2. age'[i] <= since + PlayerTimeout /\ age'[i] \in Nat
        BY <3>1, <3>3
      <4>3. \A a, t, s, p, c \in Nat : a <= s + p /\ t + s = c => a + t <= p + c
        OBVIOUS
      <4> QED  BY <3>2, <3>3, <4>2, <4>3, TimesAssumption
    <3> QED  BY <3>5, <3>4 DEF AgeBound
  <2>4. FreshRows'
    BY <1>2, TimesAssumption, LockAssumption
    DEF ServerInv, TypeOK, FreshRows, RemoveStaleGuests, Stale, LongAgo
  <2> QED  BY <2>1, <2>2, <2>3, <2>4 DEF ServerInv
<1> QED  BY <1>1, <1>2

\* The end of the server and the clock keep the invariant.
LEMMA ServerSteps ==
  ASSUME ServerInv, Shutdown \/ Tick
  PROVE  ServerInv'
<1>1. CASE Shutdown
  <2>1. TypeOK'
    <3>1. timer' \in 0..CleanupInterval /\ since' \in 0..LockWait
      BY <1>1, TimesAssumption, LockAssumption DEF Shutdown
    <3>2. serving' \in BOOLEAN /\ sweeping' \in BOOLEAN /\ players' \subseteq Ids
          /\ age' \in [Ids -> Nat]
      BY <1>1 DEF Shutdown
    <3> QED  BY <1>1, <3>1, <3>2 DEF ServerInv, TypeOK, Shutdown, memberVars
  <2>2. HostIsUnique' /\ JoinUnderOwnId'
    BY <1>1 DEF ServerInv, HostIsUnique, JoinUnderOwnId, Shutdown, memberVars, MachineId
  <2>3. AgeBound' /\ FreshRows'
    BY <1>1 DEF AgeBound, FreshRows, Shutdown
  <2> QED  BY <2>1, <2>2, <2>3 DEF ServerInv
<1>2. CASE Tick
  <2>1. TypeOK'
    BY <1>2, LaterType, TimesAssumption, LockAssumption DEF ServerInv, TypeOK, Tick
  <2>2. HostIsUnique' /\ JoinUnderOwnId'
    BY <1>2 DEF ServerInv, HostIsUnique, JoinUnderOwnId, Tick, MachineId
  <2>3. AgeBound'
    <3>1. CASE serving
      BY <1>2, <3>1, TimesAssumption, LockAssumption DEF ServerInv, TypeOK, AgeBound, Tick
    <3>2. CASE ~serving
      BY <1>2, <3>2 DEF ServerInv, AgeBound, Tick
    <3> QED  BY <3>1, <3>2
  <2>4. FreshRows'
    BY <1>2, TimesAssumption DEF ServerInv, TypeOK, FreshRows, Tick, Later, LongAgo
  <2> QED  BY <2>1, <2>2, <2>3, <2>4 DEF ServerInv
<1> QED  BY <1>1, <1>2

\* The player ping, the one request that changes the table, keeps the invariant.
LEMMA PingStep ==
  ASSUME ServerInv, NEW m \in Members, PlayerPing(m)
  PROVE  ServerInv'
<1>1. PICK claimed \in {"HOST", "GUEST"} : RecordGuest(profile[m], claimed)
  BY DEF PlayerPing
<1>2. profile[m] \in Ids \ {Host} /\ serving
  BY DEF ServerInv, TypeOK, PlayerPing, Request
<1>3. TypeOK'
  BY <1>1, <1>2, TimesAssumption, LockAssumption
  DEF ServerInv, TypeOK, PlayerPing, RecordGuest, Proceed, LongAgo
<1>4. HostIsUnique'
  BY <1>1, <1>2 DEF ServerInv, TypeOK, HostIsUnique, PlayerPing, RecordGuest, Proceed, MachineId
<1>5. AgeBound' /\ FreshRows'
  BY <1>1, <1>2, TimesAssumption, LockAssumption
  DEF ServerInv, TypeOK, AgeBound, FreshRows, PlayerPing, RecordGuest
<1>6. JoinUnderOwnId'
  BY DEF ServerInv, JoinUnderOwnId, PlayerPing, Proceed, MachineId
<1> QED  BY <1>3, <1>4, <1>5, <1>6 DEF ServerInv

\* An exchange that fails leaves the member with its old roster or with itself alone.
LEMMA GiveUpStep ==
  ASSUME ServerInv, NEW m \in Members, GiveUp(m), UNCHANGED serverVars
  PROVE  ServerInv'
<1>1. TypeOK'
  BY MachineIdType, TimesAssumption DEF ServerInv, TypeOK, GiveUp, Finish, serverVars
<1>2. HostIsUnique'
  BY DEF ServerInv, TypeOK, HostIsUnique, JoinUnderOwnId, GiveUp, Finish, serverVars, MachineId
<1>3. AgeBound' /\ FreshRows' /\ JoinUnderOwnId'
  BY DEF ServerInv, TypeOK, AgeBound, FreshRows, JoinUnderOwnId, GiveUp, Finish, serverVars, MachineId
<1> QED  BY <1>1, <1>2, <1>3 DEF ServerInv

\* Every step of a member keeps the invariant.
LEMMA MemberSteps ==
  ASSUME ServerInv, NEW m \in Members, MemberStep(m)
  PROVE  ServerInv'
<1>1. CASE Join(m)
  <2>1. TypeOK'
    BY <1>1, MachineIdType, TimesAssumption DEF ServerInv, TypeOK, Join, Exchange, serverVars
  <2> QED  BY <1>1, <2>1
    DEF ServerInv, TypeOK, HostIsUnique, AgeBound, FreshRows, JoinUnderOwnId, Join, Exchange, serverVars, MachineId
<1>2. CASE Refresh(m)
  <2>1. PICK p \in Probes : Exchange(m, p)
    BY <1>2 DEF Refresh
  <2>2. TypeOK'
    BY <1>2, <2>1, TimesAssumption DEF ServerInv, TypeOK, Refresh, Exchange, serverVars, Ids
  <2> QED  BY <1>2, <2>1, <2>2
    DEF ServerInv, TypeOK, HostIsUnique, AgeBound, FreshRows, JoinUnderOwnId, Refresh, Exchange, serverVars, MachineId
<1>3. CASE Leave(m)
  <2>1. TypeOK'
    BY <1>3 DEF ServerInv, TypeOK, Leave, serverVars
  <2> QED  BY <1>3, <2>1
    DEF ServerInv, TypeOK, HostIsUnique, AgeBound, FreshRows, JoinUnderOwnId, Leave, serverVars, MachineId
<1>4. CASE PlayerPing(m)
  BY <1>4, PingStep
<1>5. CASE Protocols(m)
  <2>1. TypeOK'
    BY <1>5, TimesAssumption DEF ServerInv, TypeOK, Protocols, Proceed, serverVars
  <2> QED  BY <1>5, <2>1
    DEF ServerInv, HostIsUnique, AgeBound, FreshRows, JoinUnderOwnId, Protocols, Proceed, serverVars, MachineId
<1>6. CASE PlayerProfilesList(m)
  <2>1. TypeOK'
    BY <1>6, MachineIdType, TimesAssumption
    DEF ServerInv, TypeOK, PlayerProfilesList, Finish, serverVars, Ids
  <2>2. HostIsUnique'
    BY <1>6 DEF ServerInv, TypeOK, HostIsUnique, PlayerProfilesList, Request, Finish, serverVars, MachineId
  <2>3. AgeBound' /\ FreshRows' /\ JoinUnderOwnId'
    BY <1>6 DEF ServerInv, TypeOK, AgeBound, FreshRows, JoinUnderOwnId, PlayerProfilesList, Finish, serverVars, MachineId
  <2> QED  BY <2>1, <2>2, <2>3 DEF ServerInv
<1>7. CASE PlayerPingRefused(m) \/ Disconnect(m) \/ TimeOut(m)
  BY <1>7, GiveUpStep DEF PlayerPingRefused, Disconnect, TimeOut
<1> QED  BY <1>1, <1>2, <1>3, <1>4, <1>5, <1>6, <1>7 DEF MemberStep

\* The invariant holds always.
LEMMA ServerInvariant == Spec => []ServerInv
<1>1. ServerInv /\ [Next]_vars => ServerInv'
  <2> SUFFICES ASSUME ServerInv, [Next]_vars PROVE ServerInv'
    OBVIOUS
  <2>1. CASE BeginCleanup \/ RemoveStaleGuests
    BY <2>1, CleanupSteps
  <2>4. CASE Shutdown \/ Tick
    BY <2>4, ServerSteps
  <2>2. CASE \E m \in Members : MemberStep(m)
    BY <2>2, MemberSteps
  <2>3. CASE UNCHANGED vars
    BY <2>3
    DEF vars, ServerInv, TypeOK, HostIsUnique, AgeBound, FreshRows, JoinUnderOwnId, MachineId
  <2> QED  BY <2>1, <2>2, <2>3, <2>4 DEF Next
<1> QED  BY InitServerInv, <1>1, PTL DEF Spec

-----------------------------------------------------------------------------
\* The table, the timers and the exchanges keep their types, for any number of
\* members and probes; the cleanup is never further away than its interval.
THEOREM TypesHold == Spec => []TypeOK
  BY ServerInvariant, PTL DEF ServerInv

\* record_guest and remove_stale_guests keep exactly one HOST in the table and in
\* every roster a member is given, whatever clients claim and however many they are.
THEOREM HostAlwaysUnique == Spec => []HostIsUnique
  BY ServerInvariant, PTL DEF ServerInv

\* A silent guest is out of the table within the timeout, one cleanup interval and the
\* wait for the lock, whatever they are (PLAYER_TIMEOUT, CLEANUP_INTERVAL of server.rs).
THEOREM SilentGuestsAlwaysLeave == Spec => []SilentGuestsLeave
<1>1. ServerInv => SilentGuestsLeave
  BY TimesAssumption, LockAssumption DEF ServerInv, TypeOK, AgeBound, SilentGuestsLeave
<1> QED  BY ServerInvariant, <1>1, PTL

\* Whoever was heard within the timeout is in the table, also when a ping falls between
\* the cleanup's reading of the clock and its removal of rows (server.rs:84-108).
THEOREM HeardAlwaysListed == Spec => []HeardAreListed
<1>1. ServerInv => HeardAreListed
  BY DEF ServerInv, HostIsUnique, FreshRows, HeardAreListed
<1> QED  BY ServerInvariant, <1>1, PTL
==============================================================================

----------------------------- MODULE Scaffolding -----------------------------
(* The table of players a host keeps and how members enter it: the Scaffolding *)
(* server and client (scaffolding/server.rs, client.rs, protocol.rs) with their *)
(* two callers in network/backend.rs, the join of a member and its refresh.     *)
(*                                                                              *)
(* An exchange is the four requests those callers make: c:player_ping and       *)
(* c:protocols (connect), c:player_ping and c:player_profiles_list (heartbeat). *)
(* A join makes it under the member's machine id, a refresh under an id of its  *)
(* own, "probe-" with the current second.  Time is counted in units of which    *)
(* the two server intervals and the request timeout are multiples; a row of the *)
(* table keeps the time since its player was last heard.  The cleanup reads the *)
(* clock and then waits for the write lock of the table.                        *)
EXTENDS Naturals, FiniteSets

CONSTANTS Members,      \* members of the room
          Twins,        \* the members that have the host's machine id (same machine)
          Host,
          Probes,       \* bound: probe ids in use at a time
          PlayerTimeout, CleanupInterval,
          RequestTimeout,       \* how long a client waits for one answer
          LockWait              \* bound: how long the cleanup waits for the table

ASSUME IdsAssumption == Twins \subseteq Members /\ Host \notin Members \cup Probes
                        /\ Members \cap Probes = {}
ASSUME TimesAssumption == PlayerTimeout \in Nat /\ CleanupInterval \in Nat \ {0}
                          /\ RequestTimeout \in Nat
\* The lock is only held over work in memory, far shorter than the interval.
ASSUME LockAssumption == LockWait \in Nat /\ LockWait < CleanupInterval

Ids == Members \cup Probes \cup {Host}

VARIABLES
    serving,            \* the server has not been told to shut down
    players,            \* the machine ids in the table
    kind, age,          \* of their rows: the player's kind and the time since last_seen
    timer,              \* until the next tick of the cleanup interval
    sweeping, since,    \* a cleanup waits for the lock, and since when it read the clock
    stage,              \* of each member: out of the room, joining or in it
    step, profile,      \* the request its exchange is at, and the id it is made under
    waited,             \* how long that request has waited
    view,               \* the roster the member was last given: the host and itself
    heard               \* history: since a ping of this id was last answered

vars == <<serving, players, kind, age, timer, sweeping, since, stage, step, profile, waited,
          view, heard>>

serverVars == <<serving, players, kind, age, timer, sweeping, since, heard>>
memberVars == <<stage, step, profile, waited, view>>

MachineId(m) == IF m \in Twins THEN Host ELSE m

\* The history tells times apart up to the timeout.
LongAgo == PlayerTimeout + 1

Later(t) == IF t < LongAgo THEN t + 1 ELSE LongAgo

Init ==
    /\ serving = TRUE
    /\ players = {Host}
    /\ kind = [i \in Ids |-> IF i = Host THEN "HOST" ELSE "GUEST"]
    /\ age = [i \in Ids |-> 0]
    /\ timer = 0 /\ sweeping = FALSE /\ since = 0
    /\ heard = [i \in Ids |-> LongAgo]
    /\ stage = [m \in Members |-> "out"]
    /\ step = [m \in Members |-> "none"]
    /\ profile = [m \in Members |-> MachineId(m)]
    /\ waited = [m \in Members |-> 0]
    /\ view = [m \in Members |-> {}]

-----------------------------------------------------------------------------
(* The server *)

\* Mutant: the kind a client claims is kept.
RecordGuestTrusts(i, claimed) ==
    /\ players' = players \cup {i}
    /\ kind' = [kind EXCEPT ![i] = claimed]
    /\ age' = [age EXCEPT ![i] = 0]

\* Mutant: an old row keeps the time it was first seen.
RecordGuestKeepsSeen(i, claimed) ==
    /\ players' = players \cup {i}
    /\ kind' = [kind EXCEPT ![i] = "GUEST"]
    /\ UNCHANGED age

\* record_guest: whatever kind the profile claims, the row is a guest's.
RecordGuest(i, claimed) ==
    /\ players' = players \cup {i}
    /\ kind' = [kind EXCEPT ![i] = "GUEST"]
    /\ age' = [age EXCEPT ![i] = 0]

\* Mutant: a guest stays one unit longer.
StaleLate(i) == i # Host /\ age[i] > since + PlayerTimeout + 1

\* The row's silence when the clock was read is over the timeout.  A row written
\* after that counts as just seen: duration_since saturates.
Stale(i) == i # Host /\ age[i] > since + PlayerTimeout

\* Mutant: the interval is counted from the tick after.
BeginCleanupLate ==
    /\ serving /\ timer = 0 /\ ~sweeping
    /\ sweeping' = TRUE /\ since' = 0
    /\ timer' = CleanupInterval + 1
    /\ UNCHANGED <<serving, players, kind, age, heard, memberVars>>

\* The interval ticks: remove_stale_guests reads the clock and asks for the lock.
BeginCleanup ==
    /\ serving /\ timer = 0 /\ ~sweeping
    /\ sweeping' = TRUE /\ since' = 0
    /\ timer' = CleanupInterval
    /\ UNCHANGED <<serving, players, kind, age, heard, memberVars>>

\* The lock is given and the stale rows go.
RemoveStaleGuests ==
    /\ sweeping
    /\ sweeping' = FALSE /\ since' = 0
    /\ players' = {i \in players : ~Stale(i)}
    /\ age' = [i \in Ids |-> IF i \in players' THEN age[i] ELSE 0]
    /\ UNCHANGED <<serving, kind, timer, heard, memberVars>>

\* The host leaves or ends: the server's task is aborted wherever it is, and the
\* client tasks, the table and the interval go with it.
Shutdown ==
    /\ serving
    /\ serving' = FALSE
    /\ players' = {} /\ age' = [i \in Ids |-> 0] /\ timer' = 0
    /\ sweeping' = FALSE /\ since' = 0
    /\ UNCHANGED <<kind, heard, memberVars>>

-----------------------------------------------------------------------------
(* The exchange of a member *)

Exchange(m, i) ==
    /\ step[m] = "none"
    /\ step' = [step EXCEPT ![m] = "ping"]
    /\ profile' = [profile EXCEPT ![m] = i]
    /\ waited' = [waited EXCEPT ![m] = 0]
    /\ UNCHANGED <<serverVars, view>>

Join(m) ==
    /\ stage[m] = "out"
    /\ stage' = [stage EXCEPT ![m] = "joining"]
    /\ Exchange(m, MachineId(m))

\* The id of this second: a new one, or the one another member has just taken.
Refresh(m) ==
    /\ stage[m] = "in"
    /\ \E p \in Probes :
          /\ p \notin players \/ \E n \in Members : step[n] # "none" /\ profile[n] = p
          /\ Exchange(m, p)
    /\ UNCHANGED stage

\* A request frame reaches the server and its answer the client.
Request(m, s) == serving /\ step[m] = s

Proceed(m, s) ==
    /\ step' = [step EXCEPT ![m] = s]
    /\ waited' = [waited EXCEPT ![m] = 0]
    /\ UNCHANGED <<profile, stage, view>>

\* The client is dropped with its connection.
Finish(m) ==
    /\ step' = [step EXCEPT ![m] = "none"]
    /\ profile' = [profile EXCEPT ![m] = MachineId(m)]
    /\ waited' = [waited EXCEPT ![m] = 0]
    /\ stage' = [stage EXCEPT ![m] = "in"]

\* connect or heartbeat fails: the join goes on with the member alone in its
\* roster, the refresh reports none and the old roster stays.
GiveUp(m) ==
    /\ Finish(m)
    /\ view' = IF stage[m] = "joining" THEN [view EXCEPT ![m] = {profile[m]}] ELSE view

PlayerPing(m) ==
    /\ Request(m, "ping") \/ Request(m, "beat")
    /\ profile[m] # Host
    /\ \E claimed \in {"HOST", "GUEST"} : RecordGuest(profile[m], claimed)
    /\ heard' = [heard EXCEPT ![profile[m]] = 0]
    /\ Proceed(m, IF step[m] = "ping" THEN "protocols" ELSE "list")
    /\ UNCHANGED <<serving, timer, sweeping, since>>

\* record_guest refuses the host's own id.
PlayerPingRefused(m) ==
    /\ Request(m, "ping") /\ profile[m] = Host
    /\ GiveUp(m)
    /\ UNCHANGED serverVars

Protocols(m) ==
    /\ Request(m, "protocols")
    /\ Proceed(m, "beat")
    /\ UNCHANGED serverVars

PlayerProfilesList(m) ==
    /\ Request(m, "list")
    /\ Finish(m)
    /\ view' = [view EXCEPT ![m] = players \cap {Host, MachineId(m)}]
    /\ UNCHANGED serverVars

\* The connection is lost, or was never made.
Disconnect(m) ==
    /\ step[m] # "none"
    /\ GiveUp(m)
    /\ UNCHANGED serverVars

\* Mutant: a request is repeated when it times out.
TimeOutRetries(m) ==
    /\ step[m] # "none" /\ waited[m] = RequestTimeout
    /\ waited' = [waited EXCEPT ![m] = 0]
    /\ UNCHANGED <<serverVars, stage, step, profile, view>>

TimeOut(m) ==
    /\ step[m] # "none" /\ waited[m] = RequestTimeout
    /\ GiveUp(m)
    /\ UNCHANGED serverVars

Leave(m) ==
    /\ stage[m] = "in" /\ step[m] = "none"
    /\ stage' = [stage EXCEPT ![m] = "out"]
    /\ view' = [view EXCEPT ![m] = {}]
    /\ UNCHANGED <<serverVars, step, profile, waited>>

-----------------------------------------------------------------------------
\* One unit of time.  The server's interval and the clients' timeouts are punctual.
Tick ==
    /\ serving => timer > 0
    /\ sweeping => since < LockWait
    /\ \A m \in Members : step[m] # "none" => waited[m] < RequestTimeout
    /\ timer' = IF serving THEN timer - 1 ELSE timer
    /\ age' = [i \in Ids |-> IF i \in players \ {Host} THEN age[i] + 1 ELSE 0]
    /\ since' = IF sweeping THEN since + 1 ELSE 0
    /\ waited' = [m \in Members |-> IF step[m] # "none" THEN waited[m] + 1 ELSE 0]
    /\ heard' = [i \in Ids |-> Later(heard[i])]
    /\ UNCHANGED <<serving, players, kind, sweeping, stage, step, profile, view>>

MemberStep(m) ==
    \/ Join(m) \/ Refresh(m) \/ Leave(m)
    \/ PlayerPing(m) \/ PlayerPingRefused(m) \/ Protocols(m) \/ PlayerProfilesList(m)
    \/ Disconnect(m) \/ TimeOut(m)

Next ==
    \/ BeginCleanup \/ RemoveStaleGuests \/ Shutdown \/ Tick
    \/ \E m \in Members : MemberStep(m)

Spec == Init /\ [][Next]_vars

\* Time passes, the interval ticks, the lock is given, and timeouts fire.  Nothing is
\* assumed of members, of the network or of the host.
FairSpec ==
    /\ Spec
    /\ WF_vars(Tick) /\ WF_vars(BeginCleanup) /\ WF_vars(RemoveStaleGuests)
    /\ \A m \in Members : WF_vars(TimeOut(m))

-----------------------------------------------------------------------------
(* Properties *)

\* Types; the cleanup is never further away than its interval, and a cleanup under
\* way is over before the next.
TypeOK ==
    /\ serving \in BOOLEAN
    /\ players \subseteq Ids
    /\ kind \in [Ids -> {"HOST", "GUEST"}] /\ age \in [Ids -> Nat]
    /\ timer \in 0..CleanupInterval
    /\ sweeping \in BOOLEAN /\ since \in 0..LockWait
    /\ heard \in [Ids -> 0..LongAgo]
    /\ stage \in [Members -> {"out", "joining", "in"}]
    /\ step \in [Members -> {"none", "ping", "protocols", "beat", "list"}]
    /\ profile \in [Members -> Ids]
    /\ waited \in [Members -> 0..RequestTimeout]
    /\ view \in [Members -> SUBSET Ids]

\* Whatever clients claim, and however long the host itself is not heard, the table
\* of a running server has one HOST, the host, and so has every roster a member got
\* from it (server.rs:85-108); a roster without it is a join's own fallback.
HostIsUnique ==
    /\ serving => Host \in players
    /\ \A i \in Ids : kind[i] = "HOST" <=> i = Host
    /\ \A m \in Members : Host \in view[m] \/ view[m] \subseteq {MachineId(m)}

\* A guest that has gone silent is listed for at most the timeout, one cleanup interval
\* and the wait for the lock (server.rs:102-108, 156).
SilentGuestsLeave ==
    \A i \in players \ {Host} : age[i] <= PlayerTimeout + CleanupInterval + LockWait

\* Whoever the server has answered a ping of within the timeout is in its table: no
\* cleanup removes it, nor one that read the clock before that ping and got the lock
\* after it (server.rs:85-108).
HeardAreListed ==
    serving => \A i \in Ids : heard[i] <= PlayerTimeout => i \in players

\* Every exchange ends, by an answer, a loss or a timeout, also when the server has
\* gone: refresh holds the backend's session lock until then (backend.rs:489).
ExchangesEnd == \A m \in Members : (step[m] # "none") ~> (step[m] = "none")

==============================================================================

--------------------------- MODULE EasyTierBackend ---------------------------
(* The helper's network backend, network/backend.rs, as the sequence of         *)
(* resources each operation acquires: the easytier-core child, the Scaffolding  *)
(* server, the mesh ingresses on the ports derived from the room code, the      *)
(* loopback forwards, the LAN broadcast and the same-machine advertisement      *)
(* file.  An operation holds what it has acquired in its locals until it stores *)
(* the session; every failing step names what its error path gives back.  An    *)
(* ingress or forward is a PortForward: an accept loop that owns the listener,  *)
(* and a detached task for every connection it accepted.                        *)
(* Calls come one at a time, from RoomService under one session.                *)
(*                                                                              *)
(* The advertisement directory is shared by the helpers of one machine: other   *)
(* helpers host rooms, leave them and die without leaving.                      *)
EXTENDS Naturals, Sequences

CONSTANT Codes          \* room codes; a create takes a code nobody has used

VARIABLES session,      \* the stored ActiveSession: [role, code, via]
          held,         \* resources the stored session owns
          op,           \* the call under way: [name, code], or NoOp
          step,         \* how many steps of its plan it has done
          fresh,        \* resources in the locals of the call under way
          listening,    \* PortForwards, held or fresh, whose accept loop still runs
          conns,        \* PortForwards with a connection task alive
          hosts,        \* codes some running helper of this machine serves
          adverts,      \* codes with an advertisement file
          used,         \* codes that have been generated
          found         \* whether the last lookup's room had a running host (history)

vars == <<session, held, op, step, fresh, listening, conns, hosts, adverts, used, found>>

NoSession == [role |-> "none", code |-> "none", via |-> "none"]

NoOp == [name |-> "idle", code |-> "none"]

Resources == {"easytier", "scaffolding", "ingressS", "ingressM",
              "forwardS", "forwardM", "broadcast"}

MeshPorts == {"ingressS", "ingressM"}       \* fixed by the room code

PortForwards == MeshPorts \cup {"forwardS", "forwardM"}

\* The steps of an operation in the order the code awaits them.
Plan(name) ==
    CASE name = "create" -> <<"easytier", "scaffolding", "ingressS", "ingressM", "advert">>
      [] name = "local"  -> <<"easytier", "targets", "forwardS", "forwardM", "broadcast">>
      [] name = "mesh"   -> <<"easytier", "reach", "broadcast">>
      [] name = "setlan" -> <<"scaffolding", "ingressS", "ingressM", "swap", "advert">>
      [] name = "idle"   -> <<>>

\* Mutant: the error path of the second ingress forgets the first one.
CleanupForgetsIngress(name, at) ==
    CASE name = "create" /\ at = "ingressM" -> {"scaffolding", "easytier"}
      [] OTHER -> Resources

\* What the error path of a failing step stops or drops.
Cleanup(name, at) ==
    CASE name = "create" /\ at = "easytier"    -> {}
      [] name = "create" /\ at = "scaffolding" -> {"easytier"}
      [] name = "create" /\ at = "ingressS"    -> {"scaffolding", "easytier"}
      [] name = "create" /\ at = "ingressM"    -> {"ingressS", "scaffolding", "easytier"}
      [] name = "create" /\ at = "advert"      -> {"ingressS", "ingressM", "scaffolding", "easytier"}
      [] name \in {"local", "mesh"} /\ at = "easytier" -> {}
      [] name = "local" /\ at \in {"targets", "forwardS"} -> {"easytier"}
      [] name = "local" /\ at = "forwardM"     -> {"forwardS", "easytier"}
      [] name = "mesh" /\ at = "reach"         -> {"easytier"}
      [] name = "setlan" -> {"scaffolding", "ingressS", "ingressM"}   \* dropped locals

Init ==
    /\ session = NoSession
    /\ held = {}
    /\ op = NoOp
    /\ step = 0
    /\ fresh = {}
    /\ listening = {}
    /\ conns = {}
    /\ hosts = {}
    /\ adverts = {}
    /\ used = {}
    /\ found = TRUE

-----------------------------------------------------------------------------
(* Calls *)

Idle == op = NoOp

Done == op' = NoOp /\ step' = 0

Begin(name, code) ==
    /\ op' = [name |-> name, code |-> code]
    /\ step' = 0
    /\ UNCHANGED <<session, held, fresh, listening, conns>>

\* Mutant: create without ensure_idle.
BeginCreateUnguarded(code) ==
    /\ Idle
    /\ code \notin used
    /\ used' = used \cup {code}
    /\ Begin("create", code)
    /\ UNCHANGED <<hosts, adverts, found>>

\* create after ensure_idle, the identity, the binary and the address check; a
\* failed check returns before anything is acquired.
BeginCreate(code) ==
    /\ Idle
    /\ session.role = "none"
    /\ code \notin used
    /\ used' = used \cup {code}
    /\ Begin("create", code)
    /\ UNCHANGED <<hosts, adverts, found>>

\* join: an advertisement on this machine is preferred; one that is too old is
\* removed by the lookup, and the join goes through the mesh.
BeginJoin(code) ==
    /\ Idle
    /\ session.role = "none"
    /\ \/ /\ code \in adverts
          /\ Begin("local", code)
          /\ UNCHANGED adverts
       \/ /\ adverts' = adverts \ {code}
          /\ Begin("mesh", code)
    /\ found' = (code \in hosts)
    /\ UNCHANGED <<hosts, used>>

\* set_lan_address: the running Scaffolding server is shut down first.
BeginSetLan ==
    /\ Idle
    /\ session.role = "Host"
    /\ op' = [name |-> "setlan", code |-> session.code]
    /\ step' = 0
    /\ held' = held \ {"scaffolding"}
    /\ hosts' = hosts \ {session.code}
    /\ UNCHANGED <<session, fresh, listening, conns, adverts, used, found>>

HostParts == {"scaffolding", "ingressS", "ingressM", "easytier"}

MemberParts == {"broadcast", "forwardS", "forwardM", "easytier"}

\* Mutant: the loopback forwards are not stopped.
LeaveForgetsForwards ==
    /\ Idle
    /\ LET stopped == IF session.role = "Host" THEN HostParts ELSE {"broadcast", "easytier"}
       IN /\ held' = held \ stopped
          /\ listening' = listening \ stopped
    /\ session' = NoSession
    /\ hosts' = IF session.role = "Host" THEN hosts \ {session.code} ELSE hosts
    /\ adverts' = IF session.role = "Host" THEN adverts \ {session.code} ELSE adverts
    /\ UNCHANGED <<op, step, fresh, conns, used, found>>

\* stop_session_locked.  PortForward::stop aborts the accept loop and nothing else:
\* the connection tasks it spawned run on.  Removing the advertisement may fail;
\* the error is dropped.
Leave ==
    /\ Idle
    /\ LET stopped == IF session.role = "Host" THEN HostParts ELSE MemberParts
       IN /\ held' = held \ stopped
          /\ listening' = listening \ stopped
    /\ session' = NoSession
    /\ hosts' = IF session.role = "Host" THEN hosts \ {session.code} ELSE hosts
    /\ \/ adverts' = IF session.role = "Host" THEN adverts \ {session.code} ELSE adverts
       \/ UNCHANGED adverts
    /\ UNCHANGED <<op, step, fresh, conns, used, found>>

-----------------------------------------------------------------------------
(* The steps of the call under way *)

At == Plan(op.name)[step + 1]

\* A mesh port is bound by one listener at a time.
CanBind(resource) == resource \in MeshPorts => resource \notin listening

\* Mutant: what a step found is kept as if it were a resource.
AcquireEverything ==
    /\ step < Len(Plan(op.name))
    /\ At \notin {"swap", "advert"}
    /\ CanBind(At)
    /\ fresh' = fresh \cup {At}
    /\ listening' = listening \cup ({At} \cap PortForwards)
    /\ step' = step + 1
    /\ UNCHANGED <<session, held, op, conns, hosts, adverts, used, found>>

Acquire ==
    /\ step < Len(Plan(op.name))
    /\ At \notin {"swap", "advert"}
    /\ CanBind(At)
    /\ fresh' = fresh \cup ({At} \cap Resources)
    /\ listening' = listening \cup ({At} \cap PortForwards)
    /\ step' = step + 1
    /\ UNCHANGED <<session, held, op, conns, hosts, adverts, used, found>>

\* The LAN broadcast is optional: its failure is logged and the join goes on.
SkipBroadcast ==
    /\ step < Len(Plan(op.name))
    /\ At = "broadcast"
    /\ step' = step + 1
    /\ UNCHANGED <<session, held, op, fresh, listening, conns, hosts, adverts, used, found>>

\* Mutant: a failed step makes the call start over.
FailRetries ==
    /\ step < Len(Plan(op.name))
    /\ At \notin {"broadcast", "swap"}
    /\ fresh' = fresh \ Cleanup(op.name, At)
    /\ listening' = listening \ (fresh \cap Cleanup(op.name, At))
    /\ step' = 0
    /\ UNCHANGED <<session, held, op, conns, hosts, adverts, used, found>>

\* publish_local_endpoint writes the file, then restricts it: a failure may leave it.
\* When set_lan_address fails there, the session keeps the parts it swapped in.
Fail ==
    /\ step < Len(Plan(op.name))
    /\ At \notin {"broadcast", "swap"}
    /\ fresh' = fresh \ Cleanup(op.name, At)
    /\ listening' = listening \ (fresh \cap Cleanup(op.name, At))
    /\ \/ UNCHANGED adverts
       \/ At = "advert" /\ adverts' = adverts \cup {op.code}
    /\ Done
    /\ UNCHANGED <<session, held, conns, hosts, used, found>>

Via(name) ==
    CASE name = "local" -> "advert"
      [] name = "mesh" -> "mesh"
      [] OTHER -> "none"

\* set_lan_address puts its replacements into the session and stops the previous
\* ingresses.  It comes this far only when the accept loops of both have ended, for
\* until then they hold the ports it binds.
Swap ==
    /\ step < Len(Plan(op.name))
    /\ At = "swap"
    /\ held' = held \cup fresh
    /\ fresh' = {}
    /\ hosts' = hosts \cup {op.code}
    /\ step' = step + 1
    /\ UNCHANGED <<session, op, listening, conns, adverts, used, found>>

\* The last step of hosting: the advertisement is published, and create stores the
\* session; the session of set_lan_address is in place.
Advertise ==
    /\ step < Len(Plan(op.name))
    /\ At = "advert"
    /\ adverts' = adverts \cup {op.code}
    /\ session' = [role |-> "Host", code |-> op.code, via |-> "none"]
    /\ held' = held \cup fresh
    /\ fresh' = {}
    /\ hosts' = hosts \cup {op.code}
    /\ Done
    /\ UNCHANGED <<listening, conns, used, found>>

\* Mutant: the Minecraft forward is dropped with the locals of the join.
StoreMemberDropsForward ==
    /\ op.name \in {"local", "mesh"}
    /\ step = Len(Plan(op.name))
    /\ session' = [role |-> "Member", code |-> op.code, via |-> Via(op.name)]
    /\ held' = held \cup (fresh \ {"forwardM"})
    /\ fresh' = {}
    /\ listening' = listening \ {"forwardM"}
    /\ Done
    /\ UNCHANGED <<conns, hosts, adverts, used, found>>

\* The last step of joining.
StoreMember ==
    /\ op.name \in {"local", "mesh"}
    /\ step = Len(Plan(op.name))
    /\ session' = [role |-> "Member", code |-> op.code, via |-> Via(op.name)]
    /\ held' = held \cup fresh
    /\ fresh' = {}
    /\ Done
    /\ UNCHANGED <<listening, conns, hosts, adverts, used, found>>

-----------------------------------------------------------------------------
(* Port forwards, the process and its neighbours *)

\* run_listener hands an accepted connection to a task of its own.
Connect(forward) ==
    /\ forward \in listening
    /\ conns' = conns \cup {forward}
    /\ UNCHANGED <<session, held, op, step, fresh, listening, hosts, adverts, used, found>>

\* copy_bidirectional ends when the two ends of the connection do.
Disconnect(forward) ==
    /\ forward \in conns
    /\ conns' = conns \ {forward}
    /\ UNCHANGED <<session, held, op, step, fresh, listening, hosts, adverts, used, found>>

\* An accept error ends the loop: the port is free, and the PortForward still owned.
AcceptFails(forward) ==
    /\ forward \in listening
    /\ listening' = listening \ {forward}
    /\ UNCHANGED <<session, held, op, step, fresh, conns, hosts, adverts, used, found>>

\* shutdown, a lost client or a dead parent end the helper: RoomService is dropped
\* with the session and everything in it, the runtime with the connection tasks,
\* and a new helper starts from nothing.  Nothing removes the advertisement.
Exit ==
    /\ session' = NoSession
    /\ held' = {}
    /\ fresh' = {}
    /\ listening' = {}
    /\ conns' = {}
    /\ hosts' = IF session.role = "Host" THEN hosts \ {session.code} ELSE hosts
    /\ Done
    /\ UNCHANGED <<adverts, used, found>>

\* Another helper of this machine, running the same code.
NeighbourHosts(code) ==
    /\ code \notin used
    /\ used' = used \cup {code}
    /\ hosts' = hosts \cup {code}
    /\ adverts' = adverts \cup {code}
    /\ UNCHANGED <<session, held, op, step, fresh, listening, conns, found>>

HostedHere(code) == session.role = "Host" /\ session.code = code

NeighbourLeaves(code) ==
    /\ code \in hosts
    /\ ~HostedHere(code)
    /\ hosts' = hosts \ {code}
    /\ adverts' = adverts \ {code}
    /\ UNCHANGED <<session, held, op, step, fresh, listening, conns, used, found>>

NeighbourExits(code) ==
    /\ code \in hosts
    /\ ~HostedHere(code)
    /\ hosts' = hosts \ {code}
    /\ UNCHANGED <<session, held, op, step, fresh, listening, conns, adverts, used, found>>

Call == BeginSetLan \/ Leave \/ \E code \in Codes : BeginCreate(code) \/ BeginJoin(code)

Proceed == Acquire \/ SkipBroadcast \/ Fail \/ Swap \/ Advertise \/ StoreMember

Forwarding == \E forward \in PortForwards : \/ Connect(forward)
                                            \/ Disconnect(forward)
                                            \/ AcceptFails(forward)

Neighbour == \E code \in Codes : \/ NeighbourHosts(code)
                                 \/ NeighbourLeaves(code)
                                 \/ NeighbourExits(code)

Next == Call \/ Proceed \/ Forwarding \/ Exit \/ Neighbour

Spec == Init /\ [][Next]_vars

\* Every step of a call is a bounded wait: spawn and 250 ms, a bind, a file write,
\* at most MESH_PROBE_ATTEMPTS connects.
FairSpec == Spec /\ WF_vars(Proceed)

-----------------------------------------------------------------------------
(* Properties *)

\* Types of the fields; only rooms of generated codes are hosted, and locals and
\* sessions hold resources, not the findings of the probing steps.
TypeOK ==
    /\ session \in [role : {"none", "Host", "Member"}, code : Codes \cup {"none"},
                    via : {"none", "advert", "mesh"}]
    /\ held \subseteq Resources
    /\ op \in [name : {"idle", "create", "local", "mesh", "setlan"}, code : Codes \cup {"none"}]
    /\ step \in 0..5
    /\ fresh \subseteq Resources
    /\ listening \subseteq PortForwards /\ conns \subseteq PortForwards
    /\ hosts \subseteq used
    /\ adverts \subseteq Codes /\ used \subseteq Codes
    /\ found \in BOOLEAN

\* However far a call came before it failed, nothing it acquired outlives it: no
\* child process, task or accept loop that no session owns.
NothingLeaks == Idle => fresh = {} /\ listening \subseteq held

\* When no session is stored, no child process, server or broadcast is left running
\* and nothing accepts a connection but what a call under way has just bound.
LeaveStopsListening == session.role = "none" => held = {} /\ listening \subseteq fresh

\* A member's session owns exactly what the way it joined needs: the loopback
\* forwards to an advertised host, and no forward of its own through the mesh.
MemberOwnsItsPath ==
    session.role = "Member" =>
        /\ "easytier" \in held
        /\ held \cap {"forwardS", "forwardM"} =
              IF session.via = "advert" THEN {"forwardS", "forwardM"} ELSE {}

\* The backend keeps the contract RoomService relies on.
Contract == INSTANCE RoomBackend WITH session <- session.role

KeepsContract == Contract!BackendSpec

\* Every call of the backend comes to an end.
CallsEnd == ~Idle ~> Idle

\* A hosted room has a Scaffolding server behind its ingress between calls.
HostServes == Idle /\ session.role = "Host" => "scaffolding" \in held

\* A join through an advertisement has found a host: when neither the local nor
\* the mesh path leads to one, the join is refused and no session is stored.
LocalJoinFindsHost == session.via = "advert" => found
==============================================================================

------------------------ MODULE EasyTierBackendProofs ------------------------
(* Theorems about EasyTierBackend, for every set of room codes: no failing step *)
(* leaks a resource, a session owns what it needs and nothing else, and the     *)
(* backend keeps the contract of RoomBackend.                                   *)
EXTENDS EasyTierBackend, TLAPS

Names == {"idle", "create", "local", "mesh", "setlan"}

\* What the first n steps of a plan acquire.
Acquired(name, n) == {Plan(name)[i] : i \in 1..n} \cap Resources

\* What of it is still in the locals: the swap of set_lan_address hands it over.
Locals(name, n) == IF name = "setlan" /\ n > 3 THEN {} ELSE Acquired(name, n)

-----------------------------------------------------------------------------
(* The inductive invariant *)

\* The locals of a call are what its steps so far have acquired; only the LAN
\* broadcast may be missing.
LocalsFollowPlan ==
    /\ step <= Len(Plan(op.name))
    /\ fresh \subseteq Locals(op.name, step)
    /\ Locals(op.name, step) \subseteq fresh \cup {"broadcast"}

\* ensure_idle, and the host test of set_lan_address, still hold while the call runs.
CallFitsSession ==
    /\ op.name \in {"create", "local", "mesh"} => session.role = "none"
    /\ op.name = "create" => op.code \in used
    /\ op.name = "setlan" => session.role = "Host" /\ op.code = session.code

\* What the stored session owns is what leaving with its role stops; a host keeps
\* its mesh ports even while set_lan_address has taken its Scaffolding server.
SessionOwns ==
    /\ session.role = "none" => held = {}
    /\ session.role = "Host" => /\ held \subseteq HostParts
                                /\ HostParts \subseteq held \cup {"scaffolding"}
                                /\ session.code \in used
    /\ session.role = "Member" => held \subseteq MemberParts

\* Every accept loop belongs to a PortForward of the session or of the locals.
LoopsOwned == listening \subseteq held \cup fresh

IInv == TypeOK /\ LocalsFollowPlan /\ CallFitsSession /\ SessionOwns /\ MemberOwnsItsPath
            /\ LoopsOwned

-----------------------------------------------------------------------------
(* Plans and error paths *)

\* The plans, step by step, as backend.rs awaits them.
LEMMA PlanSteps ==
    /\ Len(Plan("idle")) = 0 /\ Len(Plan("create")) = 5 /\ Len(Plan("local")) = 5
    /\ Len(Plan("mesh")) = 3 /\ Len(Plan("setlan")) = 5
    /\ Plan("create")[1] = "easytier" /\ Plan("create")[2] = "scaffolding"
    /\ Plan("create")[3] = "ingressS" /\ Plan("create")[4] = "ingressM"
    /\ Plan("create")[5] = "advert"
    /\ Plan("local")[1] = "easytier" /\ Plan("local")[2] = "targets"
    /\ Plan("local")[3] = "forwardS" /\ Plan("local")[4] = "forwardM"
    /\ Plan("local")[5] = "broadcast"
    /\ Plan("mesh")[1] = "easytier" /\ Plan("mesh")[2] = "reach"
    /\ Plan("mesh")[3] = "broadcast"
    /\ Plan("setlan")[1] = "scaffolding" /\ Plan("setlan")[2] = "ingressS"
    /\ Plan("setlan")[3] = "ingressM" /\ Plan("setlan")[4] = "swap"
    /\ Plan("setlan")[5] = "advert"
BY DEF Plan

\* A step adds what it names, if that is a resource.
LEMMA AcquiredSteps ==
    ASSUME NEW name
    PROVE  /\ Acquired(name, 0) = {}
           /\ \A n \in Nat : Acquired(name, n + 1) =
                  Acquired(name, n) \cup ({Plan(name)[n + 1]} \cap Resources)
<1>1. 1..0 = {} /\ \A n \in Nat : 1..(n + 1) = (1..n) \cup {n + 1}
  OBVIOUS
<1> QED
  BY <1>1 DEF Acquired

\* What each call has acquired before each of its steps.
LEMMA AcquiredSets ==
    /\ Acquired("create", 0) = {}
    /\ Acquired("create", 1) = {"easytier"}
    /\ Acquired("create", 2) = {"easytier", "scaffolding"}
    /\ Acquired("create", 3) = {"easytier", "scaffolding", "ingressS"}
    /\ Acquired("create", 4) = HostParts
    /\ Acquired("local", 0) = {}
    /\ Acquired("local", 1) = {"easytier"}
    /\ Acquired("local", 2) = {"easytier"}
    /\ Acquired("local", 3) = {"easytier", "forwardS"}
    /\ Acquired("local", 4) = {"easytier", "forwardS", "forwardM"}
    /\ Acquired("local", 5) = MemberParts
    /\ Acquired("mesh", 0) = {}
    /\ Acquired("mesh", 1) = {"easytier"}
    /\ Acquired("mesh", 2) = {"easytier"}
    /\ Acquired("mesh", 3) = {"easytier", "broadcast"}
    /\ Acquired("setlan", 0) = {}
    /\ Acquired("setlan", 1) = {"scaffolding"}
    /\ Acquired("setlan", 2) = {"scaffolding", "ingressS"}
    /\ Acquired("setlan", 3) = {"scaffolding", "ingressS", "ingressM"}
<1> DEFINE A(name, n) == Acquired(name, n)
<1>1. \A name \in Names : A(name, 0) = {}
  BY AcquiredSteps
<1>2. \A name \in Names, n \in Nat :
        A(name, n + 1) = A(name, n) \cup ({Plan(name)[n + 1]} \cap Resources)
  BY AcquiredSteps
<1> HIDE DEF A
<1>3. \A name \in Names :
        /\ A(name, 1) = A(name, 0) \cup ({Plan(name)[1]} \cap Resources)
        /\ A(name, 2) = A(name, 1) \cup ({Plan(name)[2]} \cap Resources)
        /\ A(name, 3) = A(name, 2) \cup ({Plan(name)[3]} \cap Resources)
        /\ A(name, 4) = A(name, 3) \cup ({Plan(name)[4]} \cap Resources)
        /\ A(name, 5) = A(name, 4) \cup ({Plan(name)[5]} \cap Resources)
  <2>1. 0 + 1 = 1 /\ 1 + 1 = 2 /\ 2 + 1 = 3 /\ 3 + 1 = 4 /\ 4 + 1 = 5
    OBVIOUS
  <2> QED
    BY <1>2, <2>1
<1>4. /\ \A r \in Resources : {r} \cap Resources = {r}
      /\ {"targets"} \cap Resources = {} /\ {"reach"} \cap Resources = {}
  BY DEF Resources
<1>5. {"easytier", "scaffolding", "ingressS", "ingressM", "forwardS", "forwardM", "broadcast"}
        \subseteq Resources
  BY DEF Resources
<1>6. /\ A("create", 1) = {"easytier"} /\ A("local", 1) = {"easytier"}
      /\ A("mesh", 1) = {"easytier"} /\ A("setlan", 1) = {"scaffolding"}
  BY <1>1, <1>3, <1>4, <1>5, PlanSteps DEF Names
<1>7. /\ A("create", 2) = {"easytier", "scaffolding"}
      /\ A("local", 2) = {"easytier"} /\ A("mesh", 2) = {"easytier"}
      /\ A("setlan", 2) = {"scaffolding", "ingressS"}
  BY <1>3, <1>4, <1>5, <1>6, PlanSteps DEF Names
<1>8. /\ A("create", 3) = {"easytier", "scaffolding", "ingressS"}
      /\ A("local", 3) = {"easytier", "forwardS"} /\ A("mesh", 3) = {"easytier", "broadcast"}
      /\ A("setlan", 3) = {"scaffolding", "ingressS", "ingressM"}
  BY <1>3, <1>4, <1>5, <1>7, PlanSteps DEF Names
<1>9. /\ A("create", 4) = HostParts
      /\ A("local", 4) = {"easytier", "forwardS", "forwardM"}
  BY <1>3, <1>4, <1>5, <1>8, PlanSteps DEF Names, HostParts
<1>10. A("local", 5) = MemberParts
  BY <1>3, <1>4, <1>5, <1>9, PlanSteps DEF Names, MemberParts
<1> QED
  BY <1>1, <1>6, <1>7, <1>8, <1>9, <1>10 DEF A, Names

\* What the error paths give back, step by step.
LEMMA CleanupSteps ==
    /\ Cleanup("create", "scaffolding") = {"easytier"}
    /\ Cleanup("create", "ingressS") = {"scaffolding", "easytier"}
    /\ Cleanup("create", "ingressM") = {"ingressS", "scaffolding", "easytier"}
    /\ Cleanup("create", "advert") = HostParts
    /\ Cleanup("local", "targets") = {"easytier"}
    /\ Cleanup("local", "forwardS") = {"easytier"}
    /\ Cleanup("local", "forwardM") = {"forwardS", "easytier"}
    /\ Cleanup("mesh", "reach") = {"easytier"}
    /\ \A at : Cleanup("setlan", at) = {"scaffolding", "ingressS", "ingressM"}
BY DEF Cleanup, HostParts

\* What the steps add to the locals.
LEMMA LocalsSteps ==
    ASSUME NEW name \in Names
    PROVE  /\ Locals(name, 0) = {}
           /\ \A n \in Nat : n < Len(Plan(name)) /\ Plan(name)[n + 1] # "swap" =>
                  Locals(name, n + 1) = Locals(name, n) \cup ({Plan(name)[n + 1]} \cap Resources)
<1>1. Locals(name, 0) = {}
  BY AcquiredSteps DEF Locals
<1>2. ASSUME NEW n \in Nat, n < Len(Plan(name)), Plan(name)[n + 1] # "swap"
      PROVE  Locals(name, n + 1) = Locals(name, n) \cup ({Plan(name)[n + 1]} \cap Resources)
  <2>1. CASE name = "setlan"
    <3>1. n = 0 \/ n = 1 \/ n = 2 \/ n = 4
      BY <1>2, <2>1, PlanSteps
    <3>2. CASE n = 4
      BY <2>1, <3>2, PlanSteps DEF Locals, Resources
    <3>3. CASE n = 0 \/ n = 1 \/ n = 2
      <4>1. Locals(name, n + 1) = Acquired(name, n + 1) /\ Locals(name, n) = Acquired(name, n)
        BY <3>3 DEF Locals
      <4> QED
        BY <4>1, AcquiredSteps
    <3> QED
      BY <3>1, <3>2, <3>3
  <2>2. CASE name # "setlan"
    BY <2>2, AcquiredSteps DEF Locals
  <2> QED
    BY <2>1, <2>2
<1> QED
  BY <1>1, <1>2

\* The error path of every failing step gives back everything acquired before it.
LEMMA CleanupCoversLocals ==
    ASSUME NEW name \in Names, NEW n \in Nat, n < Len(Plan(name)),
           Plan(name)[n + 1] # "broadcast"
    PROVE  Locals(name, n) \subseteq Cleanup(name, Plan(name)[n + 1])
<1>0. 0 + 1 = 1 /\ 1 + 1 = 2 /\ 2 + 1 = 3 /\ 3 + 1 = 4 /\ 4 + 1 = 5
  OBVIOUS
<1>1. CASE name = "create"
  <2>1. n = 0 \/ n = 1 \/ n = 2 \/ n = 3 \/ n = 4
    BY <1>1, PlanSteps
  <2>2. Locals(name, n) = Acquired(name, n)
    BY <1>1 DEF Locals
  <2> QED
    BY <1>0, <1>1, <2>1, <2>2, PlanSteps, AcquiredSets, CleanupSteps
<1>2. CASE name = "local"
  <2>1. n = 0 \/ n = 1 \/ n = 2 \/ n = 3
    BY <1>2, PlanSteps
  <2>2. Locals(name, n) = Acquired(name, n)
    BY <1>2 DEF Locals
  <2> QED
    BY <1>0, <1>2, <2>1, <2>2, PlanSteps, AcquiredSets, CleanupSteps
<1>3. CASE name = "mesh"
  <2>1. n = 0 \/ n = 1
    BY <1>3, PlanSteps
  <2>2. Locals(name, n) = Acquired(name, n)
    BY <1>3 DEF Locals
  <2> QED
    BY <1>0, <1>3, <2>1, <2>2, PlanSteps, AcquiredSets, CleanupSteps
<1>4. CASE name = "setlan"
  <2>1. n = 0 \/ n = 1 \/ n = 2 \/ n = 3 \/ n = 4
    BY <1>4, PlanSteps
  <2>2. Locals(name, n) \subseteq {"scaffolding", "ingressS", "ingressM"}
    BY <1>4, <2>1, AcquiredSets DEF Locals
  <2> QED
    BY <1>4, <2>2, CleanupSteps
<1> QED
  BY <1>1, <1>2, <1>3, <1>4, PlanSteps DEF Names

\* Where a call can stand, and what it holds there: create advertises with all the
\* parts of a host in its locals, set_lan_address swaps a new server and ingresses
\* into a session that lacks only the server, and then advertises with none left.
LEMMA Standing ==
    ASSUME IInv
    PROVE  /\ op.name \in Names /\ step \in Nat /\ Len(Plan(op.name)) \in Nat
           /\ op.name = "idle" => step = 0 /\ fresh = {}
           /\ step < Len(Plan(op.name)) /\ At = "advert"
                => \/ op.name = "create" /\ fresh = HostParts
                   \/ op.name = "setlan" /\ fresh = {}
           /\ step < Len(Plan(op.name)) /\ At = "swap"
                => /\ op.name = "setlan" /\ step = 3
                   /\ fresh = {"scaffolding", "ingressS", "ingressM"}
<1>1. op.name \in Names /\ step \in 0..5 /\ step <= Len(Plan(op.name))
  BY DEF IInv, TypeOK, LocalsFollowPlan, Names
<1>2. Len(Plan(op.name)) \in Nat
  BY <1>1, PlanSteps DEF Names
<1>3. ASSUME op.name = "idle" PROVE step = 0 /\ fresh = {}
  <2>1. step = 0
    BY <1>1, <1>3, PlanSteps
  <2> QED
    BY <1>1, <2>1, LocalsSteps DEF IInv, LocalsFollowPlan
<1>4. ASSUME step < Len(Plan(op.name)), At = "advert"
      PROVE  \/ op.name = "create" /\ fresh = HostParts
             \/ op.name = "setlan" /\ fresh = {}
  <2>1. (op.name = "create" \/ op.name = "setlan") /\ step = 4
    BY <1>1, <1>4, PlanSteps DEF At, Names
  <2>2. CASE op.name = "create"
    <3>1. Locals(op.name, step) = HostParts
      BY <2>1, <2>2, AcquiredSets DEF Locals
    <3> QED
      BY <2>2, <3>1 DEF IInv, LocalsFollowPlan, HostParts
  <2>3. CASE op.name = "setlan"
    <3>1. Locals(op.name, step) = {}
      BY <2>1, <2>3 DEF Locals
    <3> QED
      BY <2>3, <3>1 DEF IInv, LocalsFollowPlan
  <2> QED
    BY <2>1, <2>2, <2>3
<1>5. ASSUME step < Len(Plan(op.name)), At = "swap"
      PROVE  /\ op.name = "setlan" /\ step = 3
             /\ fresh = {"scaffolding", "ingressS", "ingressM"}
  <2>1. op.name = "setlan" /\ step = 3
    BY <1>1, <1>5, PlanSteps DEF At, Names
  <2>2. Locals(op.name, step) = {"scaffolding", "ingressS", "ingressM"}
    BY <2>1, AcquiredSets DEF Locals
  <2> QED
    BY <2>1, <2>2 DEF IInv, LocalsFollowPlan
<1> QED
  BY <1>1, <1>2, <1>3, <1>4, <1>5
-----------------------------------------------------------------------------
(* Every step keeps the invariant *)

\* Nothing has been acquired when the backend starts.
LEMMA InitIInv == Init => IInv
<1> SUFFICES ASSUME Init PROVE IInv
  OBVIOUS
<1>1. TypeOK
  BY DEF Init, TypeOK, NoSession, NoOp
<1>2. LocalsFollowPlan
  BY PlanSteps, LocalsSteps DEF Init, LocalsFollowPlan, NoOp, Names
<1> QED
  BY <1>1, <1>2 DEF Init, IInv, CallFitsSession, SessionOwns, MemberOwnsItsPath, LoopsOwned,
                    NoSession, NoOp

\* A call that begins, with an empty set of locals, keeps the invariant.
LEMMA BeginIInv ==
    ASSUME IInv,
           BeginSetLan \/ \E code \in Codes : BeginCreate(code) \/ BeginJoin(code)
    PROVE  IInv'
<1>1. op.name = "idle" /\ step = 0 /\ fresh = {}
  BY Standing DEF BeginCreate, BeginJoin, BeginSetLan, Idle, NoOp
<1>2. /\ step' = 0 /\ fresh' = {} /\ session' = session /\ used \subseteq used'
      /\ op'.name \in Names \ {"idle"}
  BY <1>1 DEF BeginCreate, BeginJoin, BeginSetLan, Begin, Names
<1>3. LocalsFollowPlan'
  BY <1>2, PlanSteps, LocalsSteps DEF LocalsFollowPlan, Names
<1>4. ASSUME NEW code \in Codes, BeginCreate(code) PROVE IInv'
  <2>1. TypeOK'
    BY <1>2, <1>4 DEF IInv, TypeOK, BeginCreate, Begin
  <2> QED
    BY <1>2, <1>3, <1>4, <2>1
       DEF IInv, CallFitsSession, SessionOwns, MemberOwnsItsPath, LoopsOwned, BeginCreate, Begin
<1>5. ASSUME NEW code \in Codes, BeginJoin(code) PROVE IInv'
  <2>1. TypeOK'
    BY <1>2, <1>5 DEF IInv, TypeOK, BeginJoin, Begin
  <2> QED
    BY <1>2, <1>3, <1>5, <2>1
       DEF IInv, CallFitsSession, SessionOwns, MemberOwnsItsPath, LoopsOwned, BeginJoin, Begin
<1>6. CASE BeginSetLan
  <2>0. "scaffolding" \notin listening
    BY DEF IInv, TypeOK, PortForwards, MeshPorts
  <2>1. TypeOK'
    BY <1>2, <1>6 DEF IInv, TypeOK, BeginSetLan
  <2> QED
    BY <1>2, <1>3, <1>6, <2>0, <2>1
       DEF IInv, CallFitsSession, SessionOwns, MemberOwnsItsPath, LoopsOwned, BeginSetLan
<1> QED
  BY <1>4, <1>5, <1>6

\* A step of the call under way that succeeds adds to the locals, or is the LAN
\* broadcast that may be missing.
LEMMA AcquireIInv ==
    ASSUME IInv, Acquire \/ SkipBroadcast
    PROVE  IInv'
<1>1. /\ step < Len(Plan(op.name)) /\ step' = step + 1 /\ step \in Nat
      /\ UNCHANGED <<session, held, op, conns, hosts, adverts, used, found>>
      /\ op.name \in Names /\ Len(Plan(op.name)) \in Nat
  BY Standing DEF Acquire, SkipBroadcast
<1>2. step' \in 0..5
  <2>1. Len(Plan(op.name)) \in {0, 3, 5}
    <3>1. op.name \in {"idle", "create", "local", "mesh", "setlan"}
      BY <1>1 DEF Names
    <3> QED
      BY <3>1, PlanSteps
  <2>2. step < 0 \/ step < 3 \/ step < 5
    BY <1>1, <2>1
  <2> QED
    BY <1>1, <2>2
<1>3. /\ fresh' \subseteq Resources /\ listening' \subseteq PortForwards
      /\ LoopsOwned'
  <2>1. PortForwards \subseteq Resources
    BY DEF PortForwards, MeshPorts, Resources
  <2> QED
    BY <2>1 DEF IInv, TypeOK, LoopsOwned, Acquire, SkipBroadcast
<1>4. LocalsFollowPlan'
  <2>1. At # "swap"
    BY DEF Acquire, SkipBroadcast
  <2>2. Locals(op.name, step') = Locals(op.name, step) \cup ({At} \cap Resources)
    BY <1>1, <2>1, LocalsSteps DEF At
  <2>3. \/ fresh' = fresh \cup ({At} \cap Resources)
        \/ fresh' = fresh /\ At = "broadcast"
    BY DEF Acquire, SkipBroadcast
  <2> QED
    BY <1>1, <2>2, <2>3 DEF IInv, LocalsFollowPlan
<1>5. TypeOK'
  BY <1>1, <1>2, <1>3 DEF IInv, TypeOK
<1> QED
  BY <1>1, <1>3, <1>4, <1>5 DEF IInv, CallFitsSession, SessionOwns, MemberOwnsItsPath

\* The error path of a failing step leaves no locals behind, and no accept loop that
\* only the locals owned.
LEMMA FailIInv ==
    ASSUME IInv, Fail
    PROVE  IInv'
<1>1. /\ op' = NoOp /\ step' = 0 /\ UNCHANGED <<session, held, conns, hosts, used, found>>
      /\ op'.name = "idle"
  BY DEF Fail, Done, NoOp
<1>2. fresh \subseteq Cleanup(op.name, At)
  <2>1. Locals(op.name, step) \subseteq Cleanup(op.name, At)
    BY Standing, CleanupCoversLocals DEF Fail, At
  <2> QED
    BY <2>1 DEF IInv, LocalsFollowPlan
<1>3. fresh' = {} /\ listening' = listening \ fresh
  BY <1>2 DEF Fail
<1>4. adverts' \subseteq Codes
  <2>1. At = "advert" => op.code \in used
    BY Standing DEF IInv, CallFitsSession, SessionOwns, Fail
  <2> QED
    BY <2>1 DEF IInv, TypeOK, Fail
<1>5. TypeOK'
  BY <1>1, <1>3, <1>4 DEF IInv, TypeOK, NoOp
<1>6. LocalsFollowPlan'
  BY <1>1, <1>3, PlanSteps, LocalsSteps DEF LocalsFollowPlan, Names
<1>7. LoopsOwned'
  BY <1>1, <1>3 DEF IInv, LoopsOwned
<1> QED
  BY <1>1, <1>5, <1>6, <1>7 DEF IInv, CallFitsSession, SessionOwns, MemberOwnsItsPath

\* The swap of set_lan_address makes the session whole again.
LEMMA SwapIInv ==
    ASSUME IInv, Swap
    PROVE  IInv'
<1>1. op.name = "setlan" /\ step = 3 /\ fresh = {"scaffolding", "ingressS", "ingressM"}
  BY Standing DEF Swap
<1>2. /\ session.role = "Host" /\ op.code \in used
      /\ held \subseteq HostParts /\ HostParts \subseteq held \cup {"scaffolding"}
  BY <1>1 DEF IInv, CallFitsSession, SessionOwns
<1>3. /\ held' = HostParts /\ fresh' = {} /\ step' = 4
      /\ UNCHANGED <<session, op, listening, conns, adverts, used, found>>
  <2>1. held \cup fresh = HostParts
    BY <1>1, <1>2 DEF HostParts
  <2>2. step' = step + 1 /\ 3 + 1 = 4
    BY DEF Swap
  <2> QED
    BY <1>1, <2>1, <2>2 DEF Swap
<1>4. TypeOK'
  <2>1. hosts' \subseteq used' /\ HostParts \subseteq Resources
    BY <1>2, <1>3 DEF IInv, TypeOK, Swap, HostParts, Resources
  <2> QED
    BY <1>3, <2>1 DEF IInv, TypeOK
<1>5. LocalsFollowPlan'
  <2>1. Locals(op'.name, step') = {} /\ Len(Plan(op'.name)) = 5
    BY <1>1, <1>3, PlanSteps DEF Locals
  <2> QED
    BY <1>3, <2>1 DEF LocalsFollowPlan
<1>6. LoopsOwned'
  BY <1>1, <1>2, <1>3 DEF IInv, LoopsOwned, HostParts
<1> QED
  BY <1>2, <1>3, <1>4, <1>5, <1>6 DEF IInv, CallFitsSession, SessionOwns, MemberOwnsItsPath

\* A host's session is stored with everything a host needs, or was in place.
LEMMA AdvertiseIInv ==
    ASSUME IInv, Advertise
    PROVE  IInv' /\ session.role \in {"none", "Host"}
<1>1. \/ op.name = "create" /\ fresh = HostParts
      \/ op.name = "setlan" /\ fresh = {}
  BY Standing DEF Advertise
<1>2. /\ session.role \in {"none", "Host"} /\ op.code \in used
      /\ held \cup fresh \subseteq HostParts
      /\ HostParts \subseteq held \cup fresh \cup {"scaffolding"}
  BY <1>1 DEF IInv, CallFitsSession, SessionOwns
<1>3. /\ session'.role = "Host" /\ session'.code = op.code /\ held' = held \cup fresh
      /\ fresh' = {} /\ op' = NoOp /\ op'.name = "idle" /\ step' = 0
      /\ UNCHANGED <<listening, conns, used>>
  BY DEF Advertise, Done, NoOp
<1>4. TypeOK'
  <2>1. held' \subseteq Resources
    BY <1>2, <1>3 DEF HostParts, Resources
  <2>2. hosts' \subseteq used' /\ adverts' \subseteq Codes
    BY <1>2, <1>3 DEF IInv, TypeOK, Advertise
  <2> QED
    BY <1>3, <2>1, <2>2 DEF IInv, TypeOK, Advertise, NoOp
<1>5. LocalsFollowPlan'
  BY <1>3, PlanSteps, LocalsSteps DEF LocalsFollowPlan, Names
<1>6. LoopsOwned'
  BY <1>3 DEF IInv, LoopsOwned
<1> QED
  BY <1>2, <1>3, <1>4, <1>5, <1>6 DEF IInv, CallFitsSession, SessionOwns, MemberOwnsItsPath

\* A member's session is stored with the path it joined by.
LEMMA StoreMemberIInv ==
    ASSUME IInv, StoreMember
    PROVE  IInv' /\ session.role = "none"
<1>1. op.name \in {"local", "mesh"} /\ session.role = "none" /\ held = {}
  BY DEF IInv, CallFitsSession, SessionOwns, StoreMember
<1>2. /\ session'.role = "Member" /\ session'.via = Via(op.name) /\ held' = fresh
      /\ fresh' = {} /\ op' = NoOp /\ op'.name = "idle" /\ step' = 0
      /\ UNCHANGED <<listening, conns, hosts, adverts, used, found>>
  BY <1>1 DEF StoreMember, Done, NoOp
<1>3. /\ fresh \subseteq Acquired(op.name, Len(Plan(op.name)))
      /\ Acquired(op.name, Len(Plan(op.name))) \subseteq fresh \cup {"broadcast"}
  BY <1>1 DEF IInv, LocalsFollowPlan, Locals, StoreMember
<1>4. MemberOwnsItsPath' /\ SessionOwns'
  <2>1. CASE op.name = "local"
    <3>1. session'.via = "advert"
      BY <1>2, <2>1 DEF Via
    <3>2. fresh \subseteq MemberParts /\ MemberParts \subseteq fresh \cup {"broadcast"}
      <4>1. Len(Plan(op.name)) = 5 /\ Acquired(op.name, 5) = MemberParts
        BY <2>1, PlanSteps, AcquiredSets
      <4> QED
        BY <1>3, <4>1
    <3> QED
      BY <1>2, <3>1, <3>2 DEF MemberOwnsItsPath, SessionOwns, MemberParts
  <2>2. CASE op.name = "mesh"
    <3>1. session'.via = "mesh"
      BY <1>2, <2>2 DEF Via
    <3>2. fresh \subseteq {"easytier", "broadcast"} /\ "easytier" \in fresh
      <4>1. Len(Plan(op.name)) = 3 /\ Acquired(op.name, 3) = {"easytier", "broadcast"}
        BY <2>2, PlanSteps, AcquiredSets
      <4> QED
        BY <1>3, <4>1
    <3> QED
      BY <1>2, <3>1, <3>2 DEF MemberOwnsItsPath, SessionOwns, MemberParts
  <2> QED
    BY <1>1, <2>1, <2>2
<1>5. TypeOK'
  BY <1>1, <1>2 DEF IInv, TypeOK, StoreMember, Via, NoOp
<1>6. LocalsFollowPlan'
  BY <1>2, PlanSteps, LocalsSteps DEF LocalsFollowPlan, Names
<1>7. LoopsOwned'
  BY <1>1, <1>2 DEF IInv, LoopsOwned
<1> QED
  BY <1>1, <1>2, <1>4, <1>5, <1>6, <1>7 DEF IInv, CallFitsSession

\* Leaving and the end of the process close the session and free all it owns.
LEMMA CloseIInv ==
    ASSUME IInv, Leave \/ Exit
    PROVE  IInv' /\ session'.role = "none"
<1>1. /\ session' = NoSession /\ session'.role = "none" /\ op' = NoOp /\ op'.name = "idle"
      /\ step' = 0 /\ fresh' = {} /\ UNCHANGED <<used, found>> /\ adverts' \subseteq adverts
  <2>1. CASE Leave
    BY <2>1, Standing DEF Leave, Idle, NoOp, NoSession
  <2>2. CASE Exit
    BY <2>2 DEF Exit, Done, NoOp, NoSession
  <2> QED
    BY <2>1, <2>2
<1>2. held' = {} /\ listening' = {} /\ conns' \subseteq conns
  <2>1. CASE Leave
    <3>1. session.role \in {"none", "Host", "Member"}
      BY DEF IInv, TypeOK
    <3>2. listening \subseteq held
      BY <2>1, Standing DEF IInv, LoopsOwned, Leave, Idle, NoOp
    <3> QED
      BY <2>1, <3>1, <3>2 DEF IInv, SessionOwns, Leave, HostParts, MemberParts
  <2>2. CASE Exit
    BY <2>2 DEF Exit
  <2> QED
    BY <2>1, <2>2
<1>3. hosts' \subseteq used'
  BY <1>1 DEF IInv, TypeOK, Leave, Exit
<1>4. TypeOK'
  BY <1>1, <1>2, <1>3 DEF IInv, TypeOK, NoOp, NoSession
<1>5. LocalsFollowPlan'
  BY <1>1, PlanSteps, LocalsSteps DEF LocalsFollowPlan, Names
<1> QED
  BY <1>1, <1>2, <1>4, <1>5
     DEF IInv, CallFitsSession, SessionOwns, MemberOwnsItsPath, LoopsOwned

\* Connections come and go, and accept loops end, without touching what is owned.
LEMMA ForwardingIInv ==
    ASSUME IInv, Forwarding
    PROVE  IInv' /\ session' = session
<1>1. /\ UNCHANGED <<session, held, op, step, fresh, hosts, adverts, used, found>>
      /\ listening' \subseteq listening /\ conns' \subseteq conns \cup PortForwards
  BY DEF Forwarding, Connect, Disconnect, AcceptFails
<1>2. TypeOK'
  BY <1>1 DEF IInv, TypeOK
<1> QED
  BY <1>1, <1>2 DEF IInv, LocalsFollowPlan, CallFitsSession, SessionOwns, MemberOwnsItsPath,
                    LoopsOwned

\* Other helpers of the machine touch nothing of this one.
LEMMA NeighbourIInv ==
    ASSUME IInv, Neighbour \/ UNCHANGED vars
    PROVE  IInv' /\ session' = session
<1>1. UNCHANGED <<session, held, op, step, fresh, listening, conns, found>> /\ used \subseteq used'
  BY DEF Neighbour, NeighbourHosts, NeighbourLeaves, NeighbourExits, vars
<1>2. hosts' \subseteq used' /\ adverts' \subseteq Codes /\ used' \subseteq Codes
  BY DEF IInv, TypeOK, Neighbour, NeighbourHosts, NeighbourLeaves, NeighbourExits, vars
<1>3. TypeOK'
  BY <1>1, <1>2 DEF IInv, TypeOK
<1> QED
  BY <1>1, <1>3 DEF IInv, LocalsFollowPlan, CallFitsSession, SessionOwns, MemberOwnsItsPath,
                    LoopsOwned

\* The invariant is inductive.
LEMMA NextIInv == IInv /\ [Next]_vars => IInv'
<1> SUFFICES ASSUME IInv, [Next]_vars PROVE IInv'
  OBVIOUS
<1> QED
  BY BeginIInv, AcquireIInv, FailIInv, SwapIInv, AdvertiseIInv, StoreMemberIInv, CloseIInv,
     ForwardingIInv, NeighbourIInv
     DEF Next, Call, Proceed

-----------------------------------------------------------------------------
(* Theorems *)

\* Whatever order the calls, their failures and the neighbours' steps come in, the
\* locals of a call are what its plan has acquired and a session owns what leaving stops.
THEOREM Inductive == Spec => []IInv
<1> QED
  BY InitIInv, NextIInv, PTL DEF Spec

\* The fields of the backend keep their types; only generated codes are hosted.
THEOREM TypesHold == Spec => []TypeOK
<1>1. IInv => TypeOK
  BY DEF IInv
<1> QED
  BY <1>1, Inductive, PTL

\* No call leaves a child process, a task or an accept loop behind, at whichever step
\* it failed.
THEOREM NothingEverLeaks == Spec => []NothingLeaks
<1>1. IInv => NothingLeaks
  BY Standing DEF IInv, LoopsOwned, NothingLeaks, Idle, NoOp
<1> QED
  BY <1>1, Inductive, PTL

\* Once the session is closed, by a leave or by the end of the process, it has left
\* no child process and no task it owned, and nothing accepts connections any more but
\* what a call under way has bound.  The connections already accepted are not covered:
\* their tasks are nobody's, and outlive a leave.
THEOREM LeaveAlwaysStopsListening == Spec => []LeaveStopsListening
<1>1. IInv => LeaveStopsListening
  BY DEF IInv, SessionOwns, LoopsOwned, LeaveStopsListening
<1> QED
  BY <1>1, Inductive, PTL

\* A member owns exactly the forwards that the way it joined needs.
THEOREM MemberAlwaysOwnsItsPath == Spec => []MemberOwnsItsPath
<1>1. IInv => MemberOwnsItsPath
  BY DEF IInv
<1> QED
  BY <1>1, Inductive, PTL

\* The backend implements what RoomService relies on: create and join open a
\* session only when there is none, and only leaving or dying closes one.
THEOREM ContractKept == Spec => KeepsContract
<1>1. Init => Contract!BackendInit
  BY DEF Init, NoSession, Contract!BackendInit
<1>2. IInv /\ [Next]_vars => [Contract!BackendNext]_(session.role)
  <2> SUFFICES ASSUME IInv, [Next]_vars PROVE [Contract!BackendNext]_(session.role)
    OBVIOUS
  <2> USE DEF Contract!BackendNext, Contract!OpenSession, Contract!CloseSession, Contract!Roles
  <2>1. CASE Advertise
    <3>1. session.role \in {"none", "Host"} /\ session'.role = "Host"
      BY <2>1, AdvertiseIInv DEF Advertise
    <3> QED
      BY <3>1
  <2>2. CASE StoreMember
    <3>1. session.role = "none" /\ session'.role = "Member"
      BY <2>2, StoreMemberIInv DEF StoreMember
    <3> QED
      BY <3>1
  <2>3. CASE Leave \/ Exit
    BY <2>3, CloseIInv
  <2>4. CASE \/ Neighbour \/ UNCHANGED vars \/ Forwarding
             \/ Acquire \/ SkipBroadcast \/ Fail \/ Swap \/ BeginSetLan
             \/ \E code \in Codes : BeginCreate(code) \/ BeginJoin(code)
    <3>1. session' = session
      BY <2>4, NeighbourIInv, ForwardingIInv
         DEF Acquire, SkipBroadcast, Fail, Swap, BeginSetLan, BeginCreate, BeginJoin, Begin
    <3> QED
      BY <3>1
  <2> QED
    BY <2>1, <2>2, <2>3, <2>4 DEF Next, Call, Proceed
<1> QED
  BY <1>1, <1>2, Inductive, PTL DEF Spec, KeepsContract, Contract!BackendSpec
==============================================================================

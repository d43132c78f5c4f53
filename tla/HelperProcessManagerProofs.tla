---------------------- MODULE HelperProcessManagerProofs ----------------------
(* Theorems about HelperProcessManager, for every set of callers and however    *)
(* many processes are started: the cached client, the process task and the      *)
(* endpoint belong to the newest process, no helper runs without an owner, and  *)
(* an exit is charged as a crash only to the process the manager owns.          *)
EXTENDS HelperProcessManager, TLAPS

-----------------------------------------------------------------------------
(* The inductive invariant *)

\* The task and the endpoint are set and disposed together, for the newest
\* process; the client is cached only beside them.  They are disposed only by a
\* stop, so while no stop was asked for they are there.
OneOwner ==
    /\ task = endpoint /\ task \in {0, generation} /\ client \in {0, task}
    /\ ~intentional => task = generation

NoneRunning == \A g \in Generations : proc[g] # "running"

\* What a caller inside the critical section may rely on.  A stop that found no
\* client has nothing running to stop; the catch block of a failed start has, and
\* then the task is that of the process it started.
CriticalSection ==
    \A c \in Callers :
        /\ pc[c] = "connect" => ~intentional /\ client = 0 /\ generation > 0
        /\ pc[c] = "shutdown" => intentional /\ client # 0
        /\ pc[c] \in {"join", "dispose"} => intentional /\ client = 0
        /\ pc[c] = "join" => NoneRunning \/ (why[c] = "failed" /\ task = generation)
        /\ pc[c] = "dispose" => NoneRunning

\* A process is charged with one crash at most, and the newest one with none
\* before its exit was dealt with.
CrashesBounded ==
    /\ crashCount <= generation
    /\ generation > 0 /\ proc[generation] \notin {"grant", "deny", "done"}
        => crashCount < generation

IInv == TypeOK /\ OneOwner /\ NoOrphan /\ CrashIsNoticed /\ CriticalSection /\ CrashesBounded

-----------------------------------------------------------------------------
(* Every step keeps the invariant *)

\* Types as the provers use them: the numbers one by one.
LEMMA Numbers ==
    ASSUME TypeOK
    PROVE  /\ MaxGeneration \in Nat
           /\ generation \in 0..MaxGeneration /\ client \in 0..MaxGeneration
           /\ task \in 0..MaxGeneration /\ endpoint \in 0..MaxGeneration
           /\ crashCount \in 0..MaxGeneration
BY MaxGenerationAssumption DEF TypeOK

\* With the gate free and no client cached nothing is running: this is why a
\* start may begin a new generation.
LEMMA FreeWithoutClient ==
    ASSUME IInv, gate = "nobody", client = 0
    PROVE  NoneRunning
BY DEF IInv, NoOrphan, NoneRunning, Generations

\* Nothing was started when the manager is created.
LEMMA InitIInv == Init => IInv
<1> SUFFICES ASSUME Init PROVE IInv
  OBVIOUS
<1>1. TypeOK
  <2>1. proc \in [Generations -> ProcStates]
    BY DEF Init, ProcStates
  <2>2. /\ pc \in [Callers -> {"ready", "again", "connect", "shutdown", "join", "dispose"}]
        /\ why \in [Callers -> {"none", "start", "stop", "recover", "failed"}]
        /\ \A c \in Callers : pc[c] \in {"ready", "again"} /\ gate # c
    BY CallersAssumption DEF Init
  <2>3. {generation, client, task, endpoint} \subseteq 0..MaxGeneration
    BY MaxGenerationAssumption DEF Init
  <2>4. crashCount \in 0..MaxGeneration /\ (crashCount = 0 <=> window = "unset")
    BY MaxGenerationAssumption DEF Init
  <2>5. /\ intentional \in BOOLEAN /\ recover \in BOOLEAN /\ recent \in BOOLEAN
        /\ stream \in {"ok", "cut", "deaf"} /\ faulted \in BOOLEAN
    BY DEF Init
  <2>6. gate \in Callers \cup {"nobody"} /\ window \in {"unset", "open", "past"}
    BY DEF Init
  <2> QED
    BY <2>1, <2>2, <2>3, <2>4, <2>5, <2>6 DEF TypeOK
<1> QED
  BY <1>1 DEF Init, IInv, OneOwner, NoOrphan, CrashIsNoticed, CriticalSection, CrashesBounded,
              NoneRunning

\* EnsureStartedAsync: a cached client is returned, the resolution fails, or a
\* process of a new generation is started.
LEMMA EnsureIInv ==
    ASSUME IInv, NEW c \in Callers, EnsureStarted(c)
    PROVE  IInv'
<1>1. /\ gate = "nobody" /\ UNCHANGED <<stream, recover, recent>>
      /\ \A d \in Callers : pc[d] \in {"ready", "again"}
  BY CallersAssumption DEF EnsureStarted, IInv, TypeOK
<1>2. CASE /\ client # 0
           /\ pc' = [pc EXCEPT ![c] = "ready"]
           /\ UNCHANGED <<gate, why, fields, proc, faulted>>
  <2>1. TypeOK'
    BY <1>1, <1>2, CallersAssumption DEF IInv, TypeOK, fields
  <2> QED
    BY <1>1, <1>2, <2>1
       DEF IInv, OneOwner, NoOrphan, CrashIsNoticed, CriticalSection, CrashesBounded,
           NoneRunning, fields, TypeOK
<1>3. CASE /\ client = 0
           /\ Acquire(c, "join", "failed")
           /\ intentional' = TRUE
           /\ UNCHANGED <<generation, client, task, endpoint, crashCount, window, proc, faulted>>
  <2>1. TypeOK'
    BY <1>1, <1>3, CallersAssumption DEF IInv, TypeOK, Acquire
  <2>2. NoneRunning
    BY <1>1, <1>3, FreeWithoutClient
  <2> QED
    BY <1>1, <1>3, <2>1, <2>2, CallersAssumption
       DEF IInv, OneOwner, NoOrphan, CrashIsNoticed, CriticalSection, CrashesBounded,
           NoneRunning, Acquire, TypeOK
<1>4. CASE /\ client = 0 /\ generation < MaxGeneration
           /\ Acquire(c, "connect", "start")
           /\ generation' = generation + 1
           /\ task' = generation' /\ endpoint' = generation' /\ faulted' = FALSE
           /\ intentional' = FALSE
           /\ proc' = [proc EXCEPT ![generation'] = "running"]
           /\ UNCHANGED <<client, crashCount, window>>
  <2>1. generation' \in Generations /\ generation' > 0
    BY <1>4, Numbers DEF IInv, Generations
  <2>2. /\ gate' = c /\ pc' = [pc EXCEPT ![c] = "connect"]
        /\ why' = [why EXCEPT ![c] = "start"]
    BY <1>4 DEF Acquire
  <2>3. NoneRunning
    BY <1>1, <1>4, FreeWithoutClient
  <2>4. TypeOK'
    <3>1. {generation, client, task, endpoint}' \subseteq 0..MaxGeneration
      BY <1>4, <2>1, Numbers DEF IInv, Generations
    <3>2. proc' \in [Generations -> ProcStates]
      BY <1>4 DEF IInv, TypeOK, ProcStates
    <3> QED
      BY <1>1, <1>4, <2>2, <3>1, <3>2, CallersAssumption DEF IInv, TypeOK
  <2>5. OneOwner' /\ CrashIsNoticed'
    BY <1>4 DEF OneOwner, CrashIsNoticed
  <2>6. NoOrphan'
    BY <1>4, <2>2, <2>3, CallersAssumption DEF IInv, TypeOK, NoOrphan, NoneRunning
  <2>7. CriticalSection'
    BY <1>1, <1>4, <2>1, <2>2 DEF IInv, TypeOK, CriticalSection
  <2>8. CrashesBounded'
    BY <1>4, Numbers DEF IInv, CrashesBounded
  <2> QED
    BY <2>4, <2>5, <2>6, <2>7, <2>8 DEF IInv
<1> QED
  BY <1>2, <1>3, <1>4 DEF EnsureStarted

\* ConnectAsync: the handshake caches a client of the newest process, which runs.
LEMMA ConnectIInv ==
    ASSUME IInv, NEW c \in Callers, Connect(c)
    PROVE  IInv'
<1>1. /\ gate = c /\ gate' = "nobody" /\ client' = generation /\ stream' = "ok"
      /\ pc' = [pc EXCEPT ![c] = "ready"] /\ why' = [why EXCEPT ![c] = "none"]
      /\ UNCHANGED <<generation, task, endpoint, intentional, crashCount, window,
                     proc, faulted, recover, recent>>
      /\ ~intentional /\ generation > 0 /\ proc[generation] = "running"
  BY DEF Connect, Release, IInv, TypeOK, CriticalSection
<1>2. task = generation /\ endpoint = generation
  BY <1>1 DEF IInv, OneOwner
<1>3. TypeOK'
  BY <1>1, Numbers, CallersAssumption DEF IInv, TypeOK
<1>4. OneOwner' /\ CrashIsNoticed' /\ CrashesBounded' /\ NoOrphan'
  BY <1>1, <1>2 DEF IInv, OneOwner, CrashIsNoticed, CrashesBounded, NoOrphan
<1>5. CriticalSection'
  BY <1>1, <1>3, CallersAssumption DEF IInv, TypeOK, CriticalSection
<1> QED
  BY <1>3, <1>4, <1>5 DEF IInv

\* A failed start goes on to the stop of its catch block, under the same gate.
LEMMA ConnectFailsIInv ==
    ASSUME IInv, NEW c \in Callers, ConnectFails(c)
    PROVE  IInv'
<1>1. /\ gate = c /\ intentional' = TRUE
      /\ pc' = [pc EXCEPT ![c] = "join"] /\ why' = [why EXCEPT ![c] = "failed"]
      /\ UNCHANGED <<gate, generation, client, task, endpoint, crashCount, window,
                     stream, proc, faulted, recover, recent>>
      /\ ~intentional /\ client = 0 /\ task = generation
  BY DEF ConnectFails, IInv, TypeOK, CriticalSection, OneOwner
<1>2. TypeOK'
  BY <1>1, CallersAssumption DEF IInv, TypeOK
<1>3. OneOwner' /\ CrashIsNoticed' /\ CrashesBounded' /\ NoOrphan'
  BY <1>1 DEF IInv, OneOwner, CrashIsNoticed, CrashesBounded, NoOrphan
<1>4. CriticalSection'
  BY <1>1, <1>2 DEF IInv, TypeOK, CriticalSection
<1> QED
  BY <1>2, <1>3, <1>4 DEF IInv

\* StopAsync takes the gate; without a client there is nothing to shut down.
LEMMA BeginStopIInv ==
    ASSUME IInv, NEW c \in Callers, Stop(c) \/ Recover(c)
    PROVE  IInv'
<1> DEFINE place == IF client # 0 THEN "shutdown" ELSE "join"
<1>1. /\ gate = "nobody" /\ gate' = c /\ intentional' = TRUE
      /\ pc' = [pc EXCEPT ![c] = place]
      /\ \E call \in {"stop", "recover"} : why' = [why EXCEPT ![c] = call]
      /\ UNCHANGED <<generation, client, task, endpoint, crashCount, window, stream, proc,
                     faulted, recent>>
      /\ recover' \in BOOLEAN
  BY DEF Stop, Recover, BeginStop, Acquire, IInv, TypeOK
<1>2. \A d \in Callers : pc[d] \in {"ready", "again"}
  BY <1>1, CallersAssumption DEF IInv, TypeOK
<1>3. client = 0 => NoneRunning
  BY <1>1, FreeWithoutClient
<1>4. why' \in [Callers -> {"none", "start", "stop", "recover", "failed"}]
  BY <1>1 DEF IInv, TypeOK
<1>5. TypeOK'
  BY <1>1, <1>2, <1>4, CallersAssumption DEF IInv, TypeOK
<1>6. OneOwner' /\ CrashIsNoticed' /\ CrashesBounded' /\ NoOrphan'
  BY <1>1, CallersAssumption DEF IInv, OneOwner, CrashIsNoticed, CrashesBounded, NoOrphan
<1>7. CriticalSection'
  BY <1>1, <1>2, <1>3 DEF IInv, TypeOK, CriticalSection, NoneRunning
<1> QED
  BY <1>5, <1>6, <1>7 DEF IInv

\* The shutdown call of a stop: the client is disposed and its process told.
LEMMA ShutdownIInv ==
    ASSUME IInv, NEW c \in Callers, Shutdown(c)
    PROVE  IInv'
<1>1. /\ gate = c /\ intentional /\ client # 0 /\ client' = 0 /\ stream' = "ok"
      /\ pc' = [pc EXCEPT ![c] = "join"]
      /\ proc' = [proc EXCEPT ![client] = IF @ = "running" THEN "told" ELSE @]
      /\ UNCHANGED <<gate, why, generation, task, endpoint, intentional, crashCount, window,
                     faulted, recover, recent>>
  BY DEF Shutdown, DropClient, Advance, IInv, TypeOK, CriticalSection
<1>2. client \in Generations /\ client = generation
  BY <1>1, Numbers DEF IInv, OneOwner, Generations
<1>3. TypeOK'
  <2>1. proc' \in [Generations -> ProcStates]
    BY <1>1, <1>2 DEF IInv, TypeOK, ProcStates
  <2> QED
    BY <1>1, <2>1, Numbers, CallersAssumption DEF IInv, TypeOK
<1>4. NoneRunning'
  BY <1>1, <1>2 DEF IInv, TypeOK, NoOrphan, NoneRunning
<1>5. OneOwner' /\ CrashIsNoticed' /\ NoOrphan'
  BY <1>1, <1>4 DEF IInv, OneOwner, CrashIsNoticed, NoOrphan, NoneRunning
<1>6. CrashesBounded'
  BY <1>1, <1>2 DEF IInv, TypeOK, CrashesBounded
<1>7. CriticalSection'
  BY <1>1, <1>3, <1>4 DEF IInv, TypeOK, CriticalSection
<1> QED
  BY <1>3, <1>5, <1>6, <1>7 DEF IInv

\* A stop whose caller cancels leaves the gate, the fields as they stand, and a
\* process that is told or still has its client.
LEMMA StopCancelledIInv ==
    ASSUME IInv, NEW c \in Callers, StopCancelled(c)
    PROVE  IInv'
<1>1. /\ gate = c /\ gate' = "nobody" /\ intentional
      /\ pc' = [pc EXCEPT ![c] = "ready"] /\ why' = [why EXCEPT ![c] = "none"]
      /\ UNCHANGED <<generation, client, task, endpoint, intentional, crashCount, window,
                     faulted, recover, recent>>
      /\ stream' \in {"ok", "cut", "deaf"}
  BY DEF StopCancelled, Release, IInv, TypeOK, CriticalSection, fields
<1>2. \/ proc' = proc
      \/ /\ client \in Generations /\ client = generation /\ proc[client] = "running"
         /\ proc' = [proc EXCEPT ![client] = "told"]
  BY Numbers DEF StopCancelled, IInv, TypeOK, CriticalSection, OneOwner, Generations
<1>3. client = 0 => NoneRunning
  BY DEF StopCancelled, IInv, CriticalSection
<1>4. TypeOK'
  <2>1. proc' \in [Generations -> ProcStates]
    BY <1>2 DEF IInv, TypeOK, ProcStates
  <2> QED
    BY <1>1, <2>1, CallersAssumption DEF IInv, TypeOK
<1>5. NoOrphan'
  <2>1. \A g \in Generations : proc'[g] = "running" => proc[g] = "running"
    BY <1>2 DEF IInv, TypeOK
  <2>2. client \in {0, generation}
    BY DEF IInv, OneOwner
  <2> QED
    BY <1>1, <1>3, <2>1, <2>2 DEF IInv, NoOrphan, NoneRunning
<1>6. OneOwner' /\ CrashIsNoticed'
  BY <1>1 DEF IInv, OneOwner, CrashIsNoticed
<1>7. CrashesBounded'
  BY <1>1, <1>2 DEF IInv, TypeOK, CrashesBounded
<1>8. CriticalSection'
  BY <1>1, <1>4, CallersAssumption DEF IInv, TypeOK, CriticalSection
<1> QED
  BY <1>4, <1>5, <1>6, <1>7, <1>8 DEF IInv

\* Waiting for the process task, or cancelling it: afterwards nothing runs.
LEMMA JoinIInv ==
    ASSUME IInv, NEW c \in Callers, Join(c)
    PROVE  IInv'
<1>1. /\ gate = c /\ intentional /\ client = 0 /\ pc[c] = "join"
      /\ pc' = [pc EXCEPT ![c] = "dispose"]
      /\ UNCHANGED <<gate, why, generation, client, task, endpoint, intentional, crashCount,
                     window, stream, faulted, recover, recent>>
  BY DEF Join, Advance, IInv, TypeOK, CriticalSection, fields
<1>2. \/ proc' = proc /\ (task # 0 => proc[task] = "done")
      \/ /\ task \in Generations /\ task = generation
         /\ proc[task] # "done"
         /\ proc' = [proc EXCEPT ![task] = IF @ \in {"running", "told"} THEN "killed" ELSE @]
  BY Numbers DEF Join, IInv, OneOwner, Generations
<1>3. TypeOK'
  <2>1. proc' \in [Generations -> ProcStates]
    BY <1>2 DEF IInv, TypeOK, ProcStates
  <2> QED
    BY <1>1, <2>1, CallersAssumption DEF IInv, TypeOK
<1>4. NoneRunning'
  <2>1. NoneRunning \/ task = generation
    BY <1>1 DEF IInv, CriticalSection
  <2>2. \A g \in Generations : proc[g] = "running" => g = generation
    BY DEF IInv, NoOrphan
  <2>3. \A g \in Generations : g # 0
    BY MaxGenerationAssumption DEF Generations
  <2> QED
    BY <1>2, <2>1, <2>2, <2>3 DEF IInv, TypeOK, NoneRunning
<1>5. OneOwner' /\ CrashIsNoticed' /\ NoOrphan'
  BY <1>1, <1>4 DEF IInv, OneOwner, CrashIsNoticed, NoOrphan, NoneRunning
<1>6. CrashesBounded'
  BY <1>1, <1>2 DEF IInv, TypeOK, CrashesBounded
<1>7. CriticalSection'
  BY <1>1, <1>3, <1>4 DEF IInv, TypeOK, CriticalSection
<1> QED
  BY <1>3, <1>5, <1>6, <1>7 DEF IInv

\* A stop that rethrows the exception of the process task leaves task and endpoint
\* set, for a process that is done: nothing runs without an owner.
LEMMA JoinThrowsIInv ==
    ASSUME IInv, NEW c \in Callers, JoinThrows(c)
    PROVE  IInv'
<1>1. /\ gate = c /\ gate' = "nobody" /\ intentional /\ client = 0 /\ pc[c] = "join"
      /\ pc' = [pc EXCEPT ![c] = "ready"] /\ why' = [why EXCEPT ![c] = "none"]
      /\ UNCHANGED <<generation, client, task, endpoint, intentional, crashCount, window,
                     stream, proc, faulted, recover, recent>>
  BY DEF JoinThrows, Release, IInv, TypeOK, CriticalSection, fields
<1>2. NoneRunning
  <2>1. task = generation /\ proc[generation] = "done"
    BY DEF JoinThrows, IInv, OneOwner
  <2> QED
    BY <2>1 DEF IInv, NoOrphan, NoneRunning
<1>3. TypeOK'
  BY <1>1, CallersAssumption DEF IInv, TypeOK
<1>4. OneOwner' /\ CrashIsNoticed' /\ CrashesBounded' /\ NoOrphan'
  BY <1>1, <1>2 DEF IInv, OneOwner, CrashIsNoticed, CrashesBounded, NoOrphan, NoneRunning
<1>5. CriticalSection'
  BY <1>1, <1>3, CallersAssumption DEF IInv, TypeOK, CriticalSection
<1> QED
  BY <1>3, <1>4, <1>5 DEF IInv

\* The end of a stop disposes what belonged to the process and frees the gate.
LEMMA FinishStopIInv ==
    ASSUME IInv, NEW c \in Callers, FinishStop(c)
    PROVE  IInv'
<1>1. /\ gate = c /\ intentional /\ client = 0 /\ gate' = "nobody"
      /\ NoneRunning
      /\ task' = 0 /\ endpoint' = 0 /\ crashCount' = 0 /\ window' = "unset"
      /\ why' = [why EXCEPT ![c] = "none"]
      /\ faulted' = FALSE
      /\ UNCHANGED <<generation, client, intentional, stream, proc, recover>>
  BY DEF FinishStop, Release, IInv, TypeOK, CriticalSection
<1>2. \E place \in {"ready", "again"} : pc' = [pc EXCEPT ![c] = place]
  BY DEF FinishStop, Release, After
<1>3. TypeOK'
  <2>1. /\ pc' \in [Callers -> {"ready", "again", "connect", "shutdown", "join", "dispose"}]
        /\ \A d \in Callers : pc'[d] \in {"ready", "again"}
    BY <1>1, <1>2 DEF IInv, TypeOK
  <2>2. recent' \in BOOLEAN
    BY DEF FinishStop
  <2>3. why' \in [Callers -> {"none", "start", "stop", "recover", "failed"}]
    BY <1>1 DEF IInv, TypeOK
  <2> QED
    BY <1>1, <2>1, <2>2, <2>3, Numbers, CallersAssumption DEF IInv, TypeOK
<1>4. OneOwner' /\ CrashIsNoticed' /\ NoOrphan'
  BY <1>1 DEF IInv, OneOwner, CrashIsNoticed, NoOrphan, NoneRunning
<1>5. CrashesBounded'
  BY <1>1, Numbers DEF IInv, CrashesBounded
<1>6. CriticalSection'
  BY <1>1, <1>3, CallersAssumption DEF TypeOK, CriticalSection
<1> QED
  BY <1>3, <1>4, <1>5, <1>6 DEF IInv

\* A process exits; what its finally block read decides who deals with the exit.
LEMMA ProcessExitsIInv ==
    ASSUME IInv, NEW g \in Generations, ProcessExits(g)
    PROVE  IInv'
<1>1. /\ proc[g] \in {"running", "told", "killed"}
      /\ proc' = [proc EXCEPT ![g] = IF intentional THEN "done" ELSE "ended"]
      /\ UNCHANGED <<gate, pc, why, generation, client, task, endpoint, intentional, crashCount,
                     window, stream, recover, recent>>
      /\ faulted' \in BOOLEAN
  BY DEF ProcessExits, Exiting, fields, IInv, TypeOK
<1>2. TypeOK'
  <2>1. proc' \in [Generations -> ProcStates]
    BY <1>1 DEF IInv, TypeOK, ProcStates
  <2> QED
    BY <1>1, <2>1 DEF IInv, TypeOK
<1>3. \A h \in Generations : proc'[h] = "running" => proc[h] = "running"
  BY <1>1 DEF IInv, TypeOK
<1>4. OneOwner' /\ NoOrphan'
  BY <1>1, <1>3 DEF IInv, OneOwner, NoOrphan
<1>5. CrashIsNoticed'
  BY <1>1, Numbers DEF IInv, TypeOK, CrashIsNoticed, Generations
<1>6. CrashesBounded'
  BY <1>1, Numbers DEF IInv, TypeOK, CrashesBounded, Generations
<1>7. CriticalSection'
  BY <1>1, <1>3 DEF IInv, CriticalSection, NoneRunning
<1> QED
  BY <1>2, <1>4, <1>5, <1>6, <1>7 DEF IInv

\* The bookkeeping of an exit under the gate: only the newest process clears the
\* client, and a crash is counted only when no stop was asked for.
LEMMA OnProcessEndedIInv ==
    ASSUME IInv, NEW g \in Generations, OnProcessEnded(g)
    PROVE  IInv'
<1>1. /\ proc[g] = "ended" /\ gate = "nobody"
      /\ UNCHANGED <<gate, pc, why, generation, task, endpoint, intentional, faulted, recover>>
      /\ stream' \in {"ok", "cut", "deaf"}
      /\ \A d \in Callers : pc[d] \in {"ready", "again"}
  BY CallersAssumption DEF OnProcessEnded, DropClient, IInv, TypeOK
<1>2. \E to \in {"done", "grant", "deny"} : proc' = [proc EXCEPT ![g] = to]
  BY DEF OnProcessEnded, CountCrash
<1>3. client' = IF generation = g THEN 0 ELSE client
  BY DEF OnProcessEnded, DropClient
<1>4. \/ UNCHANGED <<crashCount, window, recent>>
      \/ /\ generation = g
         /\ crashCount' = (IF window = "open" THEN crashCount + 1 ELSE 1)
         /\ window' = "open" /\ recent' = TRUE
  BY DEF OnProcessEnded, CountCrash
<1>5. CrashesBounded' /\ crashCount' \in 0..MaxGeneration /\ (crashCount' = 0 <=> window' = "unset")
  <2>1. generation = g => generation > 0 /\ crashCount < generation
    BY <1>1, Numbers DEF IInv, CrashesBounded, Generations
  <2>2. generation = g => proc'[generation] \in {"grant", "deny", "done"}
    BY <1>2 DEF IInv, TypeOK
  <2>3. generation # g /\ generation > 0 => proc'[generation] = proc[generation]
    BY <1>2, Numbers DEF IInv, TypeOK, Generations
  <2>4. CASE UNCHANGED <<crashCount, window, recent>>
    BY <1>1, <2>2, <2>3, <2>4, Numbers DEF IInv, TypeOK, CrashesBounded
  <2>5. CASE /\ generation = g
             /\ crashCount' = (IF window = "open" THEN crashCount + 1 ELSE 1)
             /\ window' = "open" /\ recent' = TRUE
    <3>1. crashCount' <= generation /\ crashCount' > 0 /\ crashCount' \in Nat
      BY <2>1, <2>5, Numbers DEF IInv
    <3> QED
      BY <1>1, <2>2, <2>5, <3>1, Numbers DEF IInv, CrashesBounded
  <2> QED
    BY <1>4, <2>4, <2>5
<1>6. TypeOK'
  <2>1. proc' \in [Generations -> ProcStates]
    BY <1>2 DEF IInv, TypeOK, ProcStates
  <2>2. client' \in 0..MaxGeneration
    BY <1>3, Numbers DEF IInv
  <2>3. window' \in {"unset", "open", "past"} /\ recent' \in BOOLEAN
    BY <1>4 DEF IInv, TypeOK
  <2> QED
    BY <1>1, <1>5, <2>1, <2>2, <2>3 DEF IInv, TypeOK
<1>7. \A h \in Generations : h # g => proc'[h] = proc[h]
  BY <1>2 DEF IInv, TypeOK
<1>8. proc'[g] # "running"
  BY <1>2 DEF IInv, TypeOK
<1>9. OneOwner' /\ NoOrphan'
  BY <1>1, <1>3, <1>7, <1>8 DEF IInv, OneOwner, NoOrphan
<1>10. CrashIsNoticed'
  <2> SUFFICES ASSUME client' # 0, ~intentional' PROVE proc'[client'] \in {"running", "ended"}
    BY DEF CrashIsNoticed
  <2>1. client' = client /\ client # 0 /\ ~intentional /\ generation # g
    BY <1>1, <1>3
  <2>2. client \in Generations /\ client # g
    BY <2>1, Numbers DEF IInv, OneOwner, Generations
  <2> QED
    BY <1>7, <2>1, <2>2 DEF IInv, CrashIsNoticed
<1>11. CriticalSection'
  BY <1>1 DEF CriticalSection
<1> QED
  BY <1>5, <1>6, <1>9, <1>10, <1>11 DEF IInv

\* Raising the event, the ageing of the window, a broken stream and idle steps touch
\* no owner.
LEMMA OtherIInv ==
    ASSUME IInv,
           \/ WindowPasses \/ CrashAges \/ CutFrame \/ ReaderCancelled \/ UNCHANGED vars
           \/ \E g \in Generations : RaiseExited(g)
    PROVE  IInv'
<1>1. UNCHANGED <<gate, pc, why, generation, client, task, endpoint, intentional, crashCount>>
  BY DEF WindowPasses, CrashAges, CutFrame, ReaderCancelled, RaiseExited, vars, fields
<1>2. \/ proc' = proc
      \/ \E g \in Generations : proc[g] \in {"grant", "deny"} /\ proc' = [proc EXCEPT ![g] = "done"]
  BY DEF WindowPasses, CrashAges, CutFrame, ReaderCancelled, RaiseExited, vars
<1>3. /\ recover' \in BOOLEAN /\ recent' \in BOOLEAN /\ faulted' \in BOOLEAN
      /\ stream' \in {"ok", "cut", "deaf"}
      /\ window' = window \/ (window = "open" /\ window' = "past")
  BY DEF WindowPasses, CrashAges, CutFrame, ReaderCancelled, RaiseExited, vars, fields, IInv, TypeOK
<1>4. TypeOK'
  <2>1. proc' \in [Generations -> ProcStates]
    BY <1>2 DEF IInv, TypeOK, ProcStates
  <2> QED
    BY <1>1, <1>3, <2>1 DEF IInv, TypeOK
<1>5. \A h \in Generations : /\ proc'[h] = "running" <=> proc[h] = "running"
                             /\ proc[h] = "ended" => proc'[h] = "ended"
                             /\ proc[h] \in {"grant", "deny", "done"}
                                  => proc'[h] \in {"grant", "deny", "done"}
  BY <1>2 DEF IInv, TypeOK
<1>6. OneOwner' /\ NoOrphan'
  BY <1>1, <1>5 DEF IInv, OneOwner, NoOrphan
<1>7. CrashIsNoticed' /\ CrashesBounded'
  <2>1. (client # 0 => client \in Generations) /\ (generation > 0 => generation \in Generations)
    BY Numbers DEF IInv, Generations
  <2> QED
    BY <1>1, <1>5, <2>1 DEF IInv, CrashIsNoticed, CrashesBounded
<1>8. CriticalSection'
  BY <1>1, <1>5 DEF IInv, CriticalSection, NoneRunning
<1> QED
  BY <1>4, <1>6, <1>7, <1>8 DEF IInv

\* The invariant is inductive.
LEMMA NextIInv == IInv /\ [Next]_vars => IInv'
<1> SUFFICES ASSUME IInv, [Next]_vars PROVE IInv'
  OBVIOUS
<1>1. ASSUME NEW c \in Callers, Call(c) \/ Proceed(c) \/ StopCancelled(c) PROVE IInv'
  BY <1>1, EnsureIInv, BeginStopIInv, ConnectIInv, ConnectFailsIInv, ShutdownIInv, JoinIInv,
     JoinThrowsIInv, FinishStopIInv, StopCancelledIInv DEF Call, Proceed
<1>2. ASSUME NEW g \in Generations, Watch(g) PROVE IInv'
  BY <1>2, ProcessExitsIInv, OnProcessEndedIInv, OtherIInv DEF Watch
<1>3. CASE WindowPasses \/ CrashAges \/ CutFrame \/ ReaderCancelled \/ UNCHANGED vars
  BY <1>3, OtherIInv
<1> QED
  BY <1>1, <1>2, <1>3 DEF Next

-----------------------------------------------------------------------------
(* Theorems *)

\* Whatever the callers, the processes and their watching tasks do, the gate
\* protects one owner of one process.
THEOREM Inductive == Spec => []IInv
BY InitIInv, NextIInv, PTL DEF Spec

\* The gate has one holder, and it is the caller inside the critical section.
THEOREM TypesHold == Spec => []TypeOK
<1>1. IInv => TypeOK
  BY DEF IInv
<1> QED
  BY <1>1, Inductive, PTL

\* Client, process task and endpoint belong to the newest process.
THEOREM ClientAlwaysCurrent == Spec => []ClientIsCurrent
<1>1. IInv => ClientIsCurrent
  BY DEF IInv, OneOwner, ClientIsCurrent
<1> QED
  BY <1>1, Inductive, PTL

\* No helper process runs without an owner: a failed start, a cancelled stop and
\* a crash in any order leave none behind.
THEOREM NeverAnOrphan == Spec => []NoOrphan
<1>1. IInv => NoOrphan
  BY DEF IInv
<1> QED
  BY <1>1, Inductive, PTL

\* A cached client whose helper died is about to be cleared by the watching task.
THEOREM CrashAlwaysNoticed == Spec => []CrashIsNoticed
<1>1. IInv => CrashIsNoticed
  BY DEF IInv
<1> QED
  BY <1>1, Inductive, PTL

\* A crash is charged only to the process the manager still owns.
THEOREM CrashesChargedToOwned == Spec => CrashChargedToOwned
<1> DEFINE Charged == \A g \in Generations :
             proc[g] = "ended" /\ proc'[g] \in {"grant", "deny"} => task = g /\ endpoint = g
<1>1. IInv /\ [Next]_vars => [Charged]_vars
  <2> SUFFICES ASSUME IInv, [Next]_vars, NEW g \in Generations,
                      proc[g] = "ended", proc'[g] \in {"grant", "deny"}
               PROVE  task = g /\ endpoint = g
    OBVIOUS
  <2>1. OnProcessEnded(g) \/ proc'[g] = proc[g] \/ proc'[g] \in {"done", "told", "killed", "running"}
    <3>1. ASSUME NEW c \in Callers, Call(c) \/ StopCancelled(c)
          PROVE  proc'[g] = proc[g] \/ proc'[g] \in {"told", "running"}
      BY <3>1 DEF Call, EnsureStarted, Stop, Recover, BeginStop, StopCancelled, IInv, TypeOK
    <3>2. ASSUME NEW c \in Callers, Proceed(c)
          PROVE  proc'[g] = proc[g] \/ proc'[g] \in {"told", "killed"}
      BY <3>2 DEF Proceed, Connect, ConnectFails, Shutdown, Join, JoinThrows, FinishStop, IInv,
                  TypeOK
    <3>3. ASSUME NEW h \in Generations, Watch(h), ~OnProcessEnded(g)
          PROVE  proc'[g] = proc[g] \/ proc'[g] = "done"
      BY <3>3 DEF Watch, ProcessExits, Exiting, OnProcessEnded, CountCrash, RaiseExited, IInv,
                  TypeOK
    <3>4. CASE WindowPasses \/ CrashAges \/ CutFrame \/ ReaderCancelled \/ UNCHANGED vars
      BY <3>4 DEF WindowPasses, CrashAges, CutFrame, ReaderCancelled, vars
    <3> QED
      BY <3>1, <3>2, <3>3, <3>4 DEF Next
  <2>2. OnProcessEnded(g)
    BY <2>1
  <2>3. generation = g /\ ~intentional
    BY <2>2 DEF OnProcessEnded, IInv, TypeOK
  <2> QED
    BY <2>3 DEF IInv, OneOwner
<1> QED
  BY <1>1, Inductive, PTL DEF Spec, CrashChargedToOwned
==============================================================================

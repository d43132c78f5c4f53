------------------------ MODULE HelperProcessManager ------------------------
(* The plugin's owner of the helper process,                                   *)
(* Infrastructure/HelperProcessManager.cs.  One semaphore (gate) serialises     *)
(* starting, stopping and the bookkeeping of an exit; the task that watches a   *)
(* process reads _intentionalStop outside the gate, waits for the gate, and     *)
(* raises HelperProcessExited after it has released it.  The subscriber queues  *)
(* a recovery, which stops the manager and starts it again.                     *)
(*                                                                              *)
(* The shutdown call of a stop has no timeout of its own; whether it is         *)
(* answered depends on the state of the client's stream, which calls outside    *)
(* this module can break (IpcSession has the detail).                           *)
(*                                                                              *)
(* The host's task service is external.  Disposing a task registration is taken *)
(* not to wait for its task, which may be waiting for the gate itself.          *)
EXTENDS Naturals

CONSTANTS Callers,        \* concurrent users of the manager
          MaxGeneration   \* bound on the processes started

ASSUME CallersAssumption == "nobody" \notin Callers
ASSUME MaxGenerationAssumption == MaxGeneration \in Nat

VARIABLES gate,         \* _gate: the caller that holds it, or "nobody"
          pc, why,      \* where a caller stands, and for which call
          generation,   \* _generation
          client,       \* _client, by the generation it talks to; 0 is null
          task,         \* _processTask and _processCancellation, likewise
          endpoint,     \* _endpoint, likewise
          intentional,  \* _intentionalStop
          crashCount,   \* _crashCount
          window,       \* _crashWindowStart against the clock
          stream,       \* the cached client's stream: in order; cut inside a frame; or
                        \* deaf, its reader ended
          proc,         \* each generation's process and the task that watches it
          faulted,      \* whether _processTask ends with an exception
          recover,      \* a recovery is queued
          recent        \* history: a crash in the last CrashWindow, and no stop
                        \* since but a recovery's

fields == <<generation, client, task, endpoint, intentional, crashCount, window>>

vars == <<gate, pc, why, generation, client, task, endpoint, intentional,
          crashCount, window, stream, proc, faulted, recover, recent>>

Generations == 1..MaxGeneration

\* unborn, running; told: asked to shut down, or its pipe closed; killed:
\* cancelled; ended: its task waits for the gate; grant, deny: the exit is
\* counted and the event, with or without WillAutoRestart, not yet raised; done.
ProcStates == {"unborn", "running", "told", "killed", "ended", "grant", "deny", "done"}

Exiting == {"told", "killed"}

Init ==
    /\ gate = "nobody"
    /\ pc = [c \in Callers |-> "ready"]
    /\ why = [c \in Callers |-> "none"]
    /\ generation = 0 /\ client = 0 /\ task = 0 /\ endpoint = 0
    /\ intentional = FALSE
    /\ crashCount = 0 /\ window = "unset"
    /\ stream = "ok"
    /\ proc = [g \in Generations |-> "unborn"] /\ faulted = FALSE
    /\ recover = FALSE /\ recent = FALSE

-----------------------------------------------------------------------------
(* The gate and the callers *)

\* A recovery that has stopped the helper goes on to start it.
After(c) == IF why[c] = "recover" THEN "again" ELSE "ready"

Acquire(c, place, call) ==
    /\ gate = "nobody" /\ gate' = c
    /\ pc' = [pc EXCEPT ![c] = place]
    /\ why' = [why EXCEPT ![c] = call]

Advance(c, place) ==
    /\ pc' = [pc EXCEPT ![c] = place]
    /\ UNCHANGED <<gate, why>>

Release(c, place) ==
    /\ gate' = "nobody"
    /\ pc' = [pc EXCEPT ![c] = place]
    /\ why' = [why EXCEPT ![c] = "none"]

-----------------------------------------------------------------------------
(* EnsureStartedAsync and StartCoreAsync *)

\* Mutant: the cached client is not looked at.
EnsureUncached(c) ==
    /\ pc[c] \in {"ready", "again"} /\ gate = "nobody" /\ generation < MaxGeneration
    /\ Acquire(c, "connect", "start")
    /\ generation' = generation + 1
    /\ task' = generation' /\ endpoint' = generation'
    /\ intentional' = FALSE
    /\ proc' = [proc EXCEPT ![generation'] = "running"]
    /\ faulted' = FALSE
    /\ UNCHANGED <<client, crashCount, window, stream, recover, recent>>

\* A cached client is returned; otherwise the helper's path is resolved, which
\* may throw, and a process of a new generation is started.
EnsureStarted(c) ==
    /\ pc[c] \in {"ready", "again"} /\ gate = "nobody"
    /\ \/ /\ client # 0
          /\ pc' = [pc EXCEPT ![c] = "ready"]
          /\ UNCHANGED <<gate, why, fields, proc, faulted>>
       \/ /\ client = 0
          /\ Acquire(c, "join", "failed")
          /\ intentional' = TRUE
          /\ UNCHANGED <<generation, client, task, endpoint, crashCount, window, proc, faulted>>
       \/ /\ client = 0 /\ generation < MaxGeneration
          /\ Acquire(c, "connect", "start")
          /\ generation' = generation + 1
          /\ task' = generation' /\ endpoint' = generation' /\ faulted' = FALSE
          /\ intentional' = FALSE
          /\ proc' = [proc EXCEPT ![generation'] = "running"]
          /\ UNCHANGED <<client, crashCount, window>>
    /\ UNCHANGED <<stream, recover, recent>>

\* HelperIpcClient.ConnectAsync: the handshake with a process that is running.
Connect(c) ==
    /\ pc[c] = "connect"
    /\ proc[generation] = "running"
    /\ client' = generation /\ stream' = "ok"
    /\ Release(c, "ready")
    /\ UNCHANGED <<generation, task, endpoint, intentional, crashCount, window,
                   proc, faulted, recover, recent>>

\* The ten seconds are over, the caller cancelled, or the handshake was refused:
\* the catch block stops what was started, with no token.
ConnectFails(c) ==
    /\ pc[c] = "connect"
    /\ pc' = [pc EXCEPT ![c] = "join"]
    /\ why' = [why EXCEPT ![c] = "failed"]
    /\ intentional' = TRUE
    /\ UNCHANGED <<gate, generation, client, task, endpoint, crashCount, window,
                   stream, proc, faulted, recover, recent>>

-----------------------------------------------------------------------------
(* StopAsync and StopCoreAsync *)

BeginStop(c, call) ==
    /\ pc[c] = "ready"
    /\ Acquire(c, IF client # 0 THEN "shutdown" ELSE "join", call)
    /\ intentional' = TRUE
    /\ UNCHANGED <<generation, client, task, endpoint, crashCount, window, stream, proc,
                   faulted, recent>>

Stop(c) ==
    /\ BeginStop(c, "stop")
    /\ UNCHANGED recover

\* The operation queued by the subscriber of HelperProcessExited.
Recover(c) ==
    /\ recover /\ recover' = FALSE
    /\ BeginStop(c, "recover")

\* The client is disposed and its stream closed.
DropClient == client' = 0 /\ stream' = "ok"

Exited(g) == proc[g] \notin {"running"} \cup Exiting

\* The shutdown frame gets an answer or an error: a helper that reads it answers,
\* and the pipe of one that has ended breaks.  A helper in the middle of a frame
\* takes the shutdown for the rest of it, and nobody reads a deaf client's pipe.
Answered == stream = "ok" \/ (stream = "cut" /\ Exited(client))

\* shutdown is acknowledged, or fails because the helper is gone (a deaf client can
\* only fail to write it); the client is disposed, and a helper whose pipe closes
\* ends its session.
Shutdown(c) ==
    /\ pc[c] = "shutdown"
    /\ Answered \/ Exited(client)
    /\ proc' = [proc EXCEPT ![client] = IF @ = "running" THEN "told" ELSE @]
    /\ DropClient
    /\ Advance(c, "join")
    /\ UNCHANGED <<generation, task, endpoint, intentional, crashCount, window, faulted,
                   recover, recent>>

\* The caller's token is cancelled: StopCoreAsync is left where it stands, with the
\* shutdown not written, cut in two, or delivered.
StopCancelled(c) ==
    /\ why[c] \in {"stop", "recover"} /\ pc[c] \in {"shutdown", "join"}
    /\ \/ UNCHANGED <<stream, proc>>
       \/ /\ pc[c] = "shutdown" /\ proc[client] = "running" /\ stream = "ok"
          /\ \/ stream' = "cut" /\ UNCHANGED proc
             \/ proc' = [proc EXCEPT ![client] = "told"] /\ UNCHANGED stream
    /\ Release(c, "ready")
    /\ UNCHANGED <<fields, faulted, recover, recent>>

\* Mutant: a process task that is not done is waited for again.
JoinAgain(c) ==
    /\ pc[c] = "join" /\ gate = c
    /\ IF task # 0 /\ proc[task] # "done"
       THEN UNCHANGED vars
       ELSE /\ Advance(c, "dispose")
            /\ UNCHANGED <<fields, stream, proc, faulted, recover, recent>>

\* The process task completes within three seconds, or is cancelled.
Join(c) ==
    /\ pc[c] = "join"
    /\ \/ /\ task # 0 => proc[task] = "done" /\ ~faulted
          /\ UNCHANGED proc
       \/ /\ task # 0 /\ proc[task] # "done"
          /\ proc' = [proc EXCEPT ![task] = IF @ \in {"running", "told"} THEN "killed" ELSE @]
    /\ Advance(c, "dispose")
    /\ UNCHANGED <<fields, stream, faulted, recover, recent>>

\* The completed task rethrows: only a TimeoutException is caught, and the stop ends
\* with the task and the endpoint still set and the crashes still counted.
JoinThrows(c) ==
    /\ pc[c] = "join"
    /\ task # 0 /\ proc[task] = "done" /\ faulted
    /\ Release(c, "ready")
    /\ UNCHANGED <<fields, stream, proc, faulted, recover, recent>>

\* Mutant: the count survives an intentional stop, its window does not.
FinishStopKeepsCount(c) ==
    /\ pc[c] = "dispose"
    /\ task' = 0 /\ endpoint' = 0 /\ faulted' = FALSE /\ window' = "unset"
    /\ Release(c, After(c))
    /\ UNCHANGED <<generation, client, intentional, crashCount, stream, proc, recover, recent>>

\* The registration and the endpoint are disposed and the crash window reset.
FinishStop(c) ==
    /\ pc[c] = "dispose"
    /\ task' = 0 /\ endpoint' = 0 /\ faulted' = FALSE
    /\ crashCount' = 0 /\ window' = "unset"
    /\ recent' = (recent /\ why[c] = "recover")
    /\ Release(c, After(c))
    /\ UNCHANGED <<generation, client, intentional, stream, proc, recover>>

-----------------------------------------------------------------------------
(* The watching task of a process, and the subscriber *)

\* The process ends, by itself or not, or the host's service throws instead of
\* returning its result; the finally block reads _intentionalStop.
ProcessExits(g) ==
    /\ proc[g] \in {"running"} \cup Exiting
    /\ proc' = [proc EXCEPT ![g] = IF intentional THEN "done" ELSE "ended"]
    /\ faulted' \in IF task = g THEN BOOLEAN ELSE {faulted}
    /\ UNCHANGED <<gate, pc, why, fields, stream, recover, recent>>

\* now - _crashWindowStart > CrashWindow, or still inside it.
CountCrash(g) ==
    /\ crashCount' = IF window = "open" THEN crashCount + 1 ELSE 1
    /\ window' = "open"
    /\ recent' = TRUE
    /\ proc' = [proc EXCEPT ![g] = IF crashCount' <= 1 THEN "grant" ELSE "deny"]

\* Mutant: an old process is not told from the current one.
OnProcessEndedAnyGeneration(g) ==
    /\ proc[g] = "ended" /\ gate = "nobody"
    /\ DropClient
    /\ IF intentional
       THEN proc' = [proc EXCEPT ![g] = "done"] /\ UNCHANGED <<crashCount, window, recent>>
       ELSE CountCrash(g)
    /\ UNCHANGED <<gate, pc, why, generation, task, endpoint, intentional, faulted, recover>>

\* Mutant: the dead client stays cached.
OnProcessEndedKeepsClient(g) ==
    /\ proc[g] = "ended" /\ gate = "nobody"
    /\ IF generation # g \/ intentional
       THEN proc' = [proc EXCEPT ![g] = "done"] /\ UNCHANGED <<crashCount, window, recent>>
       ELSE CountCrash(g)
    /\ UNCHANGED <<gate, pc, why, generation, client, task, endpoint, intentional, stream,
                   faulted, recover>>

\* Mutant: _intentionalStop is not read again under the gate.
OnProcessEndedCountsStops(g) ==
    /\ proc[g] = "ended" /\ gate = "nobody"
    /\ IF generation # g
       THEN /\ proc' = [proc EXCEPT ![g] = "done"]
            /\ UNCHANGED <<client, stream, crashCount, window, recent>>
       ELSE DropClient /\ CountCrash(g)
    /\ UNCHANGED <<gate, pc, why, generation, task, endpoint, intentional, faulted, recover>>

\* Mutant: an exit that a stop was asked for keeps the client for the stop.
OnProcessEndedReturnsEarly(g) ==
    /\ proc[g] = "ended" /\ gate = "nobody"
    /\ IF generation # g \/ intentional
       THEN /\ proc' = [proc EXCEPT ![g] = "done"]
            /\ UNCHANGED <<client, stream, crashCount, window, recent>>
       ELSE DropClient /\ CountCrash(g)
    /\ UNCHANGED <<gate, pc, why, generation, task, endpoint, intentional, faulted, recover>>

OnProcessEnded(g) ==
    /\ proc[g] = "ended" /\ gate = "nobody"
    /\ \/ /\ generation # g
          /\ proc' = [proc EXCEPT ![g] = "done"]
          /\ UNCHANGED <<client, stream, crashCount, window, recent>>
       \/ /\ generation = g /\ intentional
          /\ DropClient
          /\ proc' = [proc EXCEPT ![g] = "done"]
          /\ UNCHANGED <<crashCount, window, recent>>
       \/ /\ generation = g /\ ~intentional
          /\ DropClient
          /\ CountCrash(g)
    /\ UNCHANGED <<gate, pc, why, generation, task, endpoint, intentional, faulted, recover>>

\* HelperProcessExited: with WillAutoRestart the subscriber may queue a recovery
\* (it does so when it remembers a room).
RaiseExited(g) ==
    /\ proc[g] \in {"grant", "deny"}
    /\ proc' = [proc EXCEPT ![g] = "done"]
    /\ recover' \in IF proc[g] = "grant" THEN {recover, TRUE} ELSE {recover}
    /\ UNCHANGED <<gate, pc, why, fields, stream, faulted, recent>>

\* CrashWindow has passed since the window was opened.
WindowPasses ==
    /\ window = "open" /\ window' = "past"
    /\ recent' = (recent /\ crashCount > 1)
    /\ UNCHANGED <<gate, pc, why, generation, client, task, endpoint, intentional,
                   crashCount, stream, proc, faulted, recover>>

\* CrashWindow has passed since the last crash, which need not have opened it.
CrashAges ==
    /\ recent /\ window # "open" /\ recent' = FALSE
    /\ UNCHANGED <<gate, pc, why, fields, stream, proc, faulted, recover>>

-----------------------------------------------------------------------------
(* Users of the client, outside the gate *)

\* A call is cancelled between the two writes of its frame.
CutFrame ==
    /\ client # 0 /\ stream = "ok" /\ ~Exited(client)
    /\ stream' = "cut"
    /\ UNCHANGED <<gate, pc, why, fields, proc, faulted, recover, recent>>

\* The host cancels the reader's task: the loop ends and fails no pending call.
ReaderCancelled ==
    /\ client # 0 /\ stream # "deaf"
    /\ stream' = "deaf"
    /\ UNCHANGED <<gate, pc, why, fields, proc, faulted, recover, recent>>

-----------------------------------------------------------------------------
(* Specification *)

Call(c) == EnsureStarted(c) \/ Stop(c) \/ Recover(c)

\* The steps of a call that has the gate.
Proceed(c) == \/ Connect(c) \/ ConnectFails(c) \/ Shutdown(c)
              \/ Join(c) \/ JoinThrows(c) \/ FinishStop(c)

Watch(g) == ProcessExits(g) \/ OnProcessEnded(g) \/ RaiseExited(g)

Next ==
    \/ \E c \in Callers : Call(c) \/ Proceed(c) \/ StopCancelled(c)
    \/ \E g \in Generations : Watch(g)
    \/ WindowPasses \/ CrashAges \/ CutFrame \/ ReaderCancelled

Spec == Init /\ [][Next]_vars

\* Awaits end, except that of a shutdown call without an answer; a process that was
\* told or killed exits; the semaphore serves the watching task in its turn.  A
\* running process need not exit, a call need not come, and nothing says when a
\* window passes.
FairSpec ==
    /\ Spec
    /\ \A c \in Callers : WF_vars((pc[c] = "shutdown" => Answered) /\ Proceed(c))
    /\ \A g \in Generations :
        /\ WF_vars(proc[g] \in Exiting /\ ProcessExits(g))
        /\ SF_vars(OnProcessEnded(g))
        /\ WF_vars(RaiseExited(g))

-----------------------------------------------------------------------------
(* Properties *)

\* Fields have their types; a counted crash has a window; the caller inside the
\* critical section is the holder of the gate, and the only one (lines 18-28).
TypeOK ==
    /\ gate \in Callers \cup {"nobody"}
    /\ pc \in [Callers -> {"ready", "again", "connect", "shutdown", "join", "dispose"}]
    /\ why \in [Callers -> {"none", "start", "stop", "recover", "failed"}]
    /\ \A c \in Callers : pc[c] \in {"ready", "again"} <=> gate # c
    /\ {generation, client, task, endpoint} \subseteq 0..MaxGeneration
    /\ intentional \in BOOLEAN
    /\ crashCount \in 0..MaxGeneration
    /\ window \in {"unset", "open", "past"}
    /\ crashCount = 0 <=> window = "unset"
    /\ stream \in {"ok", "cut", "deaf"}
    /\ proc \in [Generations -> ProcStates] /\ faulted \in BOOLEAN
    /\ recover \in BOOLEAN /\ recent \in BOOLEAN

\* The cached client, the process task and the endpoint that a stop will dispose
\* all belong to the newest process: whoever is handed the client talks to the
\* process whose exit the manager is watching (EnsureStartedAsync, line 58).
ClientIsCurrent == client # 0 => client = generation /\ client = task /\ client = endpoint

\* No helper is left running without an owner: a process that nobody has told to
\* stop is the newest one, and once the gate is free it has a client
\* (docs/release-checklist.md: no residual helper process).
NoOrphan ==
    \A g \in Generations : proc[g] = "running" =>
        g = generation /\ (gate = "nobody" => client = g)

\* A cached client whose helper died is on its way out: unless a stop was asked
\* for, the watching task of that very process is waiting to clear it.
CrashIsNoticed == client # 0 /\ ~intentional => proc[client] \in {"running", "ended"}

\* An exit is counted as a crash only while the process is still owned: a stop
\* that has finished, or a newer start, in between the exit and its bookkeeping
\* makes it an ordinary exit (OnProcessEndedAsync, lines 177-180).
CrashChargedToOwned ==
    [][\A g \in Generations :
        proc[g] = "ended" /\ proc'[g] \in {"grant", "deny"} => task = g /\ endpoint = g]_vars

\* Waiting for the answer to a shutdown that nobody will give.
Stuck(c) == pc[c] = "shutdown" /\ ~Answered

\* A call that holds the gate gives it back, although the watching task may be
\* waiting for the gate while the call waits for the watching task (line 282),
\* unless it is stuck in a shutdown call on a broken stream (line 263).
CallsEnd ==
    \A c \in Callers :
        pc[c] \notin {"ready", "again"} ~> pc[c] \in {"ready", "again"} \/ Stuck(c)

\* The client of a helper that died unasked does not stay cached, also when a stop
\* began and was cancelled between the exit and its bookkeeping: unless a stop is
\* stuck with the gate, nobody is handed the dead client for ever.
CrashDropsClient ==
    \A g \in Generations :
        client = g /\ proc[g] = "ended" ~> client # g \/ \E c \in Callers : Stuck(c)

\* docs/release-checklist.md: two crashes within ten seconds end in Faulted and
\* no restart loop.  The recovery granted for the first crash resets the count
\* (StopCoreAsync, lines 302-306), so the second one is granted a restart too.
NoCrashLoop ==
    [][\A g \in Generations : proc[g] = "ended" /\ proc'[g] = "grant" => ~recent]_vars

=============================================================================

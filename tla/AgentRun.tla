------------------------------ MODULE AgentRun ------------------------------
(***************************************************************************)
(* The row of an agent run and everybody who writes it: the API that       *)
(* creates and cancels runs (agentRun.service.ts), the workers that claim  *)
(* them and take them through the workflow (worker.ts,                     *)
(* langGraphWorkflow.ts), and the callbacks of the commands they start     *)
(* (commandRunner.ts), which nobody waits for.                             *)
(*                                                                         *)
(* updateRunWorkflow reads a row, and then writes ALL of its columns: each *)
(* of its callers is a read and a later write here, and `lost' remembers   *)
(* that one wrote over what somebody else had written in between.          *)
(***************************************************************************)
EXTENDS Integers, FiniteSets, FiniteSetsExt

CONSTANTS
  Runs, Workers,
  DefaultIterations    \* the limit of a run that is claimed without a configuration

ASSUME AgentAssumption == DefaultIterations \in Nat \ {0} /\ "none" \notin Runs

VARIABLES
  row,          \* agent_runs
  creator,      \* the API call that creates each run
  canceller,    \* the API call that cancels each run
  worker,       \* what each worker is doing
  hook,         \* onCommandStart of each worker's latest command
  ended,        \* the commands whose onCommandFinish is still to come
  lost,         \* history: the runs with a lost update
  trial,        \* the runs, workers, cancels, approvals and faults of the behaviour,
                \* maxIterations of the project, and what may be late: see OnTime
  cancels, faults

rowVars == <<row, lost>>
apiVars == <<creator, canceller, cancels>>
workerVars == <<worker, hook, ended>>
runVars == <<row, creator, canceller, worker, hook, ended, lost, trial, cancels, faults>>

Active == {"context_indexing", "planning", "implementing", "testing", "reviewing"}
Cancellable == Active \union {"queued"}
NoPid == <<>>
Absent == [status |-> "absent", pid |-> NoPid, workspace |-> FALSE, config |-> FALSE]
Free == [run |-> "none", step |-> "none", at |-> "idle", read |-> Absent,
         iteration |-> 0, limit |-> 0, coded |-> 0, child |-> 0]
NoHook == [at |-> "none", run |-> "none", pid |-> NoPid, read |-> Absent]

RunInit ==
  /\ row = [r \in Runs |-> Absent]
  /\ creator = [r \in Runs |-> [at |-> "none", read |-> Absent]]
  /\ canceller = [r \in Runs |-> [at |-> "none", pid |-> NoPid]]
  /\ worker = [w \in Workers |-> Free]
  /\ hook = [w \in Workers |-> NoHook]
  /\ ended = {} /\ lost = {} /\ cancels = 0 /\ faults = 0

Fault(kind) ==
  /\ kind \in trial.faults /\ faults < trial.most
  /\ faults' = faults + 1 /\ UNCHANGED trial
NoFault == UNCHANGED <<trial, faults>>
\* Nothing orders the hooks of a command with what its worker does next, nor the
\* end of createRun with the claim of its run.  In a trial where one of them is not
\* late, what comes next waits for it.
OnTime(what, done) == what \in trial.late \/ done

\* The second half of updateRunWorkflow: the whole row, as it was read.
WriteBack(r, read, changed) ==
  /\ row' = [row EXCEPT ![r] = changed]
  /\ lost' = IF row[r] # read THEN lost \union {r} ELSE lost
\* An UPDATE of one column.
SetStatus(r, status) == row' = [row EXCEPT ![r].status = status] /\ UNCHANGED lost
ClearPid(r, pid) ==
  /\ row' = IF row[r].pid = pid THEN [row EXCEPT ![r].pid = NoPid] ELSE row
  /\ UNCHANGED lost

-----------------------------------------------------------------------------
(* The API: createRun and cancelRun. *)

CreateRun(r) ==
  /\ row[r].status = "absent" /\ r \in trial.runs
  /\ row' = [row EXCEPT ![r].status = "queued"]
  /\ creator' = [creator EXCEPT ![r].at = "inserted"]
  /\ UNCHANGED <<lost, canceller, cancels>> /\ UNCHANGED workerVars /\ NoFault
ReadForConfig(r) ==
  /\ creator[r].at = "inserted"
  /\ creator' = [creator EXCEPT ![r] = [at |-> "write", read |-> row[r]]]
  /\ UNCHANGED <<canceller, cancels>> /\ UNCHANGED rowVars /\ UNCHANGED workerVars /\ NoFault
WriteConfig(r) ==
  /\ creator[r].at = "write"
  /\ WriteBack(r, creator[r].read, [creator[r].read EXCEPT !.config = TRUE])
  /\ creator' = [creator EXCEPT ![r] = [at |-> "done", read |-> Absent]]
  /\ UNCHANGED <<canceller, cancels>> /\ UNCHANGED workerVars /\ NoFault

ReadForCancel(r) ==
  /\ cancels < trial.cancels /\ canceller[r].at = "none" /\ row[r].status # "absent"
  /\ canceller' = [canceller EXCEPT ![r] =
       [at |-> IF row[r].pid = NoPid THEN "update" ELSE "kill", pid |-> row[r].pid]]
  /\ cancels' = cancels + 1
  /\ UNCHANGED creator /\ UNCHANGED rowVars /\ UNCHANGED workerVars /\ NoFault

Running(w) == worker[w].at = "running"
\* Commands are numbered anew for each run a worker claims, and Pids is more than
\* the workflow of a run has.
Pids == 8
Child(w) == <<w, worker[w].child>>

\* A command that has ended by itself is not an error.
KillProcess(r) ==
  /\ canceller[r].at = "kill"
  /\ worker' = [w \in Workers |->
       IF Running(w) /\ Child(w) = canceller[r].pid
         THEN [worker[w] EXCEPT !.at = "killed"] ELSE worker[w]]
  /\ ClearPid(r, canceller[r].pid)
  /\ canceller' = [canceller EXCEPT ![r] = [at |-> "update", pid |-> NoPid]]
  /\ UNCHANGED <<creator, cancels, hook, ended>> /\ NoFault
\* Anything else is answered with "Only queued or active runs can be cancelled".
CancelRun(r) ==
  /\ canceller[r].at = "update"
  /\ IF row[r].status \in Cancellable THEN SetStatus(r, "cancelled") ELSE UNCHANGED rowVars
  /\ canceller' = [canceller EXCEPT ![r] = [at |-> "none", pid |-> NoPid]]
  /\ UNCHANGED <<creator, cancels>> /\ UNCHANGED workerVars /\ NoFault

-----------------------------------------------------------------------------
(* A worker and the nodes of the workflow.  Each node begins with          *)
(* updateRunWorkflow (at "read", then "write"), and all but the first run   *)
(* the command of a provider.                                              *)

Step(w, step, at) == [worker[w] EXCEPT !.step = step, !.at = at, !.read = Absent]
Moves(w, next) == worker' = [worker EXCEPT ![w] = next]
SameApi == UNCHANGED apiVars
SameCommands == UNCHANGED <<hook, ended>>

\* Fault: a run is claimed although another worker has just claimed it.
ClaimWithoutLock(w) ==
  /\ worker[w].at = "idle" /\ w \in trial.workers /\ OnTime("finish", \A end \in ended : end.pid[1] # w)
  /\ \E r \in Runs :
       /\ row[r].status \in {"queued", "context_indexing"}
       /\ SetStatus(r, "context_indexing")
       /\ Moves(w, [Free EXCEPT !.run = r, !.step = "context_indexing", !.at = "index", !.iteration = 1,
                     !.limit = IF row[r].config THEN trial.maxIterations ELSE DefaultIterations])
  /\ SameApi /\ SameCommands /\ NoFault
\* The oldest queued run is one of them: created_at is not modelled.
ClaimNextRun(w) ==
  /\ worker[w].at = "idle" /\ w \in trial.workers /\ OnTime("finish", \A end \in ended : end.pid[1] # w)
  /\ \E r \in Runs :
       /\ row[r].status = "queued" /\ OnTime("create", creator[r].at = "done")
       /\ SetStatus(r, "context_indexing")
       /\ Moves(w, [Free EXCEPT !.run = r, !.step = "context_indexing", !.at = "index", !.iteration = 1,
                     !.limit = IF row[r].config THEN trial.maxIterations ELSE DefaultIterations])
  /\ SameApi /\ SameCommands /\ NoFault

ReadRow(w) ==
  /\ worker[w].at = "read" /\ OnTime("finish", \A end \in ended : end.pid[1] # w)
  /\ Moves(w, [worker[w] EXCEPT !.at = "write", !.read = row[worker[w].run]])
  /\ UNCHANGED rowVars /\ SameApi /\ SameCommands /\ NoFault

\* What the node writes: its status, and the workspace for the first of them.
WriteRow(w) ==
  /\ worker[w].at = "write"
  /\ WriteBack(worker[w].run, worker[w].read,
       [worker[w].read EXCEPT !.status = worker[w].step, !.workspace = @ \/ worker[w].step = "context_indexing"])
  /\ Moves(w, CASE worker[w].step = "context_indexing" -> Step(w, "planning", "read")
                [] worker[w].step = "waiting_approval" -> Free
                [] OTHER -> [worker[w] EXCEPT !.at = "spawn", !.read = Absent])
  /\ SameApi /\ SameCommands /\ NoFault

\* The command starts, and its hook is called but not awaited.  One hook of a
\* worker is under way at a time.
Spawn(w) ==
  /\ worker[w].at = "spawn" /\ hook[w].at = "none"
  /\ LET child == 1 + (worker[w].child % Pids)
     IN  /\ Moves(w, [worker[w] EXCEPT !.at = "running", !.child = child])
         /\ hook' = [hook EXCEPT ![w] =
                      [at |-> "read", run |-> worker[w].run, pid |-> <<w, child>>, read |-> Absent]]
  /\ UNCHANGED <<row, lost, ended>> /\ SameApi /\ NoFault

HookReads(w) ==
  /\ hook[w].at = "read"
  /\ hook' = [hook EXCEPT ![w].at = "write", ![w].read = row[hook[w].run]]
  /\ UNCHANGED <<worker, ended>> /\ UNCHANGED rowVars /\ SameApi /\ NoFault
HookWrites(w) ==
  /\ hook[w].at = "write"
  /\ WriteBack(hook[w].run, hook[w].read, [hook[w].read EXCEPT !.pid = hook[w].pid])
  /\ hook' = [hook EXCEPT ![w] = NoHook]
  /\ UNCHANGED <<worker, ended>> /\ SameApi /\ NoFault
FinishHook(end) ==
  /\ end \in ended
  /\ ClearPid(end.run, end.pid)
  /\ ended' = ended \ {end}
  /\ UNCHANGED <<worker, hook>> /\ SameApi /\ NoFault
Finished(w) == ended' = ended \union {[run |-> worker[w].run, pid |-> Child(w)]}

\* Fault: the counter of the rounds stays as it is when a reviewer wants changes.
SameIteration(w, pass) ==
  IF pass \/ worker[w].step = "reviewing" THEN worker[w].iteration ELSE worker[w].iteration + 1
NextIteration(w, pass) == IF pass THEN worker[w].iteration ELSE worker[w].iteration + 1

\* routeTester, routeReviewer: back to the coder, or on.
Route(w, pass) ==
  IF pass \/ NextIteration(w, pass) >= worker[w].limit THEN "on" ELSE "back"

\* What each node leaves to the next one.
Planned(w) == Step(w, "implementing", "read")
Implemented(w) == [Step(w, "testing", "read") EXCEPT !.coded = Min({@ + 1, worker[w].limit + 1})]
Tested(w, pass) ==
  [Step(w, IF Route(w, pass) = "on" THEN "reviewing" ELSE "implementing", "read")
     EXCEPT !.iteration = NextIteration(w, pass)]
Reviewed(w, pass) ==
  [IF Route(w, pass) = "on" THEN Step(w, "waiting_approval", "check") ELSE Step(w, "implementing", "read")
     EXCEPT !.iteration = NextIteration(w, pass)]
After(w, pass) ==
  CASE worker[w].step = "planning" -> Planned(w)
    [] worker[w].step = "implementing" -> Implemented(w)
    [] worker[w].step = "testing" -> Tested(w, pass)
    [] worker[w].step = "reviewing" -> Reviewed(w, pass)

\* The provider's answer; only a tester and a reviewer decide anything.
CommandEnds(w, pass) ==
  /\ Running(w) /\ OnTime("start", hook[w].at = "none")
  /\ ~pass => worker[w].step \in {"testing", "reviewing"}
  /\ Moves(w, After(w, pass)) /\ Finished(w)
  /\ UNCHANGED hook /\ UNCHANGED rowVars /\ SameApi /\ NoFault

\* A command that cancelRun has killed fails its step, and invoke throws.  The
\* loop logs that, and goes on to the next run: the row keeps its status.
CommandKilled(w) ==
  /\ worker[w].at = "killed" /\ OnTime("start", hook[w].at = "none")
  /\ Moves(w, Free) /\ Finished(w)
  /\ UNCHANGED hook /\ UNCHANGED rowVars /\ SameApi /\ NoFault
\* Fault: the exit code is not looked at.
CommandFailsQuietly(w) ==
  /\ Running(w) /\ Fault("command")
  /\ Moves(w, After(w, TRUE)) /\ Finished(w)
  /\ UNCHANGED hook /\ UNCHANGED rowVars /\ SameApi
\* And so does a command that fails or takes too long.
CommandFails(w) ==
  /\ Running(w) /\ Fault("command")
  /\ Moves(w, Free) /\ Finished(w)
  /\ UNCHANGED hook /\ UNCHANGED rowVars /\ SameApi
\* And a node whose workspace cannot be made or whose provider is not available.
StepFails(w) ==
  /\ worker[w].at \in {"index", "spawn"} /\ Fault("command")
  /\ Moves(w, Free)
  /\ SameCommands /\ UNCHANGED rowVars /\ SameApi

\* The workflow has ended; a run that has been cancelled meanwhile is left alone.
AskForApproval(w) ==
  /\ worker[w].at = "check" /\ OnTime("finish", \A end \in ended : end.pid[1] # w)
  /\ Moves(w, IF row[worker[w].run].status \in {"reviewing", "implementing"}
                THEN [worker[w] EXCEPT !.at = "read"] ELSE Free)
  /\ UNCHANGED rowVars /\ SameApi /\ SameCommands /\ NoFault

\* A crash, or a SIGTERM: the run is left as it is, and nobody claims it again.
WorkerCrash(w) ==
  /\ worker[w].at # "idle" /\ Fault("crash")
  /\ Moves(w, Free)
  /\ hook' = [hook EXCEPT ![w] = NoHook]
  /\ ended' = {end \in ended : end.pid[1] # w}
  /\ UNCHANGED rowVars /\ SameApi

-----------------------------------------------------------------------------

ApiStep ==
  \E r \in Runs :
    CreateRun(r) \/ ReadForConfig(r) \/ WriteConfig(r)
    \/ ReadForCancel(r) \/ KillProcess(r) \/ CancelRun(r)
\* The steps of a worker that leave the workspaces alone.
WorkerStep ==
  \/ \E w \in Workers :
       ClaimNextRun(w) \/ ReadRow(w) \/ WriteRow(w) \/ Spawn(w) \/ HookReads(w) \/ HookWrites(w)
       \/ CommandKilled(w) \/ CommandFails(w) \/ StepFails(w) \/ AskForApproval(w) \/ WorkerCrash(w)
  \/ \E end \in ended : FinishHook(end)
=============================================================================

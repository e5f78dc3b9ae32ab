------------------------ MODULE AgentApprovalProofs ------------------------
(***************************************************************************)
(* Theorems about the runs of the agent service, for any number of runs,   *)
(* workers, cancellations, approvals and faults: who holds a run, what has *)
(* been reviewed when it waits for its approval, and what approvals that   *)
(* race each other leave in the repository.                                *)
(***************************************************************************)
EXTENDS AgentApproval, FiniteSetTheorems, TLAPS

-----------------------------------------------------------------------------
(* The types, and what a worker carries from node to node. *)

Statuses == {"absent", "queued", "waiting_approval", "succeeded", "cancelled"} \cup Active
Commands == Workers \X Nat
RowRecord ==
  [status : Statuses, pid : {NoPid} \cup Commands, workspace : BOOLEAN, config : BOOLEAN]
BusyRecord ==
  [run : Runs, step : Active \cup {"waiting_approval"},
   at : {"index", "read", "write", "spawn", "running", "killed", "check"}, read : RowRecord,
   iteration : Nat, limit : Nat \ {0}, coded : Nat, child : Nat]
HookRecord == [at : {"read", "write"}, run : Runs, pid : Commands, read : RowRecord]
CallRecord ==
  [at : {"compare", "apply", "record", "succeed"}, run : Runs, adds : SUBSET Runs, drops : SUBSET Runs]
IdleRecord == [at : {"none", "done"}, run : {"none"}, adds : {{}}, drops : {{}}]

\* Each node at its own step: only four of them run a command.
AtItsStep(x) ==
  /\ x.at \in {"spawn", "running", "killed"} => x.step \in {"planning", "implementing", "testing", "reviewing"}
  /\ x.at = "index" => x.step = "context_indexing"
  /\ x.at = "check" => x.step = "waiting_approval"

\* The coder has run once for each round that has begun, and the next round begins
\* only below the limit.
InItsRounds(x) ==
  /\ x.step \in {"context_indexing", "planning"} => x.coded = 0 /\ x.iteration = 1
  /\ x.step = "implementing" => x.coded < x.iteration /\ (x.coded = 0 \/ x.iteration < x.limit)
  /\ x.step \in {"testing", "reviewing", "waiting_approval"} =>
       x.coded <= x.iteration /\ (x.coded <= 1 \/ x.coded < x.limit)

WorkerRecord == {Free} \cup {x \in BusyRecord : AtItsStep(x) /\ InItsRounds(x)}

RowTypes == row \in [Runs -> RowRecord] /\ lost \subseteq Runs
ApiTypes ==
  /\ creator \in [Runs -> [at : {"none", "inserted", "write", "done"}, read : RowRecord]]
  /\ canceller \in [Runs -> [at : {"none", "update", "kill"}, pid : {NoPid} \cup Commands]]
CommandTypes ==
  /\ hook \in [Workers -> {NoHook} \cup HookRecord]
  /\ ended \subseteq [run : Runs, pid : Commands]
WorkerTypes == worker \in [Workers -> WorkerRecord]
TreeTypes ==
  /\ repo \subseteq Runs /\ files \in [Runs -> SUBSET Runs]
  /\ unreviewed \subseteq Runs /\ repeated \subseteq Runs
  /\ approvals \in [Runs -> Nat] /\ undone \subseteq Approvers \X Runs
CallTypes == approver \in [Approvers -> CallRecord \cup IdleRecord]
Types ==
  /\ RowTypes /\ ApiTypes /\ CommandTypes /\ WorkerTypes /\ TreeTypes
  /\ CallTypes /\ trial \in Trials

(* Who holds a run. *)
Holds(w, r) == worker[w].run = r
Approving(a, r) == approver[a].at \in {"compare", "apply", "record", "succeed"} /\ approver[a].run = r

\* A run that nobody has written over: a worker has it only while its row says so,
\* and is the only one; what is up for approval is out of every worker's hands and
\* has been reviewed; and a run has succeeded once its approval is on record.
HeldRightly(r) ==
  /\ \A w \in Workers : Holds(w, r) => row[r].status \in Active \cup {"cancelled"}
  /\ \A v, w \in Workers : Holds(v, r) /\ Holds(w, r) => v = w
  /\ \A a \in Approvers : Approving(a, r) => row[r].status \in {"waiting_approval", "succeeded"}
  /\ row[r].status = "waiting_approval" => r \notin unreviewed
  /\ \A w \in Workers : Holds(w, r) /\ worker[w].step = "waiting_approval" => r \notin unreviewed
  /\ approvals[r] > 0 => row[r].status \in {"waiting_approval", "succeeded"}
  /\ row[r].status = "succeeded" => approvals[r] > 0
  /\ \A a \in Approvers : approver[a].at = "succeed" /\ approver[a].run = r => approvals[r] > 0

RunInv == (\A r \in Runs \ lost : HeldRightly(r)) /\ repeated \subseteq lost
AgentInv == Types /\ RunInv

\* None of what stands for "no run" is a run.
LEMMA NoRun == Free.run \notin Runs /\ Free \notin BusyRecord /\ NoHook \notin HookRecord
BY AgentAssumption DEF Free, BusyRecord, NoHook, HookRecord

LEMMA Rows == Absent \in RowRecord
BY DEF Absent, RowRecord, Statuses

LEMMA WorkerRecords ==
  ASSUME WorkerTypes, NEW w \in Workers, worker[w].at # "idle"
  PROVE  worker[w] \in BusyRecord /\ AtItsStep(worker[w]) /\ InItsRounds(worker[w])
<1>1. worker[w] \in WorkerRecord /\ worker[w] # Free
  BY DEF WorkerTypes, Free
<1> QED BY <1>1 DEF WorkerRecord

LEMMA Holders ==
  ASSUME WorkerTypes, NEW w \in Workers, NEW r \in Runs, Holds(w, r)
  PROVE  worker[w] \in BusyRecord /\ AtItsStep(worker[w]) /\ InItsRounds(worker[w])
BY NoRun DEF WorkerTypes, WorkerRecord, Holds

LEMMA AgentStarts == Init => AgentInv
<1> SUFFICES ASSUME Init PROVE AgentInv
  OBVIOUS
<1>1. RowTypes /\ WorkerTypes /\ TreeTypes /\ trial \in Trials
  BY Rows DEF Init, RunInit, RowTypes, WorkerTypes, WorkerRecord, TreeTypes
<1>2. ApiTypes /\ CommandTypes /\ CallTypes
  BY Rows DEF Init, RunInit, ApiTypes, CommandTypes, CallTypes, IdleRecord, Nobody
<1>3. RunInv
  BY NoRun DEF Init, RunInit, RunInv, HeldRightly, Holds, Approving, Nobody, Absent, Free
<1> QED BY <1>1, <1>2, <1>3 DEF AgentInv, Types

-----------------------------------------------------------------------------
(* The rows. *)

LEMMA Wrote ==
  ASSUME RowTypes, NEW r \in Runs, NEW read, NEW changed \in RowRecord, WriteBack(r, read, changed)
  PROVE  /\ RowTypes' /\ lost \subseteq lost'
         /\ \A q \in Runs : q # r => row'[q] = row[q]
         /\ r \notin lost' => row[r] = read /\ row'[r] = changed
BY DEF WriteBack, RowTypes

LEMMA StatusSet ==
  ASSUME RowTypes, NEW r \in Runs, NEW status \in Statuses, SetStatus(r, status)
  PROVE  /\ RowTypes' /\ lost' = lost
         /\ \A q \in Runs : row'[q].status = IF q = r THEN status ELSE row[q].status
<1>1. row[r] \in RowRecord /\ row' = [row EXCEPT ![r].status = status] /\ lost' = lost
  BY DEF RowTypes, SetStatus
<1>2. \A q \in Runs : row[q] \in RowRecord
  BY DEF RowTypes
<1> QED BY <1>1, <1>2 DEF RowTypes, RowRecord

LEMMA PidCleared ==
  ASSUME RowTypes, NEW r \in Runs, NEW pid, ClearPid(r, pid)
  PROVE  /\ RowTypes' /\ lost' = lost
         /\ \A q \in Runs : row'[q].status = row[q].status
<1>1. \A q \in Runs : row[q] \in RowRecord
  BY DEF RowTypes
<1>2. lost' = lost /\ row' = IF row[r].pid = pid THEN [row EXCEPT ![r].pid = NoPid] ELSE row
  BY DEF ClearPid
<1> QED BY <1>1, <1>2 DEF RowTypes, RowRecord

\* A step that gives no run away and leaves the status of every run as it is, of those
\* nobody has written over.
LEMMA QuietStep ==
  ASSUME RunInv, RowTypes, WorkerTypes, lost \subseteq lost', lost' \subseteq Runs,
         repeated' \subseteq lost',
         \A r \in Runs \ lost' : row'[r].status = row[r].status,
         \A w \in Workers : \A r \in Runs \ lost' :
           worker'[w].run = r => Holds(w, r)
             /\ (worker'[w].step = "waiting_approval" => worker[w].step = "waiting_approval"),
         UNCHANGED <<approver, approvals, unreviewed>>
  PROVE  RunInv'
<1> SUFFICES ASSUME NEW r \in Runs, r \notin lost' PROVE HeldRightly(r)'
  BY DEF RunInv
<1>1. HeldRightly(r) /\ row'[r].status = row[r].status
  BY DEF RunInv
<1>2. \A w \in Workers : Holds(w, r)' => Holds(w, r)
             /\ (worker'[w].step = "waiting_approval" => worker[w].step = "waiting_approval")
  BY DEF Holds
<1> QED BY <1>1, <1>2 DEF HeldRightly, Approving

\* Two workers share a run only if it has been written over.
LEMMA SharedIsLost ==
  ASSUME NEW at, NEW gone,
         \A r \in Runs \ gone : \A v, w \in Workers : at[v].run = r /\ at[w].run = r => v = w
  PROVE  Shared(at) \subseteq gone
<1> SUFFICES ASSUME NEW r \in Runs, r \notin gone, Cardinality({w \in Workers : at[w].run = r}) > 1
             PROVE  FALSE
  BY DEF Shared
<1> DEFINE S == {w \in Workers : at[w].run = r}
<1>1. CASE S = {}
  BY <1>1, FS_EmptySet
<1>2. CASE S # {}
  <2>1. PICK w \in S : TRUE
    BY <1>2
  <2>2. S = {w}
    BY <2>1
  <2>3. Cardinality(S) > 1 /\ Cardinality({w}) = 1
    BY FS_Singleton
  <2> HIDE DEF S
  <2> QED BY <2>2, <2>3
<1> QED BY <1>1, <1>2

-----------------------------------------------------------------------------
(* The API. *)

LEMMA ApiReads ==
  ASSUME AgentInv, NEW r \in Runs, ReadForConfig(r) \/ ReadForCancel(r), SameTrees, UNCHANGED repeated
  PROVE  AgentInv'
<1>1. /\ RowTypes /\ ApiTypes /\ row[r] \in RowRecord /\ RunInv
      /\ UNCHANGED <<row, lost, worker, hook, ended, trial, repo, files, unreviewed, repeated,
                     approver, approvals, undone>>
  BY DEF ReadForConfig, ReadForCancel, SameTrees, rowVars, workerVars, treeVars, approvalVars, NoFault,
         AgentInv, Types, RowTypes
<1>2. ApiTypes'
  <2>1. CASE ReadForConfig(r)
    BY <1>1, <2>1 DEF ReadForConfig, ApiTypes
  <2>2. CASE ReadForCancel(r)
    BY <1>1, <2>2 DEF ReadForCancel, ApiTypes, RowRecord
  <2> QED BY <2>1, <2>2
<1>3. Types'
  BY <1>1, <1>2 DEF AgentInv, Types, RowTypes, WorkerTypes, CommandTypes, TreeTypes, CallTypes
<1>4. RunInv'
  BY <1>1 DEF RunInv, HeldRightly, Holds, Approving
<1> QED BY <1>3, <1>4 DEF AgentInv

LEMMA RunCreated ==
  ASSUME AgentInv, NEW r \in Runs, CreateRun(r), SameTrees, UNCHANGED repeated
  PROVE  AgentInv'
<1>1. /\ row' = [row EXCEPT ![r].status = "queued"] /\ row[r].status = "absent"
      /\ creator' = [creator EXCEPT ![r].at = "inserted"]
      /\ UNCHANGED <<lost, canceller, worker, hook, ended, trial, repo, files, unreviewed, repeated,
                     approver, approvals, undone>>
      /\ RowTypes /\ RunInv
  BY DEF CreateRun, SameTrees, workerVars, treeVars, approvalVars, NoFault, AgentInv, Types
<1>2. /\ RowTypes'
      /\ \A q \in Runs : row'[q].status = IF q = r THEN "queued" ELSE row[q].status
  BY <1>1, StatusSet DEF SetStatus, Statuses
<1>3. Types'
  BY <1>1, <1>2 DEF AgentInv, Types, ApiTypes, WorkerTypes, CommandTypes, TreeTypes, CallTypes
<1>4. ASSUME NEW q \in Runs, q \notin lost PROVE HeldRightly(q)'
  <2>1. HeldRightly(q) /\ "absent" \notin Active
    BY <1>1, <1>4 DEF RunInv, Active
  <2>2. CASE q = r
    BY <1>1, <1>2, <2>1, <2>2 DEF HeldRightly, Holds, Approving
  <2>3. CASE q # r
    BY <1>1, <1>2, <2>1, <2>3 DEF HeldRightly, Holds, Approving
  <2> QED BY <2>2, <2>3
<1>5. RunInv'
  BY <1>1, <1>4 DEF RunInv
<1> QED BY <1>3, <1>5 DEF AgentInv

\* The write of the configuration puts back the row as it was read.
LEMMA ConfigWritten ==
  ASSUME AgentInv, NEW r \in Runs, WriteConfig(r), SameTrees, UNCHANGED repeated
  PROVE  AgentInv'
<1> DEFINE read == creator[r].read  changed == [read EXCEPT !.config = TRUE]
<1>1. /\ WriteBack(r, read, changed) /\ read \in RowRecord
      /\ creator' = [creator EXCEPT ![r] = [at |-> "done", read |-> Absent]]
      /\ UNCHANGED <<canceller, worker, hook, ended, trial, repo, files, unreviewed, repeated,
                     approver, approvals, undone>>
      /\ RowTypes /\ RunInv /\ repeated \subseteq lost
  BY DEF WriteConfig, SameTrees, workerVars, treeVars, approvalVars, NoFault, AgentInv, Types, ApiTypes, RunInv
<1>2. changed \in RowRecord /\ changed.status = read.status
  BY <1>1 DEF RowRecord
<1> HIDE DEF read, changed
<1>3. /\ RowTypes' /\ lost \subseteq lost' /\ \A q \in Runs : q # r => row'[q] = row[q]
      /\ r \notin lost' => row[r] = read /\ row'[r] = changed
  BY <1>1, <1>2, Wrote
<1>4. \A q \in Runs \ lost' : row'[q].status = row[q].status
  BY <1>2, <1>3
<1>5. Types'
  BY <1>1, <1>3, Rows DEF AgentInv, Types, ApiTypes, WorkerTypes, CommandTypes, TreeTypes, CallTypes
<1>6. RunInv'
  BY <1>1, <1>3, <1>4, <1>5, QuietStep DEF AgentInv, Types, RowTypes, Holds, Approving
<1> QED BY <1>5, <1>6 DEF AgentInv

LEMMA ProcessKilled ==
  ASSUME AgentInv, NEW r \in Runs, KillProcess(r), SameTrees, UNCHANGED repeated
  PROVE  AgentInv'
<1>1. /\ worker' = [w \in Workers |->
           IF Running(w) /\ Child(w) = canceller[r].pid THEN [worker[w] EXCEPT !.at = "killed"] ELSE worker[w]]
      /\ ClearPid(r, canceller[r].pid)
      /\ canceller' = [canceller EXCEPT ![r] = [at |-> "update", pid |-> NoPid]]
      /\ UNCHANGED <<creator, hook, ended, trial, repo, files, unreviewed, repeated,
                     approver, approvals, undone>>
      /\ RowTypes /\ RunInv /\ WorkerTypes
  BY DEF KillProcess, SameTrees, treeVars, approvalVars, NoFault, AgentInv, Types
<1>2. RowTypes' /\ lost' = lost /\ \A q \in Runs : row'[q].status = row[q].status
  BY <1>1, PidCleared
<1>3. ASSUME NEW w \in Workers
      PROVE  worker'[w] \in WorkerRecord /\ worker'[w].run = worker[w].run /\ worker'[w].step = worker[w].step
  <2>1. CASE Running(w) /\ Child(w) = canceller[r].pid
    <3>1. worker[w] \in BusyRecord /\ AtItsStep(worker[w]) /\ InItsRounds(worker[w]) /\ worker[w].at = "running"
      BY <1>1, <2>1, WorkerRecords DEF Running
    <3> DEFINE x == [worker[w] EXCEPT !.at = "killed"]
    <3>2. x \in BusyRecord /\ AtItsStep(x) /\ InItsRounds(x) /\ x.run = worker[w].run /\ x.step = worker[w].step
      BY <3>1 DEF BusyRecord, AtItsStep, InItsRounds
    <3>3. worker'[w] = x
      BY <1>1, <2>1
    <3> QED BY <3>2, <3>3 DEF WorkerRecord
  <2>2. CASE ~(Running(w) /\ Child(w) = canceller[r].pid)
    BY <1>1, <2>2 DEF WorkerTypes
  <2> QED BY <2>1, <2>2
<1>4. WorkerTypes'
  BY <1>1, <1>3 DEF WorkerTypes
<1>5. Types'
  BY <1>1, <1>2, <1>4 DEF AgentInv, Types, ApiTypes, CommandTypes, TreeTypes, CallTypes
<1>6. RunInv'
  BY <1>1, <1>2, <1>3, QuietStep DEF RowTypes, Holds, Approving, RunInv
<1> QED BY <1>5, <1>6 DEF AgentInv

\* Only a run that is queued or at work can be cancelled.
LEMMA RunCancelled ==
  ASSUME AgentInv, NEW r \in Runs, CancelRun(r), SameTrees, UNCHANGED repeated
  PROVE  AgentInv'
<1>1. /\ canceller' = [canceller EXCEPT ![r] = [at |-> "none", pid |-> NoPid]]
      /\ UNCHANGED <<creator, worker, hook, ended, trial, repo, files, unreviewed, repeated,
                     approver, approvals, undone>>
      /\ RowTypes /\ RunInv
  BY DEF CancelRun, SameTrees, workerVars, treeVars, approvalVars, NoFault, AgentInv, Types
<1>2. /\ RowTypes' /\ lost' = lost
      /\ \A q \in Runs : row'[q].status = row[q].status
           \/ (row[q].status \in Cancellable /\ row'[q].status = "cancelled")
  BY <1>1, StatusSet DEF CancelRun, rowVars, Statuses, RowTypes
<1>3. Types'
  BY <1>1, <1>2 DEF AgentInv, Types, ApiTypes, WorkerTypes, CommandTypes, TreeTypes, CallTypes
<1>4. ASSUME NEW q \in Runs, q \notin lost PROVE HeldRightly(q)'
  <2>1. HeldRightly(q) /\ "waiting_approval" \notin Cancellable /\ "succeeded" \notin Cancellable
    BY <1>4, <1>1 DEF RunInv, Cancellable, Active
  <2> QED BY <1>1, <1>2, <2>1 DEF HeldRightly, Holds, Approving
<1>5. RunInv'
  BY <1>1, <1>2, <1>4 DEF RunInv
<1> QED BY <1>3, <1>5 DEF AgentInv

LEMMA ApiSteps ==
  ASSUME AgentInv, ApiStep, SameTrees, UNCHANGED repeated
  PROVE  AgentInv'
BY ApiReads, RunCreated, ConfigWritten, ProcessKilled, RunCancelled DEF ApiStep

-----------------------------------------------------------------------------
(* The workers. *)

\* What the steps of a worker leave to be shown: the types of what it changes, and
\* whether a run that nobody has written over stays in the right hands.
LEMMA WorkKeeps ==
  ASSUME AgentInv, RowTypes', lost \subseteq lost', WorkerTypes', CommandTypes',
         SameApi, SameTrees, Repeats, UNCHANGED trial,
         \A r \in Runs \ lost' : HeldRightly(r)'
  PROVE  AgentInv'
<1>1. Shared(worker') \subseteq lost'
  <2>1. \A r \in Runs \ lost' : \A v, w \in Workers : worker'[v].run = r /\ worker'[w].run = r => v = w
    BY DEF HeldRightly, Holds
  <2> QED BY <2>1, SharedIsLost
<1>2. repeated' \subseteq lost' /\ repeated' \subseteq Runs
  BY <1>1 DEF Repeats, AgentInv, RunInv, Types, TreeTypes, Shared
<1>3. Types'
  BY <1>2 DEF AgentInv, Types, ApiTypes, TreeTypes, CallTypes, SameApi, apiVars, SameTrees, treeVars, approvalVars
<1> QED BY <1>2, <1>3 DEF AgentInv, RunInv

LEMMA QuietWork ==
  ASSUME AgentInv, RowTypes', lost \subseteq lost', WorkerTypes', CommandTypes',
         SameApi, SameTrees, Repeats, UNCHANGED trial,
         \A r \in Runs \ lost' : row'[r].status = row[r].status,
         \A w \in Workers : worker'[w].run \in Runs =>
           /\ worker'[w].run = worker[w].run
           /\ worker'[w].step = "waiting_approval" => worker[w].step = "waiting_approval"
  PROVE  AgentInv'
<1>1. ASSUME NEW r \in Runs, r \notin lost' PROVE HeldRightly(r)'
  <2>1. /\ HeldRightly(r) /\ row'[r].status = row[r].status
        /\ UNCHANGED <<unreviewed, approver, approvals>>
    BY <1>1 DEF AgentInv, RunInv, SameTrees, treeVars, approvalVars
  <2>2. \A w \in Workers : Holds(w, r)' => Holds(w, r)
             /\ (worker'[w].step = "waiting_approval" => worker[w].step = "waiting_approval")
    BY DEF Holds
  <2> QED BY <2>1, <2>2 DEF HeldRightly, Approving
<1> QED BY <1>1, WorkKeeps

LEMMA Moved ==
  ASSUME WorkerTypes, NEW w \in Workers, NEW x \in WorkerRecord, Moves(w, x)
  PROVE  /\ WorkerTypes' /\ worker'[w] = x
         /\ \A v \in Workers : v # w => worker'[v] = worker[v]
BY DEF Moves, WorkerTypes

\* A worker that drops its run, or goes on with it.
LEMMA QuietMove ==
  ASSUME AgentInv, NEW w \in Workers, NEW x \in WorkerRecord, Moves(w, x),
         x.run \in Runs => x.run = worker[w].run
           /\ (x.step = "waiting_approval" => worker[w].step = "waiting_approval"),
         CommandTypes', UNCHANGED <<row, lost, trial>>, SameApi, SameTrees, Repeats
  PROVE  AgentInv'
<1>1. /\ WorkerTypes' /\ worker'[w] = x
      /\ \A v \in Workers : v # w => worker'[v] = worker[v]
  BY Moved DEF AgentInv, Types
<1>2. RowTypes'
  BY DEF AgentInv, Types, RowTypes
<1> QED BY <1>1, <1>2, QuietWork

\* The ends of a command, of a step and of a worker.
LEMMA RunDropped ==
  ASSUME AgentInv, NEW w \in Workers,
         CommandKilled(w) \/ CommandFails(w) \/ StepFails(w) \/ WorkerCrash(w), SameTrees, Repeats
  PROVE  AgentInv'
<1>1. /\ Moves(w, Free) /\ SameApi /\ UNCHANGED <<row, lost, trial>>
      /\ Free \in WorkerRecord /\ Free.run \notin Runs /\ CommandTypes /\ WorkerTypes
  BY NoRun DEF CommandKilled, CommandFails, StepFails, WorkerCrash, rowVars, Fault, NoFault, WorkerRecord,
     AgentInv, Types
<1>2. CommandTypes'
  <2>1. CASE CommandKilled(w) \/ CommandFails(w)
    <3>1. worker[w].run \in Runs /\ worker[w].child \in Nat
      BY <1>1, <2>1, WorkerRecords DEF CommandKilled, CommandFails, Running, BusyRecord
    <3> QED BY <1>1, <2>1, <3>1
            DEF CommandKilled, CommandFails, CommandTypes, Finished, Child, Commands
  <2>2. CASE StepFails(w) \/ WorkerCrash(w)
    BY <1>1, <2>2 DEF StepFails, WorkerCrash, CommandTypes, SameCommands
  <2> QED BY <2>1, <2>2
<1> QED BY <1>1, <1>2, QuietMove

LEMMA RowRead ==
  ASSUME AgentInv, NEW w \in Workers, ReadRow(w) \/ AskForApproval(w), SameTrees, Repeats
  PROVE  AgentInv'
<1>1. /\ worker[w] \in BusyRecord /\ AtItsStep(worker[w]) /\ InItsRounds(worker[w])
      /\ UNCHANGED <<row, lost, trial, hook, ended>> /\ SameApi /\ CommandTypes'
  BY WorkerRecords DEF ReadRow, AskForApproval, AgentInv, Types, rowVars, SameCommands, NoFault, CommandTypes
<1>2. row[worker[w].run] \in RowRecord
  BY <1>1 DEF AgentInv, Types, RowTypes, BusyRecord
<1>3. CASE ReadRow(w)
  <2> DEFINE x == [worker[w] EXCEPT !.at = "write", !.read = row[worker[w].run]]
  <2>1. x \in BusyRecord /\ AtItsStep(x) /\ InItsRounds(x) /\ x.run = worker[w].run /\ x.step = worker[w].step
    BY <1>1, <1>2 DEF BusyRecord, AtItsStep, InItsRounds
  <2>2. Moves(w, x) /\ x \in WorkerRecord
    BY <1>3, <2>1 DEF ReadRow, WorkerRecord
  <2> HIDE DEF x
  <2> QED BY <1>1, <2>1, <2>2, QuietMove
<1>4. CASE AskForApproval(w)
  <2> DEFINE x == [worker[w] EXCEPT !.at = "read"]
  <2>1. x \in BusyRecord /\ AtItsStep(x) /\ InItsRounds(x) /\ x.run = worker[w].run /\ x.step = worker[w].step
    BY <1>1 DEF BusyRecord, AtItsStep, InItsRounds
  <2>2. Moves(w, x) \/ Moves(w, Free)
    BY <1>4 DEF AskForApproval
  <2>3. x \in WorkerRecord /\ Free \in WorkerRecord /\ Free.run \notin Runs
    BY <2>1, NoRun DEF WorkerRecord
  <2> HIDE DEF x
  <2> QED BY <1>1, <2>1, <2>2, <2>3, QuietMove
<1> QED BY <1>3, <1>4

LEMMA CommandSpawned ==
  ASSUME AgentInv, NEW w \in Workers, Spawn(w), SameTrees, Repeats
  PROVE  AgentInv'
<1> DEFINE child == 1 + (worker[w].child % Pids)  x == [worker[w] EXCEPT !.at = "running", !.child = child]
<1>1. /\ worker[w] \in BusyRecord /\ AtItsStep(worker[w]) /\ InItsRounds(worker[w]) /\ worker[w].at = "spawn"
      /\ UNCHANGED <<row, lost, trial, ended>> /\ SameApi /\ Moves(w, x)
      /\ hook' = [hook EXCEPT ![w] = [at |-> "read", run |-> worker[w].run, pid |-> <<w, child>>, read |-> Absent]]
  BY WorkerRecords DEF Spawn, AgentInv, Types, NoFault
<1>2. child \in Nat
  BY <1>1 DEF BusyRecord, Pids
<1> HIDE DEF child
<1>3. x \in BusyRecord /\ AtItsStep(x) /\ InItsRounds(x) /\ x.run = worker[w].run /\ x.step = worker[w].step
  BY <1>1, <1>2 DEF BusyRecord, AtItsStep, InItsRounds
<1>4. x \in WorkerRecord
  BY <1>3 DEF WorkerRecord
<1>5. [at |-> "read", run |-> worker[w].run, pid |-> <<w, child>>, read |-> Absent] \in HookRecord
  BY <1>1, <1>2, Rows DEF HookRecord, BusyRecord, Commands
<1>6. CommandTypes'
  BY <1>1, <1>5 DEF CommandTypes, AgentInv, Types
<1> HIDE DEF x
<1> QED BY <1>1, <1>3, <1>4, <1>6, QuietMove

\* The hooks of the commands, which read a row and write it back, or clear a pid.
LEMMA HookSteps ==
  ASSUME AgentInv, NEW w \in Workers, HookReads(w) \/ HookWrites(w), SameTrees, Repeats
  PROVE  AgentInv'
<1>1. /\ hook[w] \in HookRecord /\ hook[w] # NoHook /\ RowTypes /\ CommandTypes /\ WorkerTypes
      /\ UNCHANGED <<worker, ended, trial>> /\ SameApi
  BY DEF HookReads, HookWrites, AgentInv, Types, CommandTypes, NoHook, NoFault
<1>2. WorkerTypes'
  BY <1>1 DEF WorkerTypes
<1>3. CASE HookReads(w)
  <2> DEFINE x == [hook[w] EXCEPT !.at = "write", !.read = row[hook[w].run]]
  <2>1. x \in HookRecord
    BY <1>1 DEF HookRecord, RowTypes
  <2>2. hook' = [hook EXCEPT ![w] = x] /\ UNCHANGED <<row, lost>>
    BY <1>1, <1>3 DEF HookReads, rowVars, CommandTypes, HookRecord
  <2> HIDE DEF x
  <2>3. CommandTypes' /\ RowTypes'
    BY <1>1, <2>1, <2>2 DEF CommandTypes, RowTypes
  <2> QED BY <1>1, <1>2, <2>2, <2>3, QuietWork
<1>4. CASE HookWrites(w)
  <2> DEFINE read == hook[w].read  changed == [read EXCEPT !.pid = hook[w].pid]  r == hook[w].run
  <2>1. /\ WriteBack(r, read, changed) /\ hook' = [hook EXCEPT ![w] = NoHook]
        /\ r \in Runs /\ read \in RowRecord /\ changed \in RowRecord /\ changed.status = read.status
    BY <1>1, <1>4 DEF HookWrites, HookRecord, RowRecord
  <2> HIDE DEF read, changed, r
  <2>2. CommandTypes'
    BY <1>1, <2>1 DEF CommandTypes
  <2>3. /\ RowTypes' /\ lost \subseteq lost' /\ \A q \in Runs : q # r => row'[q] = row[q]
        /\ r \notin lost' => row[r] = read /\ row'[r] = changed
    BY <1>1, <2>1, Wrote
  <2>4. \A q \in Runs \ lost' : row'[q].status = row[q].status
    BY <2>1, <2>3
  <2> QED BY <1>1, <1>2, <2>2, <2>3, <2>4, QuietWork
<1> QED BY <1>3, <1>4

LEMMA HookFinished ==
  ASSUME AgentInv, NEW end \in ended, FinishHook(end), SameTrees, Repeats
  PROVE  AgentInv'
<1>1. /\ end.run \in Runs /\ ClearPid(end.run, end.pid) /\ ended' = ended \ {end}
      /\ UNCHANGED <<worker, hook, trial>> /\ SameApi
      /\ RowTypes /\ WorkerTypes' /\ CommandTypes'
  BY DEF FinishHook, AgentInv, Types, CommandTypes, WorkerTypes, NoFault
<1>2. RowTypes' /\ lost' = lost /\ \A q \in Runs : row'[q].status = row[q].status
  BY <1>1, PidCleared
<1> QED BY <1>1, <1>2, QuietWork

\* The claim takes a run from the queue, where nobody holds it.
LEMMA RunClaimed ==
  ASSUME AgentInv, NEW w \in Workers, ClaimNextRun(w), SameTrees, Repeats
  PROVE  AgentInv'
<1>1. PICK r \in Runs :
        /\ row[r].status = "queued" /\ SetStatus(r, "context_indexing")
        /\ Moves(w, [Free EXCEPT !.run = r, !.step = "context_indexing", !.at = "index", !.iteration = 1,
                       !.limit = IF row[r].config THEN trial.maxIterations ELSE DefaultIterations])
  BY DEF ClaimNextRun
<1> DEFINE limit == IF row[r].config THEN trial.maxIterations ELSE DefaultIterations
           x == [Free EXCEPT !.run = r, !.step = "context_indexing", !.at = "index", !.iteration = 1, !.limit = limit]
<1>2. limit \in Nat \ {0}
  BY AgentAssumption, ApprovalAssumption DEF AgentInv, Types
<1> HIDE DEF limit
<1>3. /\ x \in [run : Runs, step : {"context_indexing"}, at : {"index"}, read : {Absent}, iteration : {1},
                limit : Nat \ {0}, coded : {0}, child : {0}]
      /\ x.run = r
  BY <1>2 DEF Free
<1>4. Moves(w, x)
  BY <1>1 DEF limit
<1> HIDE DEF x
<1>5. x \in WorkerRecord /\ x.run = r /\ x.step = "context_indexing"
  BY <1>2, <1>3, Rows DEF WorkerRecord, BusyRecord, AtItsStep, InItsRounds, Active
<1>6. /\ WorkerTypes' /\ worker'[w] = x
      /\ \A v \in Workers : v # w => worker'[v] = worker[v]
  BY <1>4, <1>5, Moved DEF AgentInv, Types
<1>7. /\ RowTypes' /\ lost' = lost
      /\ \A q \in Runs : row'[q].status = IF q = r THEN "context_indexing" ELSE row[q].status
  BY <1>1, StatusSet DEF AgentInv, Types, Statuses, Active
<1>8. SameApi /\ CommandTypes' /\ UNCHANGED trial
  BY DEF ClaimNextRun, AgentInv, Types, CommandTypes, SameCommands, NoFault
<1>9. ASSUME NEW q \in Runs, q \notin lost' PROVE HeldRightly(q)'
  <2>1. HeldRightly(q) /\ UNCHANGED <<unreviewed, approver, approvals>>
    BY <1>7, <1>9 DEF AgentInv, RunInv, SameTrees, treeVars, approvalVars
  <2>2. CASE q = r
    <3>1. \A v \in Workers : ~Holds(v, r)
      BY <1>1, <2>1, <2>2 DEF HeldRightly, Active
    <3>2. \A v \in Workers : Holds(v, r)' => v = w
      BY <1>6, <3>1 DEF Holds
    <3>3. \A a \in Approvers : ~Approving(a, r)'
      BY <1>1, <2>1, <2>2 DEF HeldRightly, Approving
    <3>4. ~(approvals'[r] > 0)
      BY <1>1, <2>1, <2>2 DEF HeldRightly
    <3>5. row'[r].status = "context_indexing" /\ "context_indexing" \in Active
      BY <1>7 DEF Active
    <3>6. \A v \in Workers : Holds(v, r)' => worker'[v].step # "waiting_approval"
      BY <1>5, <1>6, <3>2
    <3> QED BY <2>2, <3>2, <3>3, <3>4, <3>5, <3>6 DEF HeldRightly, Approving
  <2>3. CASE q # r
    <3>1. \A v \in Workers : Holds(v, q)' => Holds(v, q) /\ worker'[v].step = worker[v].step
      BY <1>5, <1>6, <2>3 DEF Holds
    <3> QED BY <1>7, <2>1, <2>3, <3>1 DEF HeldRightly, Approving
  <2> QED BY <2>2, <2>3
<1> QED BY <1>6, <1>7, <1>8, <1>9, WorkKeeps

\* A node writes its status into the row, and the last one leaves the run.
LEMMA RowWritten ==
  ASSUME AgentInv, NEW w \in Workers, WriteRow(w), SameTrees, Repeats
  PROVE  AgentInv'
<1> DEFINE me == worker[w]  r == me.run  step == me.step
           changed == [me.read EXCEPT !.status = step, !.workspace = @ \/ step = "context_indexing"]
<1>1. /\ me \in BusyRecord /\ AtItsStep(me) /\ InItsRounds(me) /\ WriteBack(r, me.read, changed)
      /\ SameApi /\ CommandTypes' /\ UNCHANGED trial
  BY WorkerRecords DEF WriteRow, AgentInv, Types, CommandTypes, SameCommands, NoFault
<1>2. /\ r \in Runs /\ step \in Active \cup {"waiting_approval"}
      /\ changed \in RowRecord /\ changed.status = step
  <2>1. r \in Runs /\ step \in Active \cup {"waiting_approval"} /\ me.read \in RowRecord
    BY <1>1 DEF BusyRecord
  <2> HIDE DEF me, r, step
  <2> QED BY <2>1 DEF RowRecord, Statuses
<1>3. PICK x \in WorkerRecord :
        /\ Moves(w, x) /\ x.step # "waiting_approval"
        /\ x = Free \/ (x.run = r /\ step # "waiting_approval")
  <2>1. CASE step = "context_indexing"
    <3> DEFINE x == Step(w, "planning", "read")
    <3>1. Moves(w, x)
      BY <2>1 DEF WriteRow
    <3>2. x \in BusyRecord /\ AtItsStep(x) /\ InItsRounds(x) /\ x.run = r /\ x.step = "planning"
      BY <1>1, <2>1, Rows DEF Step, BusyRecord, AtItsStep, InItsRounds, Active
    <3> QED BY <2>1, <3>1, <3>2 DEF WorkerRecord
  <2>2. CASE step = "waiting_approval"
    BY <2>2 DEF WriteRow, WorkerRecord, Free
  <2>3. CASE step # "context_indexing" /\ step # "waiting_approval"
    <3> DEFINE x == [me EXCEPT !.at = "spawn", !.read = Absent]
    <3>1. Moves(w, x)
      BY <2>3 DEF WriteRow
    <3>2. x \in BusyRecord /\ AtItsStep(x) /\ InItsRounds(x) /\ x.run = r /\ x.step = step
      BY <1>1, <2>3, Rows DEF BusyRecord, AtItsStep, InItsRounds, Active
    <3> QED BY <2>3, <3>1, <3>2 DEF WorkerRecord
  <2> QED BY <2>1, <2>2, <2>3
<1>4. /\ WorkerTypes' /\ worker'[w] = x
      /\ \A v \in Workers : v # w => worker'[v] = worker[v]
  BY <1>3, Moved DEF AgentInv, Types
<1> HIDE DEF changed
<1>5. /\ RowTypes' /\ lost \subseteq lost' /\ \A q \in Runs : q # r => row'[q] = row[q]
      /\ r \notin lost' => row'[r] = changed
  BY <1>1, <1>2, Wrote DEF AgentInv, Types
<1>6. ASSUME NEW q \in Runs, q \notin lost' PROVE HeldRightly(q)'
  <2>1. HeldRightly(q) /\ UNCHANGED <<unreviewed, approver, approvals>>
    BY <1>5, <1>6 DEF AgentInv, RunInv, SameTrees, treeVars, approvalVars
  <2>2. CASE q = r
    <3>1. \A v \in Workers : Holds(v, q) => v = w
      BY <2>1, <2>2 DEF HeldRightly, Holds
    <3>2. \A v \in Workers : Holds(v, q)' => v = w /\ x.run = r /\ step # "waiting_approval"
      BY <1>3, <1>4, <2>2, <3>1, NoRun DEF Holds
    <3>3. \A a \in Approvers : ~Approving(a, q)'
      BY <2>1, <2>2 DEF HeldRightly, Holds, Approving, Active
    <3>4. row'[q].status = step
      BY <1>2, <1>5, <1>6, <2>2
    <3>5. step = "waiting_approval" => q \notin unreviewed
      BY <2>1, <2>2 DEF HeldRightly, Holds
    <3>6. \A v \in Workers : Holds(v, q)' => worker'[v].step # "waiting_approval"
      BY <1>3, <1>4, <3>2
    <3>7. ~(approvals'[q] > 0) /\ "succeeded" \notin Active
      BY <2>1, <2>2 DEF HeldRightly, Holds, Active
    <3> HIDE DEF step
    <3> QED BY <1>2, <2>1, <3>2, <3>3, <3>4, <3>5, <3>6, <3>7 DEF HeldRightly, Approving
  <2>3. CASE q # r
    <3>1. \A v \in Workers : Holds(v, q)' => Holds(v, q) /\ worker'[v].step = worker[v].step
      BY <1>3, <1>4, <2>3, NoRun DEF Holds
    <3> QED BY <1>5, <2>1, <2>3, <3>1 DEF HeldRightly, Approving
  <2> QED BY <2>2, <2>3
<1> QED BY <1>1, <1>4, <1>5, <1>6, WorkKeeps

LEMMA WorkerSteps ==
  ASSUME AgentInv, WorkerStep, SameTrees, Repeats
  PROVE  AgentInv'
BY RunClaimed, RowRead, RowWritten, CommandSpawned, HookSteps, RunDropped, HookFinished DEF WorkerStep

-----------------------------------------------------------------------------
(* The workers in their workspaces. *)

LEMMA WorkspaceCreated ==
  ASSUME AgentInv, NEW w \in Workers, CreateWorkspace(w)
  PROVE  AgentInv'
<1> DEFINE x == [worker[w] EXCEPT !.at = "read"]
<1>1. /\ worker[w] \in BusyRecord /\ AtItsStep(worker[w]) /\ InItsRounds(worker[w]) /\ Moves(w, x)
      /\ UNCHANGED <<row, lost, creator, canceller, hook, ended, trial, repo, unreviewed, repeated,
                     approver, approvals, undone>>
  BY WorkerRecords DEF CreateWorkspace, AgentInv, Types, rowVars, SameApi, apiVars, SameCommands, NoFault,
     approvalVars
<1>2. x \in BusyRecord /\ AtItsStep(x) /\ InItsRounds(x) /\ x.run = worker[w].run /\ x.step = worker[w].step
  BY <1>1 DEF BusyRecord, AtItsStep, InItsRounds
<1>3. x \in WorkerRecord
  BY <1>2 DEF WorkerRecord
<1> HIDE DEF x
<1>4. /\ WorkerTypes' /\ worker'[w] = x
      /\ \A v \in Workers : v # w => worker'[v] = worker[v]
  BY <1>1, <1>3, Moved DEF AgentInv, Types
<1>5. files' \in [Runs -> SUBSET Runs]
  BY DEF CreateWorkspace, AgentInv, Types, TreeTypes
<1>6. Types'
  BY <1>1, <1>4, <1>5 DEF AgentInv, Types, RowTypes, ApiTypes, CommandTypes, TreeTypes, CallTypes
<1>7. RunInv'
  <2>1. \A v \in Workers : worker'[v].run = worker[v].run /\ worker'[v].step = worker[v].step
    BY <1>2, <1>4
  <2> QED BY <1>1, <2>1 DEF AgentInv, RunInv, HeldRightly, Holds, Approving
<1> QED BY <1>6, <1>7 DEF AgentInv

\* What a node leaves to the next: the routing keeps the count of the rounds, and
\* only a review ends the workflow.
LEMMA AfterNode ==
  ASSUME NEW w \in Workers, NEW pass \in BOOLEAN, Running(w),
         worker[w] \in BusyRecord, AtItsStep(worker[w]), InItsRounds(worker[w]),
         ~pass => worker[w].step \in {"testing", "reviewing"}
  PROVE  /\ After(w, pass) \in WorkerRecord /\ After(w, pass).run = worker[w].run
         /\ After(w, pass).step = "waiting_approval" => worker[w].step = "reviewing"
<1> DEFINE me == worker[w]  y == After(w, pass)
<1> SUFFICES /\ y \in BusyRecord /\ AtItsStep(y) /\ InItsRounds(y) /\ y.run = me.run
             /\ y.step = "waiting_approval" => me.step = "reviewing"
  BY DEF WorkerRecord
<1>1. me.step \in {"planning", "implementing", "testing", "reviewing"}
  BY DEF Running, AtItsStep
<1>2. me.iteration \in Nat /\ me.limit \in Nat /\ me.coded \in Nat
  BY DEF BusyRecord
<1>3. CASE me.step = "planning"
  <2>1. y = Step(w, "implementing", "read")
    BY <1>3 DEF After, Planned
  <2> HIDE DEF y
  <2>2. /\ y \in BusyRecord /\ y.run = me.run /\ y.step = "implementing" /\ y.at = "read"
        /\ y.iteration = me.iteration /\ y.limit = me.limit /\ y.coded = me.coded
    BY <2>1, Rows DEF Step, BusyRecord, Active
  <2>3. me.coded = 0 /\ me.iteration = 1
    BY <1>3 DEF InItsRounds
  <2> QED BY <2>2, <2>3 DEF AtItsStep, InItsRounds
<1>4. CASE me.step = "implementing"
  <2> DEFINE coded == Min({me.coded + 1, me.limit + 1})
  <2>1. coded \in Nat /\ coded <= me.coded + 1
    <3> DEFINE m == IF me.coded <= me.limit THEN me.coded + 1 ELSE me.limit + 1
    <3>1. m \in {me.coded + 1, me.limit + 1} /\ \A n \in {me.coded + 1, me.limit + 1} : m <= n
      BY <1>2
    <3>2. coded \in {me.coded + 1, me.limit + 1} /\ \A n \in {me.coded + 1, me.limit + 1} : coded <= n
      BY <3>1 DEF Min
    <3> QED BY <1>2, <3>2
  <2>2. y = [Step(w, "testing", "read") EXCEPT !.coded = coded]
    BY <1>4 DEF After, Implemented, Step
  <2> HIDE DEF coded
  <2>3. me.coded < me.iteration /\ (me.coded = 0 \/ me.iteration < me.limit)
    BY <1>4 DEF InItsRounds
  <2>4. coded <= me.iteration /\ (coded <= 1 \/ coded < me.limit)
    BY <1>2, <2>1, <2>3
  <2> QED BY <1>2, <1>4, <2>1, <2>2, <2>4, Rows DEF Step, BusyRecord, AtItsStep, InItsRounds, Active
<1>5. CASE me.step \in {"testing", "reviewing"}
  <2> DEFINE next == NextIteration(w, pass)  on == Route(w, pass) = "on"
  <2>1. me.coded <= me.iteration /\ (me.coded <= 1 \/ me.coded < me.limit)
    BY <1>5 DEF InItsRounds
  <2>2. /\ next \in Nat /\ me.coded <= next
        /\ ~on => me.coded < next /\ next < me.limit
    BY <1>2, <2>1 DEF NextIteration, Route
  <2>3. PICK step, at :
          /\ y = [Step(w, step, at) EXCEPT !.iteration = next]
          /\ \/ ~on /\ step = "implementing" /\ at = "read"
             \/ step = "reviewing" /\ at = "read"
             \/ step = "waiting_approval" /\ at = "check" /\ me.step = "reviewing"
    BY <1>5 DEF After, Tested, Reviewed
  <2> HIDE DEF next, on, y
  <2>4. y \in BusyRecord /\ y.run = me.run /\ y.step = step /\ y.at = at
        /\ y.iteration = next /\ y.limit = me.limit /\ y.coded = me.coded
    BY <2>2, <2>3, Rows DEF Step, BusyRecord, Active
  <2> QED BY <2>1, <2>2, <2>3, <2>4 DEF AtItsStep, InItsRounds
<1> QED BY <1>1, <1>3, <1>4, <1>5

\* A command ends, and leaves its workspace with work that nobody has reviewed, or
\* with the work that a reviewer has seen.
LEMMA ProviderEnded ==
  ASSUME AgentInv, NEW w \in Workers, NEW pass \in BOOLEAN, NEW changes \in BOOLEAN,
         ProviderEnds(w, pass, changes)
  PROVE  AgentInv'
<1> DEFINE r == worker[w].run  x == After(w, pass)
<1>1. /\ worker[w] \in BusyRecord /\ AtItsStep(worker[w]) /\ InItsRounds(worker[w])
      /\ ~pass => worker[w].step \in {"testing", "reviewing"}
      /\ Running(w) /\ Moves(w, x) /\ Finished(w)
      /\ UNCHANGED <<row, lost, creator, canceller, hook, trial, repo, repeated, approver, approvals, undone>>
  BY WorkerRecords DEF ProviderEnds, CommandEnds, Running, AgentInv, Types, rowVars, SameApi, apiVars, NoFault,
     approvalVars
<1>2. x \in WorkerRecord /\ x.run = r /\ (x.step = "waiting_approval" => worker[w].step = "reviewing")
  BY <1>1, AfterNode
<1> HIDE DEF x
<1>3. /\ WorkerTypes' /\ worker'[w] = x
      /\ \A v \in Workers : v # w => worker'[v] = worker[v]
  BY <1>1, <1>2, Moved DEF AgentInv, Types
<1>4. r \in Runs /\ worker[w].child \in Nat
  BY <1>1 DEF BusyRecord
<1>5. CommandTypes'
  BY <1>1, <1>4 DEF Finished, Child, Commands, CommandTypes, AgentInv, Types
<1>6. /\ files' \in [Runs -> SUBSET Runs]
      /\ unreviewed' = CASE changes -> unreviewed \cup {r}
                          [] worker[w].step = "reviewing" -> unreviewed \ {r}
                          [] OTHER -> unreviewed
      /\ changes => worker[w].step = "implementing"
  BY <1>4 DEF ProviderEnds, AgentInv, Types, TreeTypes
<1>7. /\ unreviewed' \subseteq Runs /\ \A q \in Runs : q # r => (q \in unreviewed' <=> q \in unreviewed)
      /\ worker[w].step = "reviewing" => r \notin unreviewed'
  BY <1>4, <1>6 DEF AgentInv, Types, TreeTypes
<1>8. Types'
  BY <1>1, <1>3, <1>5, <1>6, <1>7 DEF AgentInv, Types, RowTypes, ApiTypes, TreeTypes, CallTypes
<1>9. ASSUME NEW q \in Runs, q \notin lost PROVE HeldRightly(q)'
  <2>1. HeldRightly(q)
    BY <1>9 DEF AgentInv, RunInv
  <2>2. \A v \in Workers : Holds(v, q)' <=> Holds(v, q)
    BY <1>2, <1>3 DEF Holds
  <2>3. CASE q = r
    <3>1. Holds(w, q) /\ row[q].status # "waiting_approval"
      BY <2>1, <2>3 DEF HeldRightly, Holds, Active
    <3>2. \A v \in Workers : Holds(v, q)' => v = w
      BY <2>1, <2>2, <3>1 DEF HeldRightly
    <3>3. worker'[w].step = "waiting_approval" => q \notin unreviewed'
      BY <1>2, <1>3, <1>7, <2>3
    <3> HIDE DEF r
    <3> QED BY <1>1, <2>1, <2>2, <3>1, <3>2, <3>3 DEF HeldRightly, Approving
  <2>4. CASE q # r
    <3>1. \A v \in Workers : Holds(v, q)' => worker'[v] = worker[v]
      BY <1>2, <1>3, <2>2, <2>4 DEF Holds
    <3>2. q \in unreviewed' <=> q \in unreviewed
      BY <1>7, <2>4
    <3> HIDE DEF r
    <3> QED BY <1>1, <2>1, <2>2, <3>1, <3>2 DEF HeldRightly, Approving
  <2> QED BY <2>3, <2>4
<1>10. RunInv'
  BY <1>1, <1>9 DEF RunInv, AgentInv
<1> QED BY <1>8, <1>10 DEF AgentInv

-----------------------------------------------------------------------------
(* The approvals. *)

\* The calls of approveRun before the last write: they take up a run that waits, or
\* go on with it, and leave the runs alone.
LEMMA ApproverSteps ==
  ASSUME AgentInv, NEW a \in Approvers,
         CheckStatus(a) \/ CreateWorkspacePatch(a) \/ ApplyPatch(a) \/ RecordApproval(a)
  PROVE  AgentInv'
<1>1. UNCHANGED <<row, lost, creator, canceller, worker, hook, ended, trial, unreviewed, files, repeated>>
  BY DEF CheckStatus, CreateWorkspacePatch, ApplyPatch, RecordApproval, SameRuns, runVars, treeVars
<1>2. approver[a] \in CallRecord \cup IdleRecord /\ CallTypes /\ TreeTypes
  BY DEF AgentInv, Types, CallTypes
<1> DEFINE gone == [Nobody EXCEPT !.at = "done"]
<1>3. gone \in IdleRecord /\ gone.at = "done"
  BY DEF Nobody, IdleRecord
<1> HIDE DEF gone
<1>4. PICK x \in CallRecord \cup IdleRecord :
        /\ Call(a, x)
        /\ x.at \in {"compare", "apply", "record", "succeed"} =>
             \/ x.run = approver[a].run /\ approver[a].at \in {"compare", "apply", "record", "succeed"}
             \/ row[x.run].status = "waiting_approval"
  <2>1. CASE CheckStatus(a)
    <3>1. PICK r \in Runs : row[r].status = "waiting_approval" /\ Call(a, [Nobody EXCEPT !.at = "compare", !.run = r])
      BY <2>1 DEF CheckStatus
    <3> DEFINE x == [Nobody EXCEPT !.at = "compare", !.run = r]
    <3>2. x \in CallRecord /\ x.run = r
      BY DEF Nobody, CallRecord
    <3> QED BY <3>1, <3>2
  <2>2. CASE CreateWorkspacePatch(a)
    <3> DEFINE tree == files[approver[a].run]
               x == [approver[a] EXCEPT !.at = "apply", !.adds = tree \ repo, !.drops = repo \ tree]
    <3>1. approver[a] \in CallRecord
      BY <1>2, <2>2 DEF CreateWorkspacePatch, IdleRecord
    <3>2. tree \subseteq Runs /\ repo \subseteq Runs
      BY <1>2, <3>1 DEF TreeTypes, CallRecord
    <3>3. Call(a, gone) \/ Call(a, x)
      BY <2>2 DEF CreateWorkspacePatch, Gone, gone
    <3> HIDE DEF tree
    <3>4. x \in CallRecord /\ x.run = approver[a].run
      BY <3>1, <3>2 DEF CallRecord
    <3> HIDE DEF x
    <3> QED BY <1>3, <2>2, <3>3, <3>4 DEF CreateWorkspacePatch
  <2>3. CASE ApplyPatch(a)
    <3> DEFINE x == [approver[a] EXCEPT !.at = "record"]
    <3>1. approver[a] \in CallRecord
      BY <1>2, <2>3 DEF ApplyPatch, IdleRecord
    <3>2. Call(a, gone) \/ Call(a, x)
      BY <2>3 DEF ApplyPatch, Gone, gone
    <3>3. x \in CallRecord /\ x.run = approver[a].run
      BY <3>1 DEF CallRecord
    <3> HIDE DEF x
    <3> QED BY <1>3, <2>3, <3>2, <3>3 DEF ApplyPatch
  <2>4. CASE RecordApproval(a)
    <3> DEFINE x == [approver[a] EXCEPT !.at = "succeed"]
    <3>1. approver[a] \in CallRecord
      BY <1>2, <2>4 DEF RecordApproval, IdleRecord
    <3>2. x \in CallRecord /\ x.run = approver[a].run /\ Call(a, x)
      BY <2>4, <3>1 DEF CallRecord, RecordApproval
    <3> HIDE DEF x
    <3> QED BY <2>4, <3>2 DEF RecordApproval
  <2> QED BY <2>1, <2>2, <2>3, <2>4
<1>5. /\ CallTypes' /\ approver'[a] = x
      /\ \A b \in Approvers : b # a => approver'[b] = approver[b]
  BY <1>2, <1>4 DEF Call, CallTypes
<1>6. TreeTypes'
  <2>1. CASE CheckStatus(a) \/ CreateWorkspacePatch(a)
    BY <1>1, <1>2, <2>1 DEF TreeTypes, CheckStatus, CreateWorkspacePatch, treeVars
  <2>2. CASE ApplyPatch(a)
    <3>1. approver[a].adds \subseteq Runs
      BY <1>2 DEF CallRecord, IdleRecord
    <3>2. CASE Applies(a)
      <4>1. repo' \subseteq Runs /\ approvals' = approvals
        BY <1>2, <2>2, <3>1, <3>2 DEF TreeTypes, ApplyPatch, Patched
      <4>2. undone' \subseteq Approvers \X Runs
        <5>1. undone' = undone \cup ({a} \X (repo \cap approver[a].drops))
          BY <2>2, <3>2 DEF ApplyPatch, Patched
        <5>2. undone \subseteq Approvers \X Runs /\ repo \subseteq Runs
          BY <1>2 DEF TreeTypes
        <5> QED BY <5>1, <5>2
      <4> QED BY <1>1, <1>2, <4>1, <4>2 DEF TreeTypes
    <3>3. CASE ~Applies(a)
      BY <1>1, <1>2, <2>2, <3>3 DEF TreeTypes, ApplyPatch
    <3> QED BY <3>2, <3>3
  <2>3. CASE RecordApproval(a)
    <3>1. approver[a].run \in Runs
      BY <1>2, <2>3 DEF RecordApproval, CallRecord, IdleRecord
    <3>2. approvals' = [approvals EXCEPT ![approver[a].run] = @ + 1] /\ UNCHANGED <<repo, undone>>
      BY <2>3 DEF RecordApproval, treeVars
    <3>3. approvals' \in [Runs -> Nat]
      BY <1>2, <3>1, <3>2 DEF TreeTypes
    <3> QED BY <1>1, <1>2, <3>2, <3>3 DEF TreeTypes
  <2> QED BY <2>1, <2>2, <2>3
<1>7. Types'
  BY <1>1, <1>5, <1>6 DEF AgentInv, Types, RowTypes, ApiTypes, CommandTypes, WorkerTypes
<1>8. ASSUME NEW q \in Runs, q \notin lost PROVE HeldRightly(q)'
  <2>1. HeldRightly(q)
    BY <1>8 DEF AgentInv, RunInv
  <2>2. \A b \in Approvers : Approving(b, q) => row[q].status \in {"waiting_approval", "succeeded"}
    BY <2>1 DEF HeldRightly
  <2>3. \A b \in Approvers : Approving(b, q)' => row[q].status \in {"waiting_approval", "succeeded"}
    BY <1>4, <1>5, <2>2 DEF Approving
  <2>4. /\ approvals'[q] > 0 => approvals[q] > 0 \/ Approving(a, q)
        /\ approvals[q] > 0 => approvals'[q] > 0
        /\ approver'[a].at = "succeed" /\ approver'[a].run = q => approvals'[q] > 0
    <3>1. CASE RecordApproval(a)
      <4>1. /\ approvals' = [approvals EXCEPT ![approver[a].run] = @ + 1] /\ approvals \in [Runs -> Nat]
            /\ approver[a].at = "record"
            /\ Call(a, [approver[a] EXCEPT !.at = "succeed"])
        BY <1>2, <3>1 DEF RecordApproval, TreeTypes
      <4>2. approver'[a].run = approver[a].run
        BY <1>2, <4>1 DEF Call, CallTypes, CallRecord, IdleRecord
      <4> QED BY <4>1, <4>2 DEF Approving
    <3>2. CASE ~RecordApproval(a)
      <4>1. approvals' = approvals
        BY <3>2 DEF CheckStatus, CreateWorkspacePatch, ApplyPatch
      <4>2. approver'[a].at # "succeed"
        <5>1. CASE CheckStatus(a)
          BY <1>2, <5>1 DEF CheckStatus, Call, CallTypes, Nobody
        <5>2. CASE CreateWorkspacePatch(a)
          <6>1. approver[a] \in CallRecord
            BY <1>2, <5>2 DEF CreateWorkspacePatch, IdleRecord
          <6>2. PICK y : Call(a, y) /\ y.at \in {"apply", "done"}
            <7>1. CASE files[approver[a].run] = repo
              BY <1>3, <5>2, <7>1 DEF CreateWorkspacePatch, Gone, gone
            <7>2. CASE files[approver[a].run] # repo
              <8> DEFINE adds == files[approver[a].run] \ repo  drops == repo \ files[approver[a].run]
                         y == [approver[a] EXCEPT !.at = "apply", !.adds = adds, !.drops = drops]
              <8>1. Call(a, y)
                BY <5>2, <7>2 DEF CreateWorkspacePatch
              <8> HIDE DEF adds, drops
              <8>2. y.at = "apply"
                BY <6>1 DEF CallRecord
              <8> QED BY <8>1, <8>2
            <7> QED BY <7>1, <7>2
          <6> QED BY <1>2, <6>2 DEF Call, CallTypes
        <5>3. CASE ApplyPatch(a)
          BY <1>2, <5>3 DEF ApplyPatch, Call, CallTypes, Nobody, Gone, CallRecord, IdleRecord
        <5> QED BY <3>2, <5>1, <5>2, <5>3
      <4> QED BY <4>1, <4>2
    <3> QED BY <3>1, <3>2
  <2>5. /\ approvals'[q] > 0 => row[q].status \in {"waiting_approval", "succeeded"}
        /\ row[q].status = "succeeded" => approvals'[q] > 0
    BY <2>1, <2>2, <2>4 DEF HeldRightly
  <2>6. \A b \in Approvers : approver'[b].at = "succeed" /\ approver'[b].run = q => approvals'[q] > 0
    BY <1>5, <2>1, <2>4 DEF HeldRightly
  <2> QED BY <1>1, <2>1, <2>3, <2>5, <2>6 DEF HeldRightly, Holds
<1>9. RunInv'
  BY <1>1, <1>8 DEF RunInv, AgentInv
<1> QED BY <1>7, <1>9 DEF AgentInv

\* The last write of an approval: nobody else has the run.
LEMMA RunSucceeded ==
  ASSUME AgentInv, NEW a \in Approvers, Succeed(a)
  PROVE  AgentInv'
<1> DEFINE r == approver[a].run  gone == [Nobody EXCEPT !.at = "done"]
<1>1. /\ SetStatus(r, "succeeded") /\ Call(a, gone) /\ Approving(a, r)
      /\ UNCHANGED <<creator, canceller, worker, hook, ended, trial, repo, files, unreviewed, repeated,
                     approvals, undone>>
  BY DEF Succeed, Gone, Approving, treeVars, SameApi, apiVars, workerVars, NoFault
<1>2. gone \in IdleRecord /\ gone.at = "done"
  BY DEF Nobody, IdleRecord
<1> HIDE DEF gone
<1>3. r \in Runs
  BY DEF AgentInv, Types, CallTypes, CallRecord, IdleRecord, Succeed
<1>4. /\ RowTypes' /\ lost' = lost
      /\ \A q \in Runs : row'[q].status = IF q = r THEN "succeeded" ELSE row[q].status
  BY <1>1, <1>3, StatusSet DEF AgentInv, Types, Statuses
<1>5. /\ CallTypes' /\ approver'[a] = gone
      /\ \A b \in Approvers : b # a => approver'[b] = approver[b]
  BY <1>1, <1>2 DEF Call, CallTypes, AgentInv, Types
<1>6. Types'
  BY <1>1, <1>4, <1>5 DEF AgentInv, Types, ApiTypes, CommandTypes, WorkerTypes, TreeTypes
<1>7. ASSUME NEW q \in Runs, q \notin lost' PROVE HeldRightly(q)'
  <2>1. HeldRightly(q)
    BY <1>4, <1>7 DEF AgentInv, RunInv
  <2>2. \A b \in Approvers : Approving(b, q)' => Approving(b, q)
    BY <1>2, <1>5 DEF Approving
  <2>5. \A b \in Approvers : approver'[b].at = "succeed" /\ approver'[b].run = q => approvals'[q] > 0
    BY <1>1, <1>2, <1>5, <2>1 DEF HeldRightly
  <2>3. CASE q = r
    <3>1. \A w \in Workers : ~Holds(w, q)
      BY <1>1, <2>1, <2>3 DEF HeldRightly, Active
    <3>2. approvals'[q] > 0
      BY <1>1, <2>1, <2>3 DEF HeldRightly, Succeed
    <3> HIDE DEF r
    <3> QED BY <1>1, <1>4, <2>1, <2>2, <2>3, <2>5, <3>1, <3>2 DEF HeldRightly, Holds
  <2>4. CASE q # r
    <3> HIDE DEF r
    <3> QED BY <1>1, <1>4, <2>1, <2>2, <2>4, <2>5 DEF HeldRightly, Holds
  <2> QED BY <2>3, <2>4
<1>8. RunInv'
  BY <1>1, <1>4, <1>7 DEF RunInv, AgentInv
<1> QED BY <1>6, <1>8 DEF AgentInv

-----------------------------------------------------------------------------
(* The invariant, and what it says. *)

LEMMA AgentStep == AgentInv /\ [Next]_vars => AgentInv'
<1> SUFFICES ASSUME AgentInv, [Next]_vars PROVE AgentInv'
  OBVIOUS
<1>1. CASE ApiStep /\ SameTrees /\ UNCHANGED repeated
  BY <1>1, ApiSteps
<1>2. CASE WorkerStep /\ SameTrees /\ Repeats
  BY <1>2, WorkerSteps
<1>3. ASSUME NEW w \in Workers,
             CreateWorkspace(w) \/ \E pass, changes \in BOOLEAN : ProviderEnds(w, pass, changes)
      PROVE  AgentInv'
  BY <1>3, WorkspaceCreated, ProviderEnded
<1>4. ASSUME NEW a \in Approvers,
             CheckStatus(a) \/ CreateWorkspacePatch(a) \/ ApplyPatch(a) \/ RecordApproval(a) \/ Succeed(a)
      PROVE  AgentInv'
  BY <1>4, ApproverSteps, RunSucceeded
<1>5. CASE UNCHANGED vars
  BY <1>5 DEF vars, runVars, AgentInv, Types, RowTypes, ApiTypes, CommandTypes, WorkerTypes, TreeTypes, CallTypes,
     RunInv, HeldRightly, Holds, Approving
<1> QED BY <1>1, <1>2, <1>3, <1>4, <1>5 DEF Next

LEMMA AgentInvInductive == Spec => []AgentInv
BY AgentStarts, AgentStep, PTL DEF Spec

LEMMA WorkerTyped ==
  ASSUME WorkerTypes, NEW w \in Workers
  PROVE  /\ worker[w].run \in Runs \cup {"none"}
         /\ worker[w].at \in {"idle", "index", "read", "write", "spawn", "running", "killed", "check"}
         /\ worker[w].step \in {"none", "waiting_approval"} \cup Active
         /\ worker[w].coded \in Nat /\ worker[w].limit \in Nat
         /\ worker[w].coded <= 1 \/ worker[w].coded < worker[w].limit
<1>1. CASE worker[w] = Free
  BY <1>1 DEF Free
<1>2. CASE worker[w] # Free
  <2>1. worker[w] \in BusyRecord /\ InItsRounds(worker[w])
    BY <1>2 DEF WorkerTypes, WorkerRecord
  <2> QED BY <2>1 DEF BusyRecord, InItsRounds, Active
<1> QED BY <1>1, <1>2

LEMMA AgentTypes == AgentInv => TypeOK
<1> SUFFICES ASSUME AgentInv PROVE TypeOK
  OBVIOUS
<1>1. /\ row \in [Runs -> [status : {"absent", "queued", "waiting_approval", "succeeded", "cancelled"} \union Active,
                           pid : {NoPid} \union (Workers \X Nat), workspace : BOOLEAN, config : BOOLEAN]]
      /\ lost \subseteq Runs /\ TreeTypes
  BY DEF AgentInv, Types, RowTypes, RowRecord, Statuses, Commands
<1>2. \A w \in Workers : hook[w].at \in {"none", "read", "write"}
  BY DEF AgentInv, Types, CommandTypes, NoHook, HookRecord
<1> QED BY <1>1, <1>2, WorkerTyped DEF TypeOK, TreeTypes, AgentInv, Types

LEMMA CoderBounded == AgentInv => CoderIsBounded
<1> SUFFICES ASSUME AgentInv, NEW w \in Workers
             PROVE  worker[w].coded <= Max({1, worker[w].limit - 1})
  BY DEF CoderIsBounded
<1> DEFINE n == worker[w].limit - 1  S == {1, n}  m == IF n >= 1 THEN n ELSE 1
<1>1. worker[w].coded \in Nat /\ n \in Int /\ (worker[w].coded <= 1 \/ worker[w].coded <= n)
  BY WorkerTyped DEF AgentInv, Types
<1> HIDE DEF n
<1>2. m \in S /\ \A y \in S : m >= y
  BY <1>1
<1>3. Max(S) \in S /\ \A y \in S : Max(S) >= y
  BY <1>2 DEF Max
<1>4. worker[w].coded <= Max(S)
  BY <1>1, <1>3
<1> QED BY <1>4 DEF n

\* What waits for its approval has been reviewed since it was last changed, and the
\* coder runs no more often than the limit of the run allows, unless a lost update
\* has put an old row back (the nodes of langGraphWorkflow.ts, worker.ts).
THEOREM RunsAlwaysSound == Spec => []RunsAreSound
<1>1. AgentInv => WaitingIsReviewed
  BY DEF AgentInv, RunInv, HeldRightly, WaitingIsReviewed
<1>2. AgentInv => RunsAreSound
  BY <1>1, AgentTypes, CoderBounded DEF RunsAreSound
<1> QED BY <1>2, AgentInvInductive, PTL

\* Two workers have the same run only after a lost update: the claim of claimNextRun
\* gives each run away once, whatever cancellations, approvals and crashes do.
THEOREM NeverTwoWorkers == Spec => []OneWorkerPerRun
<1>1. AgentInv => OneWorkerPerRun
  BY DEF AgentInv, RunInv, OneWorkerPerRun
<1> QED BY <1>1, AgentInvInductive, PTL

-----------------------------------------------------------------------------
(* What an approval does to the trees. *)

\* A run whose patch is in the repository, recorded or about to be, how many of its
\* patches were, and a change that is in the repository or has been taken out of it.
Vouched(r) == approvals[r] > 0 \/ \E a \in Approvers : Recording(a, r)
Patches(r) == approvals[r] + Cardinality({a \in Approvers : Recording(a, r)})
Kept(x) == x \in repo \/ \E a \in Approvers : <<a, x>> \in undone

TreesAreFinite ==
  /\ IsFiniteSet(repo) /\ IsFiniteSet(undone)
  /\ \A r \in Runs : IsFiniteSet(files[r])
  /\ \A a \in Approvers : IsFiniteSet(approver[a].adds)

\* A call takes changes out of the repository once.
UndoneOnce == \A a \in Approvers, x \in Runs :
  <<a, x>> \in undone => approver[a].at \in {"record", "succeed", "done"}

\* Where another's change is, it came from the repository.
ChangesAreVouched == \A r \in Runs :
  /\ r \in repo => Vouched(r)
  /\ \A s \in Runs : r \in files[s] /\ s # r => Vouched(r)
  /\ \A a \in Approvers : r \in approver[a].adds /\ approver[a].run # r => Vouched(r)

\* A patch that is to be applied is about the workspace as it still is: all that the
\* patch does not add is in the repository, or has been since the diff.
Prepared(tree, adds, drops) ==
  /\ adds \subseteq tree /\ drops \cap tree = {} /\ adds \cup drops # {}
  /\ \A x \in tree \ adds : Kept(x)
ReadyToApply(a) ==
  approver[a].at = "apply" /\ approver[a].run \notin lost =>
    Prepared(files[approver[a].run], approver[a].adds, approver[a].drops)

\* Once a run is patched, each patch more, and each change of its workspace that is
\* not in the repository, stands against one that was taken out.
PatchesAreCounted(r) ==
  Vouched(r) => /\ \A x \in files[r] : Kept(x)
                /\ Patches(r) + Cardinality(files[r] \ repo) <= 1 + Cardinality(undone)

TreeInv ==
  /\ TreesAreFinite /\ UndoneOnce /\ ChangesAreVouched
  /\ \A a \in Approvers : ReadyToApply(a)
  /\ \A r \in Runs \ lost : PatchesAreCounted(r)

\* What is taken out of a set is at most what leaves its difference with another.
LEMMA DifferenceGrows ==
  ASSUME NEW T, NEW R, NEW D, NEW A, IsFiniteSet(T), IsFiniteSet(D)
  PROVE  /\ Cardinality(T \ ((R \ D) \cup A)) \in Nat /\ Cardinality(T \ R) \in Nat /\ Cardinality(D) \in Nat
         /\ Cardinality(T \ ((R \ D) \cup A)) <= Cardinality(T \ R) + Cardinality(D)
<1> DEFINE X == T \ ((R \ D) \cup A)  Y == T \ R
<1>1. X \in SUBSET (Y \cup D)
  OBVIOUS
<1>2. IsFiniteSet(X) /\ IsFiniteSet(Y)
  BY FS_Difference
<1> HIDE DEF X, Y
<1>3. IsFiniteSet(Y \cup D) /\ Cardinality(X) <= Cardinality(Y \cup D)
  BY <1>1, <1>2, FS_Union, FS_Subset
<1>4. Cardinality(Y \cup D) = Cardinality(Y) + Cardinality(D) - Cardinality(Y \cap D)
  BY <1>2, FS_Union
<1>5. /\ Cardinality(X) \in Nat /\ Cardinality(Y) \in Nat /\ Cardinality(D) \in Nat
      /\ Cardinality(Y \cap D) \in Nat /\ Cardinality(Y \cup D) \in Nat
  BY <1>2, <1>3, FS_CardinalityType, FS_Intersection
<1>6. Cardinality(X) <= Cardinality(Y) + Cardinality(D)
  BY <1>3, <1>4, <1>5
<1> QED BY <1>5, <1>6 DEF X, Y

\* A patch with something in it brings the tree and the repository together.
LEMMA DifferenceShrinks ==
  ASSUME NEW T, NEW R, NEW D, NEW A, IsFiniteSet(T), IsFiniteSet(D),
         A \subseteq T, A \cap R = {}, D \cap T = {}, A \cup D # {}
  PROVE  /\ Cardinality(T \ ((R \ D) \cup A)) \in Nat /\ Cardinality(T \ R) \in Nat /\ Cardinality(D) \in Nat
         /\ Cardinality(T \ ((R \ D) \cup A)) + 1 <= Cardinality(T \ R) + Cardinality(D)
<1> DEFINE X == T \ ((R \ D) \cup A)  Y == T \ R
<1>1. X = Y \ A /\ A \subseteq Y
  OBVIOUS
<1>2. IsFiniteSet(Y) /\ IsFiniteSet(A)
  BY FS_Difference, FS_Subset
<1> HIDE DEF X, Y
<1>3. IsFiniteSet(X) /\ Cardinality(X) = Cardinality(Y) - Cardinality(A)
  <2>1. Y \cap A = A
    BY <1>1
  <2>2. IsFiniteSet(Y \ A) /\ Cardinality(Y \ A) = Cardinality(Y) - Cardinality(Y \cap A)
    BY <1>2, FS_Difference
  <2> QED BY <1>1, <2>1, <2>2
<1>4. Cardinality(X) \in Nat /\ Cardinality(Y) \in Nat /\ Cardinality(D) \in Nat /\ Cardinality(A) \in Nat
  BY <1>2, <1>3, FS_CardinalityType
<1>5. Cardinality(A) >= 1 \/ Cardinality(D) >= 1
  BY <1>2, <1>4, FS_EmptySet
<1>6. Cardinality(X) + 1 <= Cardinality(Y) + Cardinality(D)
  BY <1>3, <1>4, <1>5
<1> QED BY <1>4, <1>6 DEF X, Y

\* One more call takes changes out.
LEMMA PairsGrow ==
  ASSUME NEW U, NEW a, NEW D, IsFiniteSet(U), IsFiniteSet(D), \A x \in D : <<a, x>> \notin U
  PROVE  /\ IsFiniteSet(U \cup ({a} \X D)) /\ Cardinality(U) \in Nat
         /\ Cardinality(U \cup ({a} \X D)) = Cardinality(U) + Cardinality(D)
<1>1. IsFiniteSet({a}) /\ Cardinality({a}) = 1 /\ Cardinality(D) \in Nat /\ Cardinality(U) \in Nat
  BY FS_Singleton, FS_CardinalityType
<1> DEFINE P == {a} \X D
<1>2. IsFiniteSet(P) /\ Cardinality(P) = Cardinality({a}) * Cardinality(D)
  BY <1>1, FS_Product
<1>3. U \cap P = {}
  OBVIOUS
<1> HIDE DEF P
<1>4. IsFiniteSet(U \cup P) /\ Cardinality(U \cup P) = Cardinality(U) + Cardinality(P) - Cardinality(U \cap P)
  BY <1>2, FS_Union
<1>5. Cardinality(P) = Cardinality(D)
  <2>1. Cardinality(P) = 1 * Cardinality(D)
    BY <1>1, <1>2
  <2> QED BY <1>1, <2>1
<1>6. Cardinality(U \cap P) = 0
  BY <1>3, FS_EmptySet
<1> QED BY <1>1, <1>4, <1>5, <1>6 DEF P

\* Changes that were each taken out are no more than what was taken out.
LEMMA PairsCover ==
  ASSUME NEW U, NEW B, NEW S, IsFiniteSet(U), \A x \in S : \E b \in B : <<b, x>> \in U
  PROVE  IsFiniteSet(S) /\ Cardinality(S) \in Nat /\ Cardinality(U) \in Nat /\ Cardinality(S) <= Cardinality(U)
<1> DEFINE V == {u \in U : \E b \in B, x \in S : u = <<b, x>>}
           f == [v \in V |-> v[2]]
<1>1. IsFiniteSet(V) /\ Cardinality(V) <= Cardinality(U)
  <2>1. V \in SUBSET U
    OBVIOUS
  <2> QED BY <2>1, FS_Subset
<1>2. f \in Surjection(V, S)
  <2>1. f \in [V -> S]
    OBVIOUS
  <2>2. ASSUME NEW x \in S PROVE \E v \in V : f[v] = x
    <3>1. PICK b \in B : <<b, x>> \in U
      OBVIOUS
    <3>2. <<b, x>> \in V /\ f[<<b, x>>] = x
      BY <3>1
    <3> QED BY <3>2
  <2> QED BY <2>1, <2>2 DEF Surjection
<1> HIDE DEF V, f
<1>3. IsFiniteSet(S) /\ Cardinality(S) <= Cardinality(V)
  BY <1>1, <1>2, FS_Surjection
<1>4. Cardinality(S) \in Nat /\ Cardinality(U) \in Nat /\ Cardinality(V) \in Nat
  BY <1>1, <1>3, FS_CardinalityType
<1> QED BY <1>1, <1>3, <1>4

LEMMA PatchCounts ==
  ASSUME TreeTypes, NEW r \in Runs
  PROVE  /\ IsFiniteSet({a \in Approvers : Recording(a, r)}) /\ approvals[r] \in Nat
         /\ Cardinality({a \in Approvers : Recording(a, r)}) \in Nat /\ Patches(r) \in Nat
         /\ ~Vouched(r) => Patches(r) = 0
<1> DEFINE S == {a \in Approvers : Recording(a, r)}
<1>1. IsFiniteSet(Approvers)
  BY ApprovalAssumption, FS_Interval DEF Approvers
<1>2. IsFiniteSet(S) /\ Cardinality(S) \in Nat
  <2>1. S \in SUBSET Approvers
    OBVIOUS
  <2> HIDE DEF S
  <2> QED BY <1>1, <2>1, FS_Subset, FS_CardinalityType
<1>3. approvals[r] \in Nat
  BY DEF TreeTypes
<1>4. ~Vouched(r) => approvals[r] = 0 /\ S = {}
  BY <1>3 DEF Vouched
<1>5. Cardinality({}) = 0
  BY FS_EmptySet
<1>6. Patches(r) = approvals[r] + Cardinality(S)
  BY DEF Patches
<1> HIDE DEF S
<1>7. Patches(r) \in Nat /\ (~Vouched(r) => Patches(r) = 0)
  <2>1. Patches(r) \in Nat
    BY <1>2, <1>3, <1>6
  <2>2. CASE ~Vouched(r)
    <3>1. Cardinality(S) = 0 /\ approvals[r] = 0
      BY <1>4, <1>5, <2>2
    <3>2. Patches(r) = 0
      BY <1>6, <3>1
    <3> QED BY <2>1, <3>2
  <2> QED BY <2>1, <2>2
<1> QED BY <1>2, <1>3, <1>7 DEF S

LEMMA TreesStart == Init => TreeInv
<1> SUFFICES ASSUME Init PROVE TreeInv
  OBVIOUS
<1>1. /\ repo = {} /\ undone = {} /\ \A r \in Runs : files[r] = {} /\ approvals[r] = 0
      /\ \A a \in Approvers : approver[a].adds = {} /\ approver[a].at = "none"
  BY DEF Init, Nobody
<1>2. TreesAreFinite
  BY <1>1, FS_EmptySet DEF TreesAreFinite
<1>3. UndoneOnce /\ ChangesAreVouched
  BY <1>1 DEF UndoneOnce, ChangesAreVouched
<1>4. (\A a \in Approvers : ReadyToApply(a)) /\ \A r \in Runs : ~Vouched(r)
  BY <1>1 DEF ReadyToApply, Vouched, Recording
<1> QED BY <1>2, <1>3, <1>4 DEF TreeInv, PatchesAreCounted

\* A run that is up for approval, or has been approved, has no worker, who alone
\* changes its workspace.
LEMMA NobodyAtWork ==
  ASSUME AgentInv, NEW r \in Runs \ lost, Vouched(r) \/ \E a \in Approvers : Approving(a, r)
  PROVE  \A w \in Workers : ~Holds(w, r)
<1>1. HeldRightly(r)
  BY DEF AgentInv, RunInv
<1>2. row[r].status \in {"waiting_approval", "succeeded"}
  BY <1>1 DEF HeldRightly, Vouched, Recording, Approving
<1> QED BY <1>1, <1>2 DEF HeldRightly, Active

\* The workers: a workspace becomes a copy of the repository, or gets the change of
\* its own run.
LEMMA WorkspacesChange ==
  ASSUME AgentInv, TreeInv, UNCHANGED <<repo, approver, approvals, undone>>, lost \subseteq lost',
         \A r \in Runs : files'[r] \subseteq files[r] \cup repo \cup {r},
         \A r \in Runs : files'[r] # files[r] => \E w \in Workers : Holds(w, r)
  PROVE  TreeInv'
<1>1. TreesAreFinite'
  <2>1. ASSUME NEW r \in Runs PROVE IsFiniteSet(files'[r])
    <3>1. IsFiniteSet(files[r]) /\ IsFiniteSet(repo) /\ IsFiniteSet({r})
      BY FS_Singleton DEF TreeInv, TreesAreFinite
    <3>2. IsFiniteSet((files[r] \cup repo) \cup {r})
      BY <3>1, FS_Union
    <3> QED BY <3>2, FS_Subset
  <2> QED BY <2>1 DEF TreeInv, TreesAreFinite
<1>2. \A r \in Runs : Vouched(r)' <=> Vouched(r)
  BY DEF Vouched, Recording
<1>3. \A r \in Runs : Patches(r)' = Patches(r)
  BY DEF Patches, Recording
<1>4. UndoneOnce' /\ ChangesAreVouched'
  BY <1>2 DEF TreeInv, UndoneOnce, ChangesAreVouched
<1>5. ASSUME NEW r \in Runs \ lost, Vouched(r) \/ \E a \in Approvers : Approving(a, r)
      PROVE  files'[r] = files[r]
  BY <1>5, NobodyAtWork
<1>6. ASSUME NEW a \in Approvers, approver[a].at = "apply", approver[a].run \notin lost'
      PROVE  Prepared(files[approver[a].run], approver[a].adds, approver[a].drops)'
  <2>1. approver[a].run \in Runs
    BY <1>6 DEF AgentInv, Types, CallTypes, CallRecord, IdleRecord
  <2>2. Prepared(files[approver[a].run], approver[a].adds, approver[a].drops)
    BY <1>6 DEF TreeInv, ReadyToApply
  <2>3. files'[approver[a].run] = files[approver[a].run]
    BY <1>5, <1>6, <2>1 DEF Approving
  <2> QED BY <2>2, <2>3 DEF Prepared, Kept
<1>7. ASSUME NEW r \in Runs \ lost' PROVE PatchesAreCounted(r)'
  <2>1. PatchesAreCounted(r)
    BY DEF TreeInv
  <2>2. Vouched(r) => files'[r] = files[r]
    BY <1>5
  <2> QED BY <1>2, <1>3, <2>1, <2>2 DEF PatchesAreCounted, Kept
<1> QED BY <1>1, <1>4, <1>6, <1>7 DEF TreeInv, ReadyToApply

\* The calls that leave both trees alone.
LEMMA CallGoesOn ==
  ASSUME AgentInv, TreeInv, NEW a \in Approvers, NEW x, Call(a, x), approver[a].at # "record", x.at # "record",
         UNCHANGED <<repo, files, approvals, undone, lost>>, IsFiniteSet(x.adds),
         approver[a].at # "done" /\ (approver[a].at = "succeed" => x.at = "done"),
         \A r \in Runs : r \in x.adds /\ x.run # r => Vouched(r),
         x.at = "apply" /\ x.run \notin lost => Prepared(files[x.run], x.adds, x.drops)
  PROVE  TreeInv'
<1>1. approver'[a] = x /\ \A b \in Approvers : b # a => approver'[b] = approver[b]
  BY DEF Call, AgentInv, Types, CallTypes
<1>2. \A b \in Approvers, r \in Runs : Recording(b, r)' <=> Recording(b, r)
  BY <1>1 DEF Recording
<1>3. \A r \in Runs : (Vouched(r)' <=> Vouched(r)) /\ Patches(r)' = Patches(r)
  <2> SUFFICES ASSUME NEW r \in Runs PROVE (Vouched(r)' <=> Vouched(r)) /\ Patches(r)' = Patches(r)
    OBVIOUS
  <2>1. {b \in Approvers : Recording(b, r)}' = {b \in Approvers : Recording(b, r)}
    BY <1>2
  <2> QED BY <1>2, <2>1 DEF Vouched, Patches
<1>4. \A y : Kept(y)' <=> Kept(y)
  BY DEF Kept
<1>5. TreesAreFinite'
  BY <1>1 DEF TreeInv, TreesAreFinite
<1>6. UndoneOnce'
  BY <1>1 DEF TreeInv, UndoneOnce
<1>7. ChangesAreVouched'
  BY <1>1, <1>3 DEF TreeInv, ChangesAreVouched
<1>8. \A b \in Approvers : ReadyToApply(b)'
  BY <1>1, <1>4 DEF TreeInv, ReadyToApply, Prepared
<1>9. \A r \in Runs \ lost' : PatchesAreCounted(r)'
  BY <1>3, <1>4 DEF TreeInv, PatchesAreCounted
<1> QED BY <1>5, <1>6, <1>7, <1>8, <1>9 DEF TreeInv

LEMMA ApprovalChecked ==
  ASSUME AgentInv, TreeInv, NEW a \in Approvers, CheckStatus(a)
  PROVE  TreeInv'
<1>1. PICK r \in Runs : Call(a, [Nobody EXCEPT !.at = "compare", !.run = r])
  BY DEF CheckStatus
<1> DEFINE x == [Nobody EXCEPT !.at = "compare", !.run = r]
<1>2. x.at = "compare" /\ x.adds = {} /\ Call(a, x)
  BY <1>1 DEF Nobody
<1>3. UNCHANGED <<repo, files, approvals, undone, lost>> /\ approver[a].at = "none"
  BY DEF CheckStatus, treeVars, SameRuns, runVars
<1> HIDE DEF x
<1> QED BY <1>2, <1>3, CallGoesOn, FS_EmptySet

LEMMA PatchCreated ==
  ASSUME AgentInv, TreeInv, NEW a \in Approvers, CreateWorkspacePatch(a)
  PROVE  TreeInv'
<1> DEFINE tree == files[approver[a].run]  adds == tree \ repo  drops == repo \ tree
           gone == [Nobody EXCEPT !.at = "done"]
           x == [approver[a] EXCEPT !.at = "apply", !.adds = adds, !.drops = drops]
<1>1. UNCHANGED <<repo, files, approvals, undone, lost>> /\ approver[a].at = "compare"
  BY DEF CreateWorkspacePatch, treeVars, SameRuns, runVars
<1>2. approver[a] \in CallRecord
  BY <1>1 DEF AgentInv, Types, CallTypes, IdleRecord
<1>3. CASE tree = repo
  <2>1. gone.at = "done" /\ gone.adds = {} /\ Call(a, gone)
    BY <1>3 DEF CreateWorkspacePatch, Gone, Nobody
  <2> HIDE DEF gone
  <2> QED BY <1>1, <2>1, CallGoesOn, FS_EmptySet
<1>4. CASE tree # repo
  <2>1. Call(a, x)
    BY <1>4 DEF CreateWorkspacePatch
  <2>2. approver[a].run \in Runs /\ IsFiniteSet(tree)
    BY <1>2 DEF CallRecord, TreeInv, TreesAreFinite
  <2>3. IsFiniteSet(adds)
    <3> HIDE DEF tree
    <3> QED BY <2>2, FS_Difference
  <2>4. Prepared(tree, adds, drops)
    BY <1>4 DEF Prepared, Kept
  <2>5. \A r \in Runs : r \in adds /\ approver[a].run # r => Vouched(r)
    BY <2>2 DEF TreeInv, ChangesAreVouched
  <2> HIDE DEF adds, drops
  <2>6. x.at = "apply" /\ x.run = approver[a].run /\ x.adds = adds /\ x.drops = drops
    BY <1>2 DEF CallRecord
  <2> HIDE DEF x
  <2> QED BY <1>1, <2>1, <2>3, <2>4, <2>5, <2>6, CallGoesOn
<1> QED BY <1>3, <1>4

LEMMA ApprovalEnds ==
  ASSUME AgentInv, TreeInv, NEW a \in Approvers, Gone(a), approver[a].at \in {"apply", "succeed"},
         UNCHANGED <<repo, files, approvals, undone, lost>>
  PROVE  TreeInv'
<1> DEFINE gone == [Nobody EXCEPT !.at = "done"]
<1>1. gone.at = "done" /\ gone.adds = {} /\ Call(a, gone)
  BY DEF Gone, Nobody
<1> HIDE DEF gone
<1> QED BY <1>1, CallGoesOn, FS_EmptySet

\* The row of agent_approvals takes the place of the call that will write it.
LEMMA ApprovalRecorded ==
  ASSUME AgentInv, TreeInv, NEW a \in Approvers, RecordApproval(a)
  PROVE  TreeInv'
<1> DEFINE r == approver[a].run
<1>1. /\ UNCHANGED <<repo, files, undone, lost>> /\ approver[a].at = "record"
      /\ approvals' = [approvals EXCEPT ![r] = @ + 1]
  BY DEF RecordApproval, treeVars, SameRuns, runVars
<1>2. approver[a] \in CallRecord /\ r \in Runs /\ TreeTypes
  BY <1>1 DEF AgentInv, Types, CallTypes, IdleRecord, CallRecord
<1>3. /\ approver'[a].at = "succeed" /\ approver'[a].run = r /\ approver'[a].adds = approver[a].adds
      /\ \A b \in Approvers : b # a => approver'[b] = approver[b]
  BY <1>2 DEF RecordApproval, Call, CallRecord, AgentInv, Types, CallTypes
<1> HIDE DEF r
<1>4. Recording(a, r) /\ \A b \in Approvers, s \in Runs : Recording(b, s)' <=> Recording(b, s) /\ b # a
  BY <1>1, <1>3 DEF Recording, r
<1>5. ASSUME NEW s \in Runs PROVE (Vouched(s)' <=> Vouched(s)) /\ Patches(s)' = Patches(s)
  <2> DEFINE S == {b \in Approvers : Recording(b, s)}
  <2>1. IsFiniteSet(S) /\ Cardinality(S) \in Nat /\ approvals[s] \in Nat
    BY <1>2, PatchCounts
  <2>2. {b \in Approvers : Recording(b, s)}' = S \ {a}
    BY <1>4
  <2>3. CASE s = r
    <3>1. a \in S
      BY <1>4, <2>3
    <3> HIDE DEF S
    <3>2. Cardinality(S \ {a}) = Cardinality(S) - 1
      BY <2>1, <3>1, FS_RemoveElement
    <3>3. approvals'[s] = approvals[s] + 1
      BY <1>1, <1>2, <2>3 DEF TreeTypes
    <3>4. approvals'[s] + Cardinality(S \ {a}) = approvals[s] + Cardinality(S)
      BY <2>1, <3>2, <3>3
    <3>5. Vouched(s) /\ Vouched(s)'
      BY <1>4, <2>1, <2>3, <3>3 DEF Vouched
    <3> QED BY <2>2, <3>4, <3>5 DEF Patches, S
  <2>4. CASE s # r
    <3>1. approvals'[s] = approvals[s]
      BY <1>1, <1>2, <2>4 DEF TreeTypes
    <3>2. S \ {a} = S
      BY <1>1, <1>3, <2>4 DEF Recording, r
    <3>3. \A b \in Approvers : Recording(b, s)' <=> Recording(b, s)
      BY <2>2, <3>2
    <3> QED BY <2>2, <3>1, <3>2, <3>3 DEF Patches, Vouched
  <2> QED BY <2>3, <2>4
<1>6. \A y : Kept(y)' <=> Kept(y)
  BY <1>1 DEF Kept
<1>7. TreesAreFinite' /\ UndoneOnce'
  BY <1>1, <1>3 DEF TreeInv, TreesAreFinite, UndoneOnce
<1>8. ChangesAreVouched'
  BY <1>1, <1>3, <1>5 DEF TreeInv, ChangesAreVouched, r
<1>9. \A b \in Approvers : ReadyToApply(b)'
  BY <1>1, <1>3, <1>6 DEF TreeInv, ReadyToApply, Prepared
<1>10. \A s \in Runs \ lost' : PatchesAreCounted(s)'
  BY <1>1, <1>5, <1>6 DEF TreeInv, PatchesAreCounted
<1> QED BY <1>7, <1>8, <1>9, <1>10 DEF TreeInv

\* The patch is applied: what it takes out is counted, and either somebody's change
\* goes or the repository comes closer to the workspace.
LEMMA PatchApplied ==
  ASSUME AgentInv, TreeInv, NEW a \in Approvers, ApplyPatch(a), Applies(a)
  PROVE  TreeInv'
<1> DEFINE r == approver[a].run  A == approver[a].adds  D == approver[a].drops
<1>1. /\ approver[a] \in CallRecord /\ approver[a].at = "apply" /\ TreeTypes
      /\ UNCHANGED <<files, approvals, lost>>
      /\ A \cap repo = {} /\ D \subseteq repo
      /\ repo' = (repo \ D) \cup A /\ undone' = undone \cup ({a} \X D)
  <2>1. Patched(a) /\ approver[a].at = "apply" /\ UNCHANGED <<files, approvals, lost>>
    BY DEF ApplyPatch, SameRuns, runVars
  <2>2. repo \cap D = D
    BY DEF Applies
  <2> QED BY <2>1, <2>2 DEF AgentInv, Types, CallTypes, IdleRecord, Applies, Patched
<1>2. r \in Runs /\ A \subseteq Runs /\ D \subseteq Runs
  BY <1>1 DEF CallRecord
<1>3. /\ approver'[a].at = "record" /\ approver'[a].run = r /\ approver'[a].adds = A
      /\ \A b \in Approvers : b # a => approver'[b] = approver[b]
  BY <1>1 DEF ApplyPatch, Call, CallRecord, AgentInv, Types, CallTypes
<1>4. ReadyToApply(a)
  BY DEF TreeInv
<1>5. r \notin lost => Prepared(files[r], A, D)
  BY <1>1, <1>4 DEF ReadyToApply
<1>6. Recording(a, r)' /\ \A b \in Approvers, s \in Runs : Recording(b, s)' <=> Recording(b, s) \/ (b = a /\ s = r)
  BY <1>1, <1>3 DEF Recording
<1> HIDE DEF r, A, D
<1>7. \A x \in A : Kept(x)'
  BY <1>1 DEF Kept
<1>8. \A x : Kept(x) => Kept(x)'
  BY <1>1 DEF Kept
<1>9. IsFiniteSet(D) /\ IsFiniteSet(A) /\ IsFiniteSet(undone) /\ IsFiniteSet(repo)
  BY <1>1, FS_Subset DEF TreeInv, TreesAreFinite, A
<1>10. /\ IsFiniteSet(undone') /\ Cardinality(undone) \in Nat /\ Cardinality(undone') \in Nat
       /\ Cardinality(D) \in Nat /\ Cardinality(undone') = Cardinality(undone) + Cardinality(D)
  <2>1. \A x \in D : <<a, x>> \notin undone
    BY <1>1, <1>2 DEF TreeInv, UndoneOnce
  <2>2. /\ IsFiniteSet(undone') /\ Cardinality(undone) \in Nat
        /\ Cardinality(undone') = Cardinality(undone) + Cardinality(D)
    BY <1>1, <1>9, <2>1, PairsGrow
  <2> QED BY <1>9, <2>2, FS_CardinalityType
<1>11. IsFiniteSet(repo')
  BY <1>1, <1>9, FS_Difference, FS_Union
<1>12. TreesAreFinite'
  BY <1>1, <1>3, <1>10, <1>11 DEF TreeInv, TreesAreFinite, A
<1>13. UndoneOnce'
  <2> SUFFICES ASSUME NEW b \in Approvers, NEW x \in Runs, <<b, x>> \in undone'
               PROVE  approver'[b].at \in {"record", "succeed", "done"}
    BY DEF UndoneOnce
  <2>1. CASE b = a
    BY <1>3, <2>1
  <2>2. CASE b # a
    <3>1. <<b, x>> \in undone
      BY <1>1, <2>2
    <3> QED BY <1>3, <2>2, <3>1 DEF TreeInv, UndoneOnce
  <2> QED BY <2>1, <2>2
<1>14. \A s \in Runs : Vouched(s)' <=> Vouched(s) \/ s = r
  BY <1>1, <1>6 DEF Vouched
<1>15. ChangesAreVouched'
  <2> SUFFICES ASSUME NEW s \in Runs
               PROVE  /\ s \in repo' => Vouched(s)'
                      /\ \A q \in Runs : s \in files'[q] /\ q # s => Vouched(s)'
                      /\ \A b \in Approvers : s \in approver'[b].adds /\ approver'[b].run # s => Vouched(s)'
    BY DEF ChangesAreVouched
  <2>1. /\ s \in repo => Vouched(s)
        /\ \A q \in Runs : s \in files[q] /\ q # s => Vouched(s)
        /\ \A b \in Approvers : s \in approver[b].adds /\ approver[b].run # s => Vouched(s)
    BY DEF TreeInv, ChangesAreVouched
  <2>2. s \in A /\ s # r => Vouched(s)
    BY <2>1 DEF A, r
  <2>3. \A b \in Approvers : approver'[b].adds = approver[b].adds /\ approver'[b].run = approver[b].run
    BY <1>3 DEF A, r
  <2> QED BY <1>1, <1>14, <2>1, <2>2, <2>3
<1>16. \A b \in Approvers : ReadyToApply(b)'
  <2> SUFFICES ASSUME NEW b \in Approvers, approver'[b].at = "apply", approver'[b].run \notin lost
               PROVE  Prepared(files[approver[b].run], approver[b].adds, approver[b].drops)' /\ b # a
    BY <1>1, <1>3 DEF ReadyToApply
  <2>1. b # a /\ approver'[b] = approver[b]
    BY <1>3
  <2>2. Prepared(files[approver[b].run], approver[b].adds, approver[b].drops)
    BY <2>1 DEF TreeInv, ReadyToApply
  <2> QED BY <1>1, <1>8, <2>1, <2>2 DEF Prepared
<1>17. ASSUME NEW s \in Runs \ lost PROVE PatchesAreCounted(s)'
  <2> DEFINE S == {b \in Approvers : Recording(b, s)}  T == files[s]
  <2>1. PatchesAreCounted(s) /\ IsFiniteSet(T) /\ T \subseteq Runs
    BY <1>1 DEF TreeInv, TreesAreFinite, TreeTypes
  <2>2. /\ IsFiniteSet(S) /\ Cardinality(S) \in Nat /\ approvals[s] \in Nat /\ Patches(s) \in Nat
        /\ ~Vouched(s) => Patches(s) = 0
    BY <1>1, PatchCounts
  <2>3. CASE s # r
    <3>1. {b \in Approvers : Recording(b, s)}' = S
      BY <1>6, <2>3
    <3>2. Patches(s)' = Patches(s)
      BY <1>1, <3>1 DEF Patches
    <3> SUFFICES ASSUME Vouched(s)
                 PROVE  Patches(s) + Cardinality(T \ repo') <= 1 + Cardinality(undone')
                          /\ \A x \in T : Kept(x)'
      BY <1>1, <1>14, <2>3, <3>2 DEF PatchesAreCounted
    <3>3. Patches(s) + Cardinality(T \ repo) <= 1 + Cardinality(undone) /\ \A x \in T : Kept(x)'
      BY <1>8, <2>1 DEF PatchesAreCounted
    <3> HIDE DEF T
    <3>4. /\ Cardinality(T \ repo') \in Nat /\ Cardinality(T \ repo) \in Nat
          /\ Cardinality(T \ repo') <= Cardinality(T \ repo) + Cardinality(D)
      BY <1>1, <1>9, <2>1, DifferenceGrows
    <3>5. Patches(s) + Cardinality(T \ repo') <= 1 + Cardinality(undone')
      BY <1>10, <2>2, <3>3, <3>4
    <3> QED BY <3>3, <3>5
  <2>4. CASE s = r
    <3>1. Patches(s)' = Patches(s) + 1
      <4>1. {b \in Approvers : Recording(b, s)}' = S \cup {a} /\ a \notin S
        BY <1>1, <1>6, <2>4 DEF Recording
      <4> HIDE DEF S
      <4>2. Cardinality(S \cup {a}) = Cardinality(S) + 1
        BY <2>2, <4>1, FS_AddElement
      <4>3. Patches(s) = approvals[s] + Cardinality(S) /\ Patches(s)' = approvals[s] + Cardinality(S \cup {a})
        BY <1>1, <4>1 DEF Patches, S
      <4> QED BY <2>2, <4>2, <4>3
    <3>2. Prepared(T, A, D)
      BY <1>5, <2>4
    <3>3. \A x \in T : Kept(x)'
      BY <1>7, <1>8, <3>2 DEF Prepared
    <3>4. A \subseteq T /\ D \cap T = {} /\ A \cup D # {}
      BY <3>2 DEF Prepared
    <3>5. Vouched(s) => Patches(s) + Cardinality(T \ repo) <= 1 + Cardinality(undone)
      BY <2>1 DEF PatchesAreCounted
    <3> SUFFICES Patches(s) + 1 + Cardinality(T \ repo') <= 1 + Cardinality(undone')
      BY <1>1, <3>1, <3>3 DEF PatchesAreCounted
    <3> HIDE DEF T
    <3>6. CASE Vouched(s)
      <4>1. /\ Cardinality(T \ repo') \in Nat /\ Cardinality(T \ repo) \in Nat
            /\ Cardinality(T \ repo') + 1 <= Cardinality(T \ repo) + Cardinality(D)
        BY <1>1, <1>9, <2>1, <3>4, DifferenceShrinks
      <4>2. Patches(s) + Cardinality(T \ repo) <= 1 + Cardinality(undone)
        BY <3>5, <3>6
      <4> QED BY <1>10, <2>2, <4>1, <4>2
    <3>7. CASE ~Vouched(s)
      <4>1. \A x \in T \ repo' : \E b \in Approvers : <<b, x>> \in undone'
        BY <3>3 DEF Kept
      <4>2. Cardinality(T \ repo') \in Nat /\ Cardinality(T \ repo') <= Cardinality(undone')
        BY <1>10, <4>1, PairsCover
      <4> QED BY <1>10, <2>2, <3>7, <4>2
    <3> QED BY <3>6, <3>7
  <2> QED BY <2>3, <2>4
<1> QED BY <1>1, <1>12, <1>13, <1>15, <1>16, <1>17 DEF TreeInv

\* Nothing takes a lost update back.
LEMMA LostGrows == AgentInv /\ Next => lost \subseteq lost'
<1> SUFFICES ASSUME Next PROVE lost \subseteq lost'
  OBVIOUS
<1>1. CASE ApiStep
  BY <1>1 DEF ApiStep, CreateRun, ReadForConfig, WriteConfig, ReadForCancel, KillProcess, CancelRun,
     WriteBack, SetStatus, ClearPid, rowVars
<1>2. CASE WorkerStep
  BY <1>2 DEF WorkerStep, ClaimNextRun, ReadRow, WriteRow, Spawn, HookReads, HookWrites, CommandKilled,
     CommandFails, StepFails, AskForApproval, WorkerCrash, FinishHook, WriteBack, SetStatus, ClearPid, rowVars
<1>3. ASSUME NEW w \in Workers, CreateWorkspace(w) \/ \E pass, changes \in BOOLEAN : ProviderEnds(w, pass, changes)
      PROVE  lost' = lost
  BY <1>3 DEF CreateWorkspace, ProviderEnds, CommandEnds, rowVars
<1>4. ASSUME NEW a \in Approvers,
             CheckStatus(a) \/ CreateWorkspacePatch(a) \/ ApplyPatch(a) \/ RecordApproval(a) \/ Succeed(a)
      PROVE  lost' = lost
  BY <1>4 DEF CheckStatus, CreateWorkspacePatch, ApplyPatch, RecordApproval, Succeed, SetStatus, SameRuns, runVars
<1> QED BY <1>1, <1>2, <1>3, <1>4 DEF Next

LEMMA TreesStep == AgentInv /\ TreeInv /\ [Next]_vars => TreeInv'
<1> SUFFICES ASSUME AgentInv, TreeInv, [Next]_vars PROVE TreeInv'
  OBVIOUS
<1>1. CASE (ApiStep \/ WorkerStep) /\ SameTrees /\ Next
  <2>1. lost \subseteq lost' /\ UNCHANGED <<repo, files, approver, approvals, undone>>
    BY <1>1, LostGrows DEF SameTrees, treeVars, approvalVars
  <2> QED BY <2>1, WorkspacesChange
<1>2. ASSUME NEW w \in Workers, CreateWorkspace(w) PROVE TreeInv'
  <2> DEFINE r == worker[w].run
  <2>1. /\ UNCHANGED <<repo, approver, approvals, undone, lost>> /\ Holds(w, r)
        /\ files' = files \/ files' = [files EXCEPT ![r] = repo]
    BY <1>2 DEF CreateWorkspace, approvalVars, rowVars, Holds
  <2>2. \A q \in Runs : files'[q] = files[q] \/ (q = r /\ files'[q] = repo)
    BY <2>1 DEF AgentInv, Types, TreeTypes
  <2> QED BY <2>1, <2>2, WorkspacesChange
<1>3. ASSUME NEW w \in Workers, NEW pass \in BOOLEAN, NEW changes \in BOOLEAN, ProviderEnds(w, pass, changes)
      PROVE  TreeInv'
  <2> DEFINE r == worker[w].run
  <2>1. /\ UNCHANGED <<repo, approver, approvals, undone, lost>> /\ Holds(w, r)
        /\ files' = files \/ files' = [files EXCEPT ![r] = @ \cup {r}]
    BY <1>3 DEF ProviderEnds, CommandEnds, approvalVars, rowVars, Holds
  <2>2. \A q \in Runs : files'[q] = files[q] \/ (q = r /\ files'[q] = files[q] \cup {q})
    BY <2>1 DEF AgentInv, Types, TreeTypes
  <2> QED BY <2>1, <2>2, WorkspacesChange
<1>4. ASSUME NEW a \in Approvers, CheckStatus(a) \/ CreateWorkspacePatch(a) \/ RecordApproval(a)
      PROVE  TreeInv'
  BY <1>4, ApprovalChecked, PatchCreated, ApprovalRecorded
<1>5. ASSUME NEW a \in Approvers, ApplyPatch(a) PROVE TreeInv'
  <2>1. CASE Applies(a)
    BY <1>5, <2>1, PatchApplied
  <2>2. CASE ~Applies(a)
    <3>1. Gone(a) /\ approver[a].at = "apply" /\ UNCHANGED <<repo, files, approvals, undone, lost>>
      BY <1>5, <2>2 DEF ApplyPatch, SameRuns, runVars
    <3> QED BY <3>1, ApprovalEnds
  <2> QED BY <2>1, <2>2
<1>6. ASSUME NEW a \in Approvers, Succeed(a) PROVE TreeInv'
  <2>1. Gone(a) /\ approver[a].at = "succeed" /\ UNCHANGED <<repo, files, approvals, undone, lost>>
    BY <1>6 DEF Succeed, SetStatus, treeVars
  <2> QED BY <2>1, ApprovalEnds
<1>7. CASE UNCHANGED vars
  <2>1. UNCHANGED <<repo, files, approver, approvals, undone, lost>>
    BY <1>7 DEF vars, runVars
  <2> QED BY <2>1, WorkspacesChange
<1> QED BY <1>1, <1>2, <1>3, <1>4, <1>5, <1>6, <1>7 DEF Next

LEMMA TreesInductive == Spec => [](AgentInv /\ TreeInv)
BY AgentStarts, AgentStep, TreesStart, TreesStep, PTL DEF Spec

LEMMA PatchedOnceHolds == AgentInv /\ TreeInv => PatchedOnce
<1> SUFFICES ASSUME AgentInv, TreeInv, NEW r \in Runs \ lost PROVE Patches(r) <= 1 + Cardinality(undone)
  BY DEF PatchedOnce, Patches
<1>1. Patches(r) \in Nat /\ (~Vouched(r) => Patches(r) = 0)
  BY PatchCounts DEF AgentInv, Types
<1>2. IsFiniteSet(files[r]) /\ IsFiniteSet(undone)
  BY DEF TreeInv, TreesAreFinite
<1>3. IsFiniteSet(files[r] \ repo)
  BY <1>2, FS_Difference
<1>4. Cardinality(files[r] \ repo) \in Nat /\ Cardinality(undone) \in Nat
  BY <1>2, <1>3, FS_CardinalityType
<1>5. CASE Vouched(r)
  <2>1. Patches(r) + Cardinality(files[r] \ repo) <= 1 + Cardinality(undone)
    BY <1>5 DEF TreeInv, PatchesAreCounted
  <2> QED BY <1>1, <1>4, <2>1
<1> QED BY <1>1, <1>4, <1>5

LEMMA ApprovedHolds == AgentInv /\ TreeInv => RepositoryIsApproved
<1> SUFFICES ASSUME AgentInv, TreeInv PROVE RepositoryIsApproved
  OBVIOUS
<1>1. \A r \in repo : Vouched(r)
  BY DEF TreeInv, ChangesAreVouched, AgentInv, Types, TreeTypes
<1>2. ASSUME NEW r \in Runs \ lost, row[r].status = "succeeded", NEW x \in files[r] \ repo
      PROVE  \E a \in Approvers : <<a, x>> \in undone
  <2>1. Vouched(r)
    BY <1>2 DEF AgentInv, RunInv, HeldRightly, Vouched
  <2> QED BY <2>1 DEF TreeInv, PatchesAreCounted, Kept
<1> QED BY <1>1, <1>2 DEF RepositoryIsApproved, Vouched

\* The repository has the changes of approved runs and no others, each patch after the
\* first of a run is made up for by a change that another approval took out, and what a
\* succeeded run has left is there or was taken out since: of approvals that race each
\* other, the diff of the second is empty or git refuses it (approveRun of
\* agentRun.service.ts, workspaceManager.ts).
THEOREM RepositoryAlwaysSound == Spec => []RepositoryIsSound
<1>1. AgentInv /\ TreeInv => RepositoryIsSound
  BY PatchedOnceHolds, ApprovedHolds DEF RepositoryIsSound
<1> QED BY <1>1, TreesInductive, PTL
=============================================================================

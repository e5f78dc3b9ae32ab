--------------------------- MODULE AgentApproval ---------------------------
(***************************************************************************)
(* The repository, the workspace each run has of it                        *)
(* (workspaceManager.ts), and the approval that brings a workspace back    *)
(* into the repository (agentRun.service.ts), composed with the runs.      *)
(*                                                                         *)
(* The content of a directory is the set of the runs whose change it has;  *)
(* a patch adds some of them and takes some away, and git applies it only  *)
(* to a tree that has none of the first and all of the second.             *)
(***************************************************************************)
EXTENDS AgentRun

CONSTANTS
  Calls,     \* the calls of approveRun, at the most
  Trials     \* the bounds of the behaviours to look at

ASSUME ApprovalAssumption ==
  /\ Calls \in Nat
  /\ \A t \in Trials : t.runs \subseteq Runs /\ t.workers \subseteq Workers /\ t.cancels \in Nat /\ t.most \in Nat
                      /\ t.maxIterations \in Nat \ {0} /\ t.calls \in 0..Calls

\* The callers of approveRun, numbered in the order in which they call.
Approvers == 1..Calls

VARIABLES
  repo,        \* the changes in the repository
  files,       \* the changes in the workspace of each run
  approver,    \* the API call of each approver
  approvals,   \* agent_approvals, and the calls that have still to write theirs
  undone,      \* history: who took which change out of the repository again
  unreviewed,  \* history: the runs with work that no reviewer has seen
  repeated     \* history: the runs a worker took while another was at it

vars == <<runVars, repo, files, approver, approvals, undone, unreviewed, repeated>>
treeVars == <<repo, files, unreviewed>>
approvalVars == <<approver, approvals, undone>>

Nobody == [at |-> "none", run |-> "none", adds |-> {}, drops |-> {}]

Init ==
  /\ trial \in Trials /\ RunInit
  /\ repo = {} /\ files = [r \in Runs |-> {}]
  /\ approver = [a \in Approvers |-> Nobody]
  /\ approvals = [r \in Runs |-> 0] /\ undone = {}
  /\ unreviewed = {} /\ repeated = {}

-----------------------------------------------------------------------------
(* The workspace of a run. *)

\* The first node: a row without a workspace gets a fresh copy of the repository,
\* and what was under its path is removed.
CreateWorkspace(w) ==
  /\ worker[w].at = "index"
  /\ LET r == worker[w].run
     IN  files' = IF row[r].workspace THEN files ELSE [files EXCEPT ![r] = repo]
  /\ Moves(w, [worker[w] EXCEPT !.at = "read"])
  /\ UNCHANGED <<repo, unreviewed, repeated>> /\ UNCHANGED approvalVars
  /\ UNCHANGED rowVars /\ SameApi /\ SameCommands /\ NoFault

\* A command ends; a coder may have changed the workspace.
ProviderEnds(w, pass, changes) ==
  /\ changes => worker[w].step = "implementing"
  /\ CommandEnds(w, pass)
  /\ LET r == worker[w].run
     IN  /\ files' = IF changes THEN [files EXCEPT ![r] = @ \union {r}] ELSE files
         /\ unreviewed' = CASE changes -> unreviewed \union {r}
                            [] worker[w].step = "reviewing" -> unreviewed \ {r}
                            [] OTHER -> unreviewed
  /\ UNCHANGED <<repo, repeated>> /\ UNCHANGED approvalVars

-----------------------------------------------------------------------------
(* approveRun: check, compare the trees, apply the patch, record, succeed. *)

Call(a, next) == approver' = [approver EXCEPT ![a] = next]
SameRuns == UNCHANGED runVars /\ UNCHANGED repeated
Gone(a) == Call(a, [Nobody EXCEPT !.at = "done"])

CheckStatus(a) ==
  /\ a <= trial.calls /\ approver[a].at = "none"
  /\ \A b \in Approvers : b < a => approver[b].at # "none"
  /\ \E r \in Runs :
       /\ row[r].status = "waiting_approval" /\ row[r].workspace
       /\ Call(a, [Nobody EXCEPT !.at = "compare", !.run = r])
  /\ UNCHANGED <<approvals, undone>> /\ UNCHANGED treeVars /\ SameRuns

\* "Workspace diff is empty" is an answer.
CreateWorkspacePatch(a) ==
  /\ approver[a].at = "compare"
  /\ LET tree == files[approver[a].run]
     IN  IF tree = repo THEN Gone(a)
         ELSE Call(a, [approver[a] EXCEPT !.at = "apply", !.adds = tree \ repo, !.drops = repo \ tree])
  /\ UNCHANGED <<approvals, undone>> /\ UNCHANGED treeVars /\ SameRuns

Applies(a) == approver[a].adds \intersect repo = {} /\ approver[a].drops \subseteq repo
Patched(a) ==
  /\ repo' = (repo \ approver[a].drops) \union approver[a].adds
  /\ undone' = undone \union ({a} \X (repo \intersect approver[a].drops))

\* Fault: git may exit with 1, as it may for the diff.
ApplyPatchAnyway(a) ==
  /\ approver[a].at = "apply"
  /\ Patched(a)
  /\ Call(a, [approver[a] EXCEPT !.at = "record"])
  /\ UNCHANGED <<files, unreviewed, approvals>> /\ SameRuns
ApplyPatch(a) ==
  /\ approver[a].at = "apply"
  /\ IF Applies(a) THEN Patched(a) /\ Call(a, [approver[a] EXCEPT !.at = "record"])
                   ELSE Gone(a) /\ UNCHANGED <<repo, undone>>
  /\ UNCHANGED <<files, unreviewed, approvals>> /\ SameRuns

RecordApproval(a) ==
  /\ approver[a].at = "record"
  /\ approvals' = [approvals EXCEPT ![approver[a].run] = @ + 1]
  /\ Call(a, [approver[a] EXCEPT !.at = "succeed"])
  /\ UNCHANGED undone /\ UNCHANGED treeVars /\ SameRuns
Succeed(a) ==
  /\ approver[a].at = "succeed"
  /\ SetStatus(approver[a].run, "succeeded")
  /\ Gone(a)
  /\ UNCHANGED <<approvals, undone, repeated>> /\ UNCHANGED treeVars /\ SameApi
  /\ UNCHANGED workerVars /\ NoFault

-----------------------------------------------------------------------------
(* The whole, and the fairness of processes that go on running.  A command  *)
(* ends within its timeout.                                                 *)

SameTrees == UNCHANGED treeVars /\ UNCHANGED approvalVars
Shared(at) == {r \in Runs : Cardinality({w \in Workers : at[w].run = r}) > 1}
Repeats == repeated' = repeated \union Shared(worker')

Next ==
  \/ ApiStep /\ SameTrees /\ UNCHANGED repeated
  \/ WorkerStep /\ SameTrees /\ Repeats
  \/ \E w \in Workers :
       \/ CreateWorkspace(w)
       \/ \E pass, changes \in BOOLEAN : ProviderEnds(w, pass, changes)
  \/ \E a \in Approvers :
       CheckStatus(a) \/ CreateWorkspacePatch(a) \/ ApplyPatch(a) \/ RecordApproval(a) \/ Succeed(a)

Spec == Init /\ [][Next]_vars

Work ==
  \/ /\ \E r \in Runs : ReadForConfig(r) \/ WriteConfig(r) \/ KillProcess(r) \/ CancelRun(r)
     /\ SameTrees /\ UNCHANGED repeated
  \/ /\ \/ \E w \in Workers :
             \/ ClaimNextRun(w) \/ ReadRow(w) \/ WriteRow(w) \/ Spawn(w) \/ HookReads(w) \/ HookWrites(w)
             \/ CommandKilled(w) \/ AskForApproval(w)
        \/ \E end \in ended : FinishHook(end)
     /\ SameTrees /\ Repeats
  \/ \E w \in Workers :
       CreateWorkspace(w) \/ \E pass, changes \in BOOLEAN : ProviderEnds(w, pass, changes)
FairSpec == Spec /\ WF_vars(Work)

-----------------------------------------------------------------------------
(* Properties. *)

\* The type of every variable.
TypeOK ==
  /\ row \in [Runs -> [status : {"absent", "queued", "waiting_approval", "succeeded", "cancelled"} \union Active,
                       pid : {NoPid} \union (Workers \X Nat), workspace : BOOLEAN, config : BOOLEAN]]
  /\ \A w \in Workers :
       /\ worker[w].run \in Runs \union {"none"}
       /\ worker[w].at \in {"idle", "index", "read", "write", "spawn", "running", "killed", "check"}
       /\ worker[w].step \in {"none", "waiting_approval"} \union Active
       /\ hook[w].at \in {"none", "read", "write"}
  /\ lost \subseteq Runs /\ repeated \subseteq Runs /\ unreviewed \subseteq Runs
  /\ repo \subseteq Runs /\ files \in [Runs -> SUBSET Runs]
  /\ approvals \in [Runs -> Nat] /\ undone \subseteq Approvers \X Runs

\* However often a tester and a reviewer send the work back, a worker runs the
\* coder at least once and fewer times than the limit of the run (a run that is
\* claimed before its configuration is written has the default limit).
CoderIsBounded ==
  \A w \in Workers : worker[w].coded <= Max({1, worker[w].limit - 1})

\* A run is in the hands of two workers only after the write of an API call or of
\* a hook has put back a status it had read earlier (updateRunWorkflow, read and
\* write without a lock); the claim itself never gives a run away twice.
OneWorkerPerRun == repeated \subseteq lost

\* What waits for approval has been before a reviewer since it was last changed,
\* also when the limit of the rounds, and not a verdict, ended the workflow.
WaitingIsReviewed ==
  \A r \in Runs \ lost : row[r].status = "waiting_approval" => r \notin unreviewed

\* A call that has patched the repository, and has still to write that it did.
Recording(a, r) == approver[a].at = "record" /\ approver[a].run = r

\* Approvals of a run that race each other patch the repository once: the diff of
\* the second is empty, or git refuses it.  Only when the runs approved in between
\* have workspaces of another age does the second do something, and then it takes
\* somebody's change out again.
PatchedOnce ==
  \A r \in Runs \ lost :
    approvals[r] + Cardinality({a \in Approvers : Recording(a, r)}) <= 1 + Cardinality(undone)

\* The repository has no change but of a run that was approved, or is about to be
\* recorded as such; and all that is in the workspace of a run that is said to have
\* succeeded is in the repository, unless another approval took it out again.
RepositoryIsApproved ==
  /\ \A r \in repo : approvals[r] > 0 \/ \E a \in Approvers : Recording(a, r)
  /\ \A r \in Runs \ lost : row[r].status = "succeeded" =>
       \A x \in files[r] \ repo : \E a \in Approvers : <<a, x>> \in undone

\* The runs, and the repository, with the type of both.
RunsAreSound == TypeOK /\ CoderIsBounded /\ WaitingIsReviewed
RepositoryIsSound == PatchedOnce /\ RepositoryIsApproved

\* Workers come to the end of each run they have claimed, and no run stays in the
\* queue: the workflow cannot go round for ever.  A lost update can put a run back
\* into the queue, and each claim of it can be followed by the next one.
RunsComeToRest ==
  []<>(\/ lost # {}
       \/ (\A w \in Workers : worker[w].run = "none") /\ \A r \in Runs : row[r].status # "queued")
=============================================================================

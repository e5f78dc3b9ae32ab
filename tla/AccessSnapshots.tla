--------------------------- MODULE AccessSnapshots ---------------------------
(***************************************************************************)
(* The copies of a user's role, status and version that the processes of   *)
(* the API keep (auth-snapshot.cache.ts): one in Redis, fenced by version, *)
(* and one in each process, dropped when a change is announced.  Both      *)
(* expire.  A copy is the version of the users row it was read from.       *)
(***************************************************************************)
EXTENDS Integers

CONSTANTS
  Processes,       \* of the API
  Lookups,         \* requests that may resolve the user at one time
  Changes          \* requests that may change the user at one time

VARIABLES
  version,         \* auth_version of the users row
  shared,          \* the hash in Redis
  local,           \* localSnapshots of each process
  notices,         \* invalidations on their way to each process
  subscriber,      \* of each process: "on", "broken" (to come back) or "off"
  lookup, change,  \* the requests, and the version each has read
  \* History: the copies ("shared" or a process) that a fault has left as they were,
  \* or that a request has filled with what it read before the last change.
  neglected, late,
  trial, faults    \* see WebApi

copies == <<shared, local>>

None == 0
Shared == "shared"
Idle == [step |-> "idle", at |-> None, read |-> None]

AccessInit ==
  /\ version = 1 /\ shared = None
  /\ local = [p \in Processes |-> None]
  /\ notices = [p \in Processes |-> 0] /\ subscriber = [p \in Processes |-> "on"]
  /\ lookup = [l \in Lookups |-> Idle] /\ change = [c \in Changes |-> Idle]
  /\ neglected = {} /\ late = {}

Fault(kind) == kind \in trial.faults /\ faults < trial.most /\ faults' = faults + 1 /\ UNCHANGED trial
NoFault == UNCHANGED <<trial, faults>>
Looking(l, r) == lookup' = [lookup EXCEPT ![l] = r]
Changing(c, r) == change' = [change EXCEPT ![c] = r]

\* Fault: the script writes what it is given.
WriteAny(v) == shared' = v
WriteIfCurrent(v) == shared' = IF shared > v THEN shared ELSE v
\* The script.  An older version may be written when there is none to compare with.
Write(v) ==
  /\ WriteIfCurrent(v)
  /\ neglected' = IF shared' = version THEN neglected \ {Shared} ELSE neglected
  /\ late' = IF shared' = version THEN late \ {Shared}
             ELSE IF shared = None THEN late \cup {Shared} ELSE late
\* The copies there are among those of S.
Kept(S) == {p \in S : local[p] # None}
KeptShared == IF shared = None THEN {} ELSE {Shared}

-----------------------------------------------------------------------------
(* resolveAuthPrincipal.  A copy of the process's own answers at once. *)

Resolve(l, p) ==
  /\ lookup[l] = Idle /\ l \in trial.lookups /\ local[p] = None
  /\ Looking(l, [step |-> "missed", at |-> p, read |-> None])
  /\ UNCHANGED <<version, copies, notices, subscriber, change, neglected, late>> /\ NoFault

ReadAuthSnapshot(l) ==
  /\ lookup[l].step = "missed"
  /\ Looking(l, IF shared = None THEN [lookup[l] EXCEPT !.step = "asking"]
                                 ELSE [lookup[l] EXCEPT !.step = "found", !.read = shared])
  /\ UNCHANGED <<version, copies, notices, subscriber, change, neglected, late>> /\ NoFault
ReadFails(l) ==
  /\ lookup[l].step = "missed" /\ Fault("redis")
  /\ Looking(l, [lookup[l] EXCEPT !.step = "asking"])
  /\ UNCHANGED <<version, copies, notices, subscriber, change, neglected, late>>

FindPrincipal(l) ==
  /\ lookup[l].step = "asking"
  /\ Looking(l, [lookup[l] EXCEPT !.step = "loaded", !.read = version])
  /\ UNCHANGED <<version, copies, notices, subscriber, change, neglected, late>> /\ NoFault

WriteLoaded(l) ==
  /\ lookup[l].step = "loaded"
  /\ Write(lookup[l].read)
  /\ Looking(l, [lookup[l] EXCEPT !.step = "found"])
  /\ UNCHANGED <<version, local, notices, subscriber, change>> /\ NoFault
WriteLoadedFails(l) ==
  /\ lookup[l].step = "loaded" /\ Fault("redis")
  /\ Looking(l, [lookup[l] EXCEPT !.step = "found"])
  /\ UNCHANGED <<version, copies, notices, subscriber, change, neglected, late>>

\* rememberLocalSnapshot takes what it is given, older than the copy there is or not.
RememberLocal(l) ==
  /\ lookup[l].step = "found"
  /\ LET p == lookup[l].at IN
       /\ local' = [local EXCEPT ![p] = lookup[l].read]
       /\ late' = IF lookup[l].read < version THEN late \cup {p} ELSE late \ {p}
       /\ neglected' = neglected \ {p}
  /\ Looking(l, Idle)
  /\ UNCHANGED <<version, shared, notices, subscriber, change>> /\ NoFault

-----------------------------------------------------------------------------
(* A change, and invalidateAuthSnapshotBestEffort after it. *)

\* A change of role or status, and a reset, read the row again after the commit.
ChangeAccess(c, p) ==
  /\ change[c] = Idle /\ c \in trial.changes /\ version < trial.last
  /\ version' = version + 1
  /\ \E step \in {"changed", "known"} : \* updatePassword has the row of its update
       Changing(c, [step |-> step, at |-> p, read |-> IF step = "known" THEN version' ELSE None])
  /\ UNCHANGED <<copies, notices, subscriber, lookup, neglected, late>> /\ NoFault
ReadChanged(c) ==
  /\ change[c].step = "changed"
  /\ Changing(c, [change[c] EXCEPT !.step = "known", !.read = version])
  /\ UNCHANGED <<version, copies, notices, subscriber, lookup, neglected, late>> /\ NoFault

Forget(p) == local' = [local EXCEPT ![p] = None] /\ late' = late \ {p}
InvalidateLocal(c) ==
  /\ change[c].step = "known"
  /\ Forget(change[c].at)
  /\ Changing(c, [change[c] EXCEPT !.step = "dropped"])
  /\ UNCHANGED <<version, shared, notices, subscriber, lookup, neglected>> /\ NoFault

\* The request goes on to announce what it may have failed to write.
AfterWrite(c) == [change[c] EXCEPT !.step = "written"]
WriteChanged(c) ==
  /\ change[c].step = "dropped"
  /\ Write(change[c].read)
  /\ Changing(c, AfterWrite(c))
  /\ UNCHANGED <<version, local, notices, subscriber, lookup>> /\ NoFault
WriteChangedFails(c) ==
  /\ change[c].step = "dropped" /\ Fault("redis")
  /\ neglected' = neglected \cup KeptShared
  /\ Changing(c, AfterWrite(c))
  /\ UNCHANGED <<version, copies, notices, subscriber, lookup, late>>

PublishInvalidation(c) ==
  /\ change[c].step = "written"
  /\ notices' = [p \in Processes |-> notices[p] + IF subscriber[p] = "on" THEN 1 ELSE 0]
  /\ neglected' = neglected \cup Kept({p \in Processes : subscriber[p] # "on"})
  /\ Changing(c, Idle)
  /\ UNCHANGED <<version, copies, subscriber, lookup, late>> /\ NoFault
PublishInvalidationFails(c) ==
  /\ change[c].step = "written" /\ Fault("redis")
  /\ neglected' = neglected \cup Kept(Processes)
  /\ Changing(c, Idle)
  /\ UNCHANGED <<version, copies, notices, subscriber, lookup, late>>

ForgetOnNotice(p) == local' = [local EXCEPT ![p] = None]
ReceiveInvalidation(p) ==
  /\ notices[p] > 0
  /\ notices' = [notices EXCEPT ![p] = @ - 1]
  /\ ForgetOnNotice(p)
  /\ late' = late \ {p} /\ neglected' = neglected \ {p}
  /\ UNCHANGED <<version, shared, subscriber, lookup, change>> /\ NoFault

-----------------------------------------------------------------------------
(* What ends a copy without a change. *)

ExpireShared ==
  /\ shared # None /\ shared' = None
  /\ neglected' = neglected \ {Shared} /\ late' = late \ {Shared}
  /\ UNCHANGED <<version, local, notices, subscriber, lookup, change>> /\ NoFault

\* Fault: a copy of a process is good until it is invalidated.
NeverExpired(p) == FALSE
Expired(p) == local[p] # None
ExpireLocal(p) ==
  /\ Expired(p)
  /\ Forget(p) /\ neglected' = neglected \ {p}
  /\ UNCHANGED <<version, shared, notices, subscriber, lookup, change>> /\ NoFault

\* The connection of a subscriber breaks, with what was on its way, or comes back.
StopListening(p) ==
  /\ subscriber[p] = "on" /\ Fault("subscriber")
  /\ subscriber' = [subscriber EXCEPT ![p] = "broken"]
  /\ notices' = [notices EXCEPT ![p] = 0]
  /\ neglected' = IF notices[p] > 0 THEN neglected \cup Kept({p}) ELSE neglected
  /\ UNCHANGED <<version, copies, lookup, change, late>>
Listen(p) ==
  /\ subscriber[p] = "broken"
  /\ subscriber' = [subscriber EXCEPT ![p] = "on"]
  /\ UNCHANGED <<version, copies, notices, lookup, change, neglected, late>> /\ NoFault

\* A process ends with its copy and its requests, and is started again.  A change that
\* is committed stays so, whatever is left of its request.  A subscription that fails
\* at the start is not tried again (startAuthSnapshotInvalidationSubscriber).
Unannounced(c, p) ==
  CASE change[c].step = "idle" \/ change[c].at # p -> {}
    [] change[c].step = "written" -> Kept(Processes \ {p})
    [] OTHER -> KeptShared \cup Kept(Processes \ {p})
AccessRestart(p) ==
  /\ local' = [local EXCEPT ![p] = None]
  /\ lookup' = [l \in Lookups |-> IF lookup[l].at = p THEN Idle ELSE lookup[l]]
  /\ change' = [c \in Changes |-> IF change[c].at = p THEN Idle ELSE change[c]]
  /\ notices' = [notices EXCEPT ![p] = 0]
  /\ \E outcome \in {"on", "off"} : subscriber' = [subscriber EXCEPT ![p] = outcome]
  /\ late' = late \ {p}
  /\ neglected' = (neglected \ {p}) \cup UNION {Unannounced(c, p) : c \in Changes}
  /\ UNCHANGED <<version, shared>>

LookupStep(l) == ReadAuthSnapshot(l) \/ FindPrincipal(l) \/ WriteLoaded(l) \/ RememberLocal(l)
ChangeStep(c) == ReadChanged(c) \/ InvalidateLocal(c) \/ WriteChanged(c) \/ PublishInvalidation(c)
AccessNext ==
  \/ \E l \in Lookups :
       \/ LookupStep(l) \/ ReadFails(l) \/ WriteLoadedFails(l)
       \/ \E p \in Processes : Resolve(l, p)
  \/ \E c \in Changes :
       \/ ChangeStep(c) \/ WriteChangedFails(c) \/ PublishInvalidationFails(c)
       \/ \E p \in Processes : ChangeAccess(c, p)
  \/ ExpireShared
  \/ \E p \in Processes : ReceiveInvalidation(p) \/ ExpireLocal(p) \/ StopListening(p) \/ Listen(p)
=============================================================================

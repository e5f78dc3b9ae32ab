-------------------------- MODULE DashboardWorker --------------------------
(***************************************************************************)
(* The dashboard consumer and the snapshot it keeps (dashboard.worker.ts,  *)
(* dashboard-summary.use-case.ts).  Events only say that something has     *)
(* changed: the snapshot is always computed from the business tables, at   *)
(* the end of each batch, every minute, and by the API when there is none. *)
(*                                                                         *)
(* What the tables say is the set of the recorded events, since an event   *)
(* commits with its change.  The aggregates of a snapshot are read as one. *)
(***************************************************************************)
EXTENDS Integers, Sequences, FiniteSets, SequencesExt

CONSTANTS
  Events,
  DashboardRetryLimit    \* DASHBOARD_RETRY_LIMIT

VARIABLES
  outbox, log,
  counted,         \* the snapshot: the changes it counts, or Missing
  flight,          \* the refresh begun by each of Refreshers
  board,           \* the consumer: its batch and its offset
  boardReceipts,   \* dashboard_event_receipts
  boardReported,   \* the rows on the dead-letter topic
  trial, faults, replays   \* see OutboxRelay

boardVars == <<outbox, log, counted, flight, board, boardReceipts, boardReported, trial, faults, replays>>

Refreshers == {"batch", "timer", "api"}
InWorker == {"batch", "timer"}
Missing == {"missing"}
Landed == [step |-> "none", seen |-> {}]
Unread == [status |-> "none", attempts |-> 0]
Quiet(done) ==
  [offset |-> done, last |-> done, todo |-> {}, working |-> {}, step |-> "idle", stopping |-> FALSE, stops |-> 0]

BoardInit ==
  /\ counted = IF "api" \in trial.workers THEN Missing ELSE {}
  /\ flight = [f \in Refreshers |-> Landed]
  /\ board = Quiet(0)
  /\ boardReceipts = [e \in Events |-> Unread]
  /\ boardReported = [e \in Events |-> 0]

Facts == {outbox[i].event : i \in DOMAIN outbox}
Fault(kind) ==
  kind \in trial.faults /\ faults < trial.most /\ faults' = faults + 1 /\ UNCHANGED <<trial, replays>>
NoFault == UNCHANGED <<trial, faults, replays>>
Runs == "board" \in trial.workers
Elsewhere == UNCHANGED <<outbox, log>>
SameReceipts == UNCHANGED <<boardReceipts, boardReported>>

-----------------------------------------------------------------------------
(* Refreshing the snapshot: begin, read, write. *)

InFlight(f) == flight[f].step # "none"
Begin(f) == flight' = [flight EXCEPT ![f] = [step |-> "read", seen |-> {}]]
Worker == {f \in InWorker : InFlight(f)}

\* The end of a refresh is the end of everybody's wait for it.
Resumed(ok) ==
  board' = CASE board.step = "await" -> [board EXCEPT !.step = IF ok THEN "commit" ELSE "idle"]
             [] board.step = "starting" -> [board EXCEPT !.step = "idle"]
             [] OTHER -> board

\* Every message of the batch has a receipt: one refresh for all of them, or the
\* one that is under way (singleFlightRefresh).
BatchRefresh ==
  /\ board.step = "work" /\ board.todo = {} /\ board.working = {}
  /\ IF Worker = {} THEN Begin("batch") ELSE UNCHANGED flight
  /\ board' = [board EXCEPT !.step = "await"]
  /\ UNCHANGED counted /\ Elsewhere /\ SameReceipts /\ NoFault

\* Fault: the timer stops when there is a snapshot.
FirstRefresh ==
  /\ Runs /\ ~board.stopping /\ Worker = {} /\ counted = Missing
  /\ Begin("timer")
  /\ UNCHANGED <<counted, board>> /\ Elsewhere /\ SameReceipts /\ NoFault
\* The timer, while the worker runs.  One that would find nothing new is left out.
TimerRefresh ==
  /\ Runs /\ ~board.stopping /\ Worker = {} /\ counted # Facts
  /\ Begin("timer")
  /\ UNCHANGED <<counted, board>> /\ Elsewhere /\ SameReceipts /\ NoFault

\* getDashboardSummary of the API finds no snapshot.
LiveFallback ==
  /\ Runs /\ counted = Missing /\ ~InFlight("api")
  /\ Begin("api")
  /\ UNCHANGED <<counted, board>> /\ Elsewhere /\ SameReceipts /\ NoFault

CalculateSnapshot(f) ==
  /\ flight[f].step = "read"
  /\ flight' = [flight EXCEPT ![f] = [step |-> "write", seen |-> Facts]]
  /\ UNCHANGED <<counted, board>> /\ Elsewhere /\ SameReceipts /\ NoFault

\* The upsert replaces whatever is there.
WriteSnapshot(f) ==
  /\ flight[f].step = "write"
  /\ counted' = flight[f].seen
  /\ flight' = [flight EXCEPT ![f] = Landed]
  /\ IF f \in InWorker THEN Resumed(TRUE) ELSE UNCHANGED board
  /\ Elsewhere /\ SameReceipts /\ NoFault

RefreshFails(f) ==
  /\ InFlight(f) /\ Fault("database")
  /\ flight' = [flight EXCEPT ![f] = Landed]
  /\ IF f \in InWorker THEN Resumed(FALSE) ELSE UNCHANGED board
  /\ UNCHANGED counted /\ Elsewhere /\ SameReceipts

-----------------------------------------------------------------------------
(* The consumer. *)

\* A batch, after the debounce.  A worker that is stopping returns at once.
BoardBatch ==
  /\ Runs /\ board.step = "idle" /\ ~board.stopping /\ board.offset < Len(log)
  /\ board' = [board EXCEPT !.step = "work", !.last = Len(log), !.todo = (board.offset + 1)..Len(log),
                            !.working = {}]
  /\ UNCHANGED <<counted, flight>> /\ Elsewhere /\ SameReceipts /\ NoFault

BoardHandled(e) == boardReceipts[e].status \in {"processed", "terminal"}
Tried(e) == IF boardReceipts[e].attempts < DashboardRetryLimit THEN boardReceipts[e].attempts + 1
            ELSE DashboardRetryLimit
Retrying(e) == [boardReceipts EXCEPT ![e] = [status |-> "retrying", attempts |-> Tried(e)]]

\* processMessage up to its loop; a message not yet begun is passed over by a
\* worker that is stopping.
BeginMessage(i) ==
  LET e == log[i] IN
  /\ board.step = "work" /\ i \in board.todo
  /\ board' = [board EXCEPT !.todo = @ \ {i},
                            !.working = IF board.stopping \/ BoardHandled(e) THEN @ ELSE @ \cup {i}]
  /\ boardReceipts' = IF board.stopping \/ BoardHandled(e) THEN boardReceipts ELSE Retrying(e)
  /\ UNCHANGED <<counted, flight, boardReported>> /\ Elsewhere /\ NoFault

\* completeDashboardReceipt.
CompleteReceipt(i) ==
  /\ i \in board.working
  /\ boardReceipts' = [boardReceipts EXCEPT ![log[i]].status = "processed"]
  /\ board' = [board EXCEPT !.working = @ \ {i}]
  /\ UNCHANGED <<counted, flight, boardReported>> /\ Elsewhere /\ NoFault

\* The batch is given up and delivered again.  What its other handlers would still
\* write is left to the new delivery.
Abandoned == [board EXCEPT !.step = "idle", !.todo = {}, !.working = {}]

\* The receipt fails: at the limit it is terminal and reported, once; below it the
\* next attempt is counted, and made unless the worker is stopping.
FailReceipt(i) ==
  LET e == log[i] IN
  /\ i \in board.working /\ Fault("database")
  /\ \/ /\ boardReceipts[e].attempts >= DashboardRetryLimit
        /\ boardReceipts' = [boardReceipts EXCEPT ![e].status = "terminal"]
        /\ boardReported' = [boardReported EXCEPT ![e] = 1]
        /\ board' = [board EXCEPT !.working = @ \ {i}]
     \/ /\ boardReceipts[e].attempts < DashboardRetryLimit
        /\ boardReceipts' = Retrying(e)
        /\ board' = IF board.stopping THEN Abandoned ELSE board
        /\ UNCHANGED boardReported
  /\ UNCHANGED <<counted, flight>> /\ Elsewhere

\* The worker stops before the attempt, or the failure cannot be recorded either.
ThrowReceipt(i) ==
  /\ i \in board.working
  /\ IF board.stopping THEN NoFault ELSE Fault("database")
  /\ board' = Abandoned
  /\ UNCHANGED <<counted, flight>> /\ Elsewhere /\ SameReceipts

BoardCommit ==
  /\ board.step = "commit"
  /\ board' = [board EXCEPT !.offset = board.last, !.step = "idle"]
  /\ UNCHANGED <<counted, flight>> /\ Elsewhere /\ SameReceipts /\ NoFault

\* stopDashboardConsumer ends the timer, lets the batch and the refresh finish,
\* and the process ends; the next one begins with a refresh of its own.
BoardStop ==
  /\ Runs /\ ~board.stopping /\ board.stops < trial.stops
  /\ board' = [board EXCEPT !.stopping = TRUE, !.stops = @ + 1]
  /\ UNCHANGED <<counted, flight>> /\ Elsewhere /\ SameReceipts /\ NoFault

Reborn ==
  /\ board' = [Quiet(board.offset) EXCEPT !.stops = board.stops, !.step = "starting"]
  /\ flight' = [flight EXCEPT !["batch"] = Landed, !["timer"] = [step |-> "read", seen |-> {}]]

BoardRestart ==
  /\ board.stopping /\ board.step = "idle" /\ Worker = {}
  /\ Reborn
  /\ UNCHANGED counted /\ Elsewhere /\ SameReceipts /\ NoFault

BoardCrash ==
  /\ Runs /\ Fault("crash")
  /\ Reborn
  /\ UNCHANGED counted /\ Elsewhere /\ SameReceipts

-----------------------------------------------------------------------------
BoardWork ==
  \/ BatchRefresh \/ TimerRefresh \/ LiveFallback
  \/ \E f \in Refreshers : CalculateSnapshot(f) \/ WriteSnapshot(f)
  \/ BoardBatch \/ BoardCommit \/ BoardRestart
  \/ \E i \in board.todo : BeginMessage(i)
  \/ \E i \in board.working : CompleteReceipt(i)
BoardNext ==
  \/ BoardWork
  \/ \E f \in Refreshers : RefreshFails(f)
  \/ \E i \in board.working : FailReceipt(i) \/ ThrowReceipt(i)
  \/ BoardStop \/ BoardCrash
=============================================================================

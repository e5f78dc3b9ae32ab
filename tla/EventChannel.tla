--------------------------- MODULE EventChannel ---------------------------
(***************************************************************************)
(* What the outbox promises to the consumers of its events: an event that  *)
(* was recorded with a change reaches the log, maybe more than once and in *)
(* any order, or is put aside because its row is malformed.  An event that *)
(* was not recorded never reaches the log, and none is forgotten.          *)
(***************************************************************************)
EXTENDS Naturals, Sequences, SequencesExt

CONSTANTS Events, Malformed

VARIABLES
  recorded,    \* events whose transaction has committed
  published,   \* the log
  settled      \* events the channel no longer works on

channel == <<recorded, published, settled>>

Logged == Range(published)

\* The log may hold events from before.
Init ==
  /\ recorded \subseteq Events
  /\ Logged \subseteq recorded \ Malformed
  /\ settled \subseteq recorded \cap (Logged \cup Malformed)

Record ==
  /\ recorded \subseteq recorded' /\ recorded' \subseteq Events
  /\ UNCHANGED <<published, settled>>

\* A batch goes to the end of the log.
Publish ==
  /\ IsPrefix(published, published')
  /\ Range(published') \subseteq recorded \ Malformed
  /\ UNCHANGED <<recorded, settled>>

\* The channel is done with events that are on the log or cannot get there.
Settle ==
  /\ settled \subseteq settled'
  /\ settled' \ settled \subseteq recorded \cap (Logged \cup Malformed)
  /\ UNCHANGED <<recorded, published>>

\* An administrator asks for a malformed event again.
Reopen ==
  /\ settled' \subseteq settled /\ settled \ settled' \subseteq Malformed
  /\ UNCHANGED <<recorded, published>>

Next == Record \/ Publish \/ Settle \/ Reopen

Spec == Init /\ [][Next]_channel

\* No event is forgotten: again and again everything recorded is settled, which
\* says it of each event where finitely many are recorded.
NoneForgotten == []<>(recorded \subseteq settled)
=============================================================================

------------------------- MODULE MutationPoolProofs -------------------------
(***************************************************************************)
(* Theorems about the pool of mutations and what a confirmation is worth,  *)
(* for any number of calls, connections, replicas and faults.              *)
(***************************************************************************)
EXTENDS MutationPool, SequenceTheorems, FiniteSetTheorems, WellFoundedInduction, TLAPS

-----------------------------------------------------------------------------
(* The pool.  Its invariant is stated by element, and Cardinality comes in *)
(* at the end.                                                             *)

Places == {"none", "waiting", "leased", "evaluated", "probed", "done"}
Holding == {"leased", "evaluated", "probed"}
CallRecord == [at : Places, key : Keys \union {"none"}, entry : Entries \union {NoEntry}]

PoolTypes ==
  /\ call \in [Calls -> CallRecord]
  /\ busy \subseteq Entries
  /\ waiters \in Seq(Calls)
  /\ trial \in Trials

\* A call has an entry exactly while it is at work on it.
HolderWorks == \A c \in Calls : call[c].entry # NoEntry <=> call[c].at \in Holding
\* Nobody shares an entry.
LentOnce ==
  \A c, d \in Calls : call[c].entry # NoEntry /\ call[c].entry = call[d].entry => c = d
\* A busy entry is somebody's.
BusyIsLent == \A e \in Entries : e \in busy <=> \E c \in Calls : call[c].entry = e
QueueInv ==
  /\ waiters # <<>> => busy = trial.entries
  /\ \A c \in Calls : call[c].at = "waiting" <=> \E i \in DOMAIN waiters : waiters[i] = c
  /\ \A i, j \in DOMAIN waiters : waiters[i] = waiters[j] => i = j

PoolInv == HolderWorks /\ LentOnce /\ BusyIsLent /\ busy \subseteq trial.entries /\ QueueInv

\* A nonempty set of naturals has a least element, which is what Min chooses.
LEMMA LeastNatural ==
  ASSUME NEW S \in SUBSET Nat, S # {}
  PROVE  \E x \in S : \A y \in S : x <= y
<1> DEFINE less == OpToRel(<, Nat)
<1>1. \A x, y \in Nat : y < x => <<y, x>> \in less
  BY DEF OpToRel
<1>2. IsWellFoundedOn(less, Nat)
  BY NatLessThanWellFounded
<1> HIDE DEF less
<1>3. PICK x \in S : \A y \in S : ~(<<y, x>> \in less)
  BY <1>2, WFMin
<1>4. ASSUME NEW y \in S PROVE x <= y
  <2>1. x \in Nat /\ y \in Nat
    OBVIOUS
  <2>2. ~(y < x)
    BY <1>1, <1>3, <2>1
  <2> QED BY <2>1, <2>2
<1> QED BY <1>4

\* Taking a free entry.
LEMMA TakePool ==
  ASSUME PoolTypes, PoolInv, NEW c \in Calls, NEW key \in Keys, NEW e \in trial.entries \ busy,
         call[c].at = "none",
         call' = [call EXCEPT ![c] = Leased(key, e)], busy' = busy \union {e},
         UNCHANGED <<waiters, trial>>
  PROVE  PoolTypes' /\ PoolInv'
<1>1. e \in Entries /\ e # NoEntry
  BY PoolAssumption DEF PoolTypes, NoEntry
<1>2. /\ call'[c] = [at |-> "leased", key |-> key, entry |-> e]
      /\ \A d \in Calls \ {c} : call'[d] = call[d]
      /\ call' \in [Calls -> CallRecord]
  BY <1>1 DEF PoolTypes, CallRecord, Places, Leased
<1>3. PoolTypes'
  BY <1>1, <1>2 DEF PoolTypes
<1>4. HolderWorks'
  BY <1>1, <1>2 DEF PoolInv, HolderWorks, Holding
<1>5. LentOnce'
  BY <1>1, <1>2 DEF PoolInv, LentOnce, BusyIsLent
<1>6. BusyIsLent'
  <2>0. call[c].entry = NoEntry
    BY DEF PoolInv, HolderWorks, Holding
  <2>1. ASSUME NEW f \in Entries PROVE f \in busy' <=> \E d \in Calls : call'[d].entry = f
    <3>1. CASE f = e
      BY <1>2, <3>1
    <3>2. CASE f # e
      <4>1. (\E d \in Calls : call'[d].entry = f) <=> (\E d \in Calls : call[d].entry = f)
        BY <1>1, <1>2, <2>0, <2>1, <3>2, PoolAssumption DEF NoEntry
      <4> QED BY <3>2, <4>1 DEF PoolInv, BusyIsLent
    <3> QED BY <3>1, <3>2
  <2> QED BY <2>1 DEF BusyIsLent
<1>7. busy' \subseteq trial'.entries
  BY DEF PoolInv
<1>8. QueueInv'
  <2>1. waiters = <<>>
    BY DEF PoolInv, QueueInv
  <2>2. \A d \in Calls : call[d].at # "waiting"
    BY <2>1 DEF PoolInv, QueueInv
  <2> QED BY <1>2, <2>1, <2>2 DEF QueueInv
<1> QED BY <1>3, <1>4, <1>5, <1>6, <1>7, <1>8 DEF PoolInv

\* Joining the queue.
LEMMA WaitPool ==
  ASSUME PoolTypes, PoolInv, NEW c \in Calls, NEW key \in Keys, busy = trial.entries,
         call[c].at = "none",
         call' = [call EXCEPT ![c] = [at |-> "waiting", key |-> key, entry |-> NoEntry]],
         waiters' = Append(waiters, c),
         UNCHANGED <<busy, trial>>
  PROVE  PoolTypes' /\ PoolInv'
<1>1. /\ call'[c] = [at |-> "waiting", key |-> key, entry |-> NoEntry]
      /\ \A d \in Calls \ {c} : call'[d] = call[d]
      /\ call' \in [Calls -> CallRecord]
      /\ call[c].entry = NoEntry
  BY DEF PoolTypes, CallRecord, Places, PoolInv, HolderWorks, Holding
<1>2. waiters \in Seq(Calls)
  BY DEF PoolTypes
<1>3. /\ waiters' \in Seq(Calls) /\ Len(waiters') = Len(waiters) + 1 /\ Len(waiters) \in Nat
      /\ DOMAIN waiters = 1 .. Len(waiters) /\ DOMAIN waiters' = 1 .. Len(waiters) + 1
      /\ \A i \in 1 .. Len(waiters) : waiters'[i] = waiters[i]
      /\ waiters'[Len(waiters) + 1] = c
  BY <1>2, AppendProperties, LenProperties
<1>4. PoolTypes'
  BY <1>1, <1>3 DEF PoolTypes
<1>5. HolderWorks' /\ LentOnce' /\ BusyIsLent'
  <2>1. HolderWorks' /\ LentOnce'
    BY <1>1 DEF PoolInv, HolderWorks, Holding, LentOnce
  <2>2. \A d \in Calls : call'[d].entry = call[d].entry
    BY <1>1
  <2>3. BusyIsLent'
    BY <2>2 DEF PoolInv, BusyIsLent
  <2> QED BY <2>1, <2>3
<1>6. QueueInv'
  <2>1. \A i \in DOMAIN waiters : waiters[i] # c
    BY DEF PoolInv, QueueInv
  <2>2. \A d \in Calls : call'[d].at = "waiting" <=> \E i \in DOMAIN waiters' : waiters'[i] = d
    <3> SUFFICES ASSUME NEW d \in Calls
                 PROVE  call'[d].at = "waiting" <=> \E i \in DOMAIN waiters' : waiters'[i] = d
      OBVIOUS
    <3>1. CASE d = c
      BY <1>1, <1>3, <3>1
    <3>2. CASE d # c
      <4>1. call'[d].at = "waiting" <=> \E i \in DOMAIN waiters : waiters[i] = d
        BY <1>1, <3>2 DEF PoolInv, QueueInv
      <4> QED BY <1>3, <3>2, <4>1
    <3> QED BY <3>1, <3>2
  <2>3. \A i, j \in DOMAIN waiters' : waiters'[i] = waiters'[j] => i = j
    BY <1>3, <2>1 DEF PoolInv, QueueInv
  <2> QED BY <2>2, <2>3 DEF QueueInv
<1> QED BY <1>4, <1>5, <1>6 DEF PoolInv

LEMMA AcquirePool ==
  ASSUME PoolTypes, PoolInv, NEW c \in Calls, NEW key \in Keys, Acquire(c, key)
  PROVE  PoolTypes' /\ PoolInv'
<1>0. trial' = trial /\ call[c].at = "none"
  BY DEF Acquire, NoFault
<1>1. CASE busy # trial.entries
  <2> DEFINE e == Min(trial.entries \ busy)
  <2>1. trial.entries \ busy \in SUBSET Nat /\ trial.entries \ busy # {}
    BY <1>1, PoolAssumption DEF PoolTypes, PoolInv
  <2>2. e \in trial.entries \ busy
    BY <2>1, LeastNatural DEF Min
  <2>3. call' = [call EXCEPT ![c] = Leased(key, e)] /\ busy' = busy \union {e} /\ waiters' = waiters
    BY <1>1 DEF Acquire
  <2> QED BY <1>0, <2>2, <2>3, TakePool
<1>2. CASE busy = trial.entries
  BY <1>0, <1>2, WaitPool DEF Acquire
<1> QED BY <1>1, <1>2

\* Handing an entry on, or back.
LEMMA ReleasePool ==
  ASSUME PoolTypes, PoolInv, NEW c \in Calls, call[c].at \in Holding, Release(c), trial' = trial
  PROVE  /\ PoolTypes' /\ PoolInv'
         /\ \A d \in Calls : call'[d].key = call[d].key
         /\ \A d \in Calls \ {c} : call'[d] # call[d] => call[d].at = "waiting" /\ call'[d].at = "leased"
         /\ call'[c].at = "done"
<1> DEFINE e == call[c].entry
           over == [call EXCEPT ![c].at = "done", ![c].entry = NoEntry]
<1>0. e \in Entries /\ e # NoEntry /\ e \in busy /\ call[c].at # "waiting"
  BY DEF PoolTypes, PoolInv, HolderWorks, Holding, BusyIsLent, CallRecord
<1>1. /\ over \in [Calls -> CallRecord]
      /\ over[c] = [at |-> "done", key |-> call[c].key, entry |-> NoEntry]
      /\ \A d \in Calls \ {c} : over[d] = call[d]
  BY DEF PoolTypes, CallRecord, Places
<1>2. CASE waiters = <<>>
  <2>1. busy' = busy \ {e} /\ call' = over /\ waiters' = waiters
    BY <1>2 DEF Release
  <2> HIDE DEF over
  <2>2. PoolTypes'
    BY <1>1, <2>1 DEF PoolTypes
  <2>3. HolderWorks' /\ LentOnce'
    BY <1>1, <2>1 DEF PoolInv, HolderWorks, LentOnce, Holding
  <2>4. BusyIsLent'
    <3> SUFFICES ASSUME NEW f \in Entries PROVE f \in busy' <=> \E d \in Calls : call'[d].entry = f
      BY DEF BusyIsLent
    <3>0. f # NoEntry
      BY PoolAssumption DEF NoEntry
    <3>1. CASE f = e
      <4>1. \A d \in Calls : call'[d].entry # e
        BY <1>0, <1>1, <2>1 DEF PoolInv, LentOnce
      <4> QED BY <2>1, <3>1, <4>1
    <3>2. CASE f # e
      <4>1. (\E d \in Calls : call'[d].entry = f) <=> (\E d \in Calls : call[d].entry = f)
        BY <1>1, <2>1, <3>0, <3>2
      <4> QED BY <2>1, <3>2, <4>1 DEF PoolInv, BusyIsLent
    <3> QED BY <3>1, <3>2
  <2>5. QueueInv'
    BY <1>0, <1>1, <1>2, <2>1 DEF PoolInv, QueueInv
  <2> QED BY <1>1, <2>1, <2>2, <2>3, <2>4, <2>5 DEF PoolInv
<1>3. CASE waiters # <<>>
  <2> DEFINE w == Head(waiters)
  <2>1. /\ busy' = busy /\ waiters' = Tail(waiters)
        /\ call' = [over EXCEPT ![w] = Leased(call[w].key, e)]
    BY <1>3 DEF Release
  <2>2. waiters \in Seq(Calls)
    BY DEF PoolTypes
  <2>3. /\ w \in Calls /\ w = waiters[1] /\ 1 \in DOMAIN waiters
        /\ waiters' \in Seq(Calls) /\ Len(waiters') = Len(waiters) - 1 /\ Len(waiters) \in Nat
        /\ DOMAIN waiters = 1 .. Len(waiters) /\ DOMAIN waiters' = 1 .. Len(waiters) - 1
        /\ \A i \in 1 .. Len(waiters) - 1 : waiters'[i] = waiters[i + 1]
    BY <1>3, <2>1, <2>2, HeadTailProperties, LenProperties, EmptySeq
  <2>4. call[w].at = "waiting" /\ w # c /\ call[w].entry = NoEntry
    BY <1>0, <2>3 DEF PoolInv, QueueInv, HolderWorks, Holding
  <2> HIDE DEF over, w
  <2>5. /\ call'[c] = [at |-> "done", key |-> call[c].key, entry |-> NoEntry]
        /\ call'[w] = [at |-> "leased", key |-> call[w].key, entry |-> e]
        /\ \A d \in Calls \ {c, w} : call'[d] = call[d]
        /\ call' \in [Calls -> CallRecord]
    BY <1>0, <1>1, <2>1, <2>3, <2>4 DEF Leased, PoolTypes, CallRecord, Places
  <2>6. PoolTypes'
    BY <2>1, <2>3, <2>5 DEF PoolTypes
  <2>7. HolderWorks'
    BY <1>0, <2>5 DEF PoolInv, HolderWorks, Holding
  <2>8. LentOnce'
    BY <1>0, <2>5 DEF PoolInv, LentOnce
  <2>9. BusyIsLent'
    <3> SUFFICES ASSUME NEW f \in Entries PROVE f \in busy' <=> \E d \in Calls : call'[d].entry = f
      BY DEF BusyIsLent
    <3>0. f # NoEntry
      BY PoolAssumption DEF NoEntry
    <3>1. CASE f = e
      BY <1>0, <2>1, <2>3, <2>5, <3>1
    <3>2. CASE f # e
      <4>1. (\E d \in Calls : call'[d].entry = f) <=> (\E d \in Calls : call[d].entry = f)
        BY <2>4, <2>5, <3>0, <3>2
      <4> QED BY <2>1, <4>1 DEF PoolInv, BusyIsLent
    <3> QED BY <3>1, <3>2
  <2>10. QueueInv'
    <3>1. waiters' # <<>> => busy' = trial'.entries
      BY <1>3, <2>1 DEF PoolInv, QueueInv
    <3> DEFINE n == Len(waiters)
    <3>a. /\ n \in Nat /\ DOMAIN waiters = 1 .. n /\ DOMAIN waiters' = 1 .. n - 1 /\ w = waiters[1]
          /\ \A i \in 1 .. n - 1 : waiters'[i] = waiters[i + 1]
      BY <2>3
    <3>b. \A i, j \in 1 .. n : waiters[i] = waiters[j] => i = j
      BY <3>a DEF PoolInv, QueueInv
    <3> HIDE DEF n
    <3>2. ASSUME NEW i \in DOMAIN waiters', NEW j \in DOMAIN waiters', waiters'[i] = waiters'[j]
          PROVE  i = j
      <4>1. /\ i \in 1 .. n - 1 /\ i + 1 \in 1 .. n
            /\ j \in 1 .. n - 1 /\ j + 1 \in 1 .. n
        BY <3>a
      <4>2. waiters[i + 1] = waiters[j + 1]
        BY <3>a, <3>2, <4>1
      <4>3. i + 1 = j + 1
        BY <3>b, <4>1, <4>2
      <4> QED BY <4>1, <4>3
    <3>3. ASSUME NEW d \in Calls
          PROVE  call'[d].at = "waiting" <=> \E i \in DOMAIN waiters' : waiters'[i] = d
      <4>1. CASE d = w
        <5>1. ASSUME NEW i \in DOMAIN waiters', waiters'[i] = w PROVE FALSE
          <6>1. i \in 1 .. n - 1 /\ i + 1 \in 1 .. n /\ 1 \in 1 .. n /\ waiters[i + 1] = waiters[1]
            BY <3>a, <5>1
          <6>2. i + 1 = 1
            BY <3>b, <6>1
          <6> QED BY <6>1, <6>2
        <5> QED BY <2>5, <4>1, <5>1
      <4>2. CASE d # w
        <5>1. call'[d].at = "waiting" <=> call[d].at = "waiting"
          BY <1>0, <2>5, <4>2
        <5>2. (\E i \in DOMAIN waiters : waiters[i] = d) => \E i \in DOMAIN waiters' : waiters'[i] = d
          <6>1. ASSUME NEW i \in DOMAIN waiters, waiters[i] = d
                PROVE  i - 1 \in DOMAIN waiters' /\ waiters'[i - 1] = d
            BY <2>3, <4>2, <6>1
          <6> QED BY <6>1
        <5>3. (\E i \in DOMAIN waiters' : waiters'[i] = d) => \E i \in DOMAIN waiters : waiters[i] = d
          <6>1. ASSUME NEW i \in DOMAIN waiters', waiters'[i] = d
                PROVE  i + 1 \in DOMAIN waiters /\ waiters[i + 1] = d
            BY <2>3, <6>1
          <6> QED BY <6>1
        <5> QED BY <5>1, <5>2, <5>3 DEF PoolInv, QueueInv
      <4> QED BY <4>1, <4>2
    <3> QED BY <3>1, <3>2, <3>3 DEF QueueInv
  <2>11. busy' \subseteq trial'.entries
    BY <2>1 DEF PoolInv
  <2> QED BY <2>4, <2>5, <2>6, <2>7, <2>8, <2>9, <2>10, <2>11 DEF PoolInv
<1> QED BY <1>2, <1>3

\* Going on with the entry a call has.
LEMMA GoesPool ==
  ASSUME PoolTypes, PoolInv, NEW c \in Calls, call[c].at \in Holding,
         NEW at \in Holding, Goes(c, at), trial' = trial
  PROVE  /\ PoolTypes' /\ PoolInv'
         /\ call'[c] = [at |-> at, key |-> call[c].key, entry |-> call[c].entry]
         /\ \A d \in Calls \ {c} : call'[d] = call[d]
<1>1. /\ call'[c] = [at |-> at, key |-> call[c].key, entry |-> call[c].entry]
      /\ \A d \in Calls \ {c} : call'[d] = call[d]
      /\ call' \in [Calls -> CallRecord]
      /\ busy' = busy /\ waiters' = waiters
  BY DEF Goes, PoolTypes, CallRecord, Places, Holding
<1>2. PoolTypes'
  BY <1>1 DEF PoolTypes
<1>3. HolderWorks' /\ LentOnce' /\ BusyIsLent'
  BY <1>1 DEF PoolInv, HolderWorks, Holding, LentOnce, BusyIsLent
<1>4. QueueInv'
  BY <1>1 DEF PoolInv, QueueInv, Holding
<1> QED BY <1>1, <1>2, <1>3, <1>4 DEF PoolInv

-----------------------------------------------------------------------------
(* The log of the primary. *)

LogRecord == [key : Keys \union {"probe"}, event : Calls \union {NoEvent}, sequence : Nat]

RedisTypes ==
  /\ log \in Seq(LogRecord)
  /\ copied \in [Replicas -> Nat]
  /\ attached \subseteq Replicas
  /\ \A r \in attached : copied[r] <= Len(log)
  /\ seen \in [Entries -> 0 .. Len(log)]

\* A key is written at most once, on behalf of a call that has it.
OneWritePerKey ==
  \A i, j \in DOMAIN log :
    log[i].event # NoEvent /\ log[j].event # NoEvent /\ log[i].key = log[j].key => i = j
WrittenByCalls ==
  \A i \in DOMAIN log :
    log[i].event # NoEvent => /\ call[log[i].event].at # "none"
                              /\ call[log[i].event].key = log[i].key
\* Mutations, and nothing else, raise the sequence, by one.
Rising ==
  \A i, j \in DOMAIN log :
    i < j => /\ log[i].sequence <= log[j].sequence
             /\ log[j].event # NoEvent => log[i].sequence < log[j].sequence
Gapless ==
  \A i \in DOMAIN log :
    /\ log[i].event # NoEvent => log[i].sequence > 0
    /\ \A k \in 1 .. log[i].sequence :
         \E j \in 1 .. i : log[j].event # NoEvent /\ log[j].sequence = k

LogInv == OneWritePerKey /\ WrittenByCalls /\ Rising /\ Gapless

\* A call keeps its key once it has one.
CallsKeep ==
  \A d \in Calls : call[d].at # "none" => call'[d].at # "none" /\ call'[d].key = call[d].key

\* What is at the indices of log is there in log' too.
LogGrows == \A i \in DOMAIN log : i \in DOMAIN log' /\ log'[i] = log[i]

LEMMA LogStays ==
  ASSUME RedisTypes, LogInv, CallsKeep, log' = log
  PROVE  LogInv' /\ LogGrows
<1>1. \A i \in DOMAIN log : log[i].event \in Calls \union {NoEvent}
  <2>1. \A i \in DOMAIN log : log[i] \in LogRecord
    BY ElementOfSeq, LenProperties DEF RedisTypes
  <2> QED BY <2>1 DEF LogRecord
<1>2. OneWritePerKey' /\ Rising' /\ Gapless'
  BY DEF LogInv, OneWritePerKey, Rising, Gapless
<1>3. WrittenByCalls'
  BY <1>1 DEF LogInv, WrittenByCalls, CallsKeep
<1> QED BY <1>2, <1>3 DEF LogInv, LogGrows

\* The sequence of the primary is that of its last write.
LEMMA SequenceIsLast ==
  ASSUME RedisTypes, LogInv
  PROVE  /\ Sequence \in Nat
         /\ \A i \in DOMAIN log : log[i].sequence <= Sequence
         /\ \A k \in 1 .. Sequence :
              \E j \in DOMAIN log : log[j].event # NoEvent /\ log[j].sequence = k
<1>1. /\ Len(log) \in Nat /\ DOMAIN log = 1 .. Len(log)
      /\ \A i \in 1 .. Len(log) : log[i] \in LogRecord
  BY LenProperties, ElementOfSeq DEF RedisTypes
<1>2. CASE log = <<>>
  <2>1. Len(log) = 0 /\ Sequence = 0
    BY <1>2, EmptySeq DEF Sequence
  <2>2. DOMAIN log = {}
    BY <1>1, <2>1
  <2> QED BY <2>1, <2>2
<1>3. CASE log # <<>>
  <2>1. Len(log) \in DOMAIN log /\ Sequence = log[Len(log)].sequence
    BY <1>1, <1>3, EmptySeq DEF Sequence, RedisTypes
  <2>2. Sequence \in Nat
    BY <1>1, <2>1 DEF LogRecord
  <2>3. \A i \in DOMAIN log : log[i].sequence <= Sequence
    <3> SUFFICES ASSUME NEW i \in DOMAIN log PROVE log[i].sequence <= Sequence
      OBVIOUS
    <3>1. i < Len(log) \/ i = Len(log)
      BY <1>1
    <3> QED BY <2>1, <2>2, <3>1 DEF LogInv, Rising
  <2>4. \A k \in 1 .. Sequence :
          \E j \in DOMAIN log : log[j].event # NoEvent /\ log[j].sequence = k
    BY <1>1, <2>1 DEF LogInv, Gapless
  <2> QED BY <2>2, <2>3, <2>4
<1> QED BY <1>2, <1>3

\* A write of a call: the mutation of a key that the log does not have, or the probe.
LEMMA LogWrites ==
  ASSUME RedisTypes, LogInv, CallsKeep, NEW c \in Calls, NEW w,
         call[c].at # "none", call[c].key \in Keys, call[c].entry \in Entries,
         (w = Mutation(c) /\ ~Has(call[c].key)) \/ w = Probe,
         Writes(c, w)
  PROVE  /\ RedisTypes' /\ LogInv' /\ LogGrows
         /\ Len(log') = Len(log) + 1 /\ log'[Len(log) + 1] = w
         /\ seen'[call[c].entry] = Len(log) + 1
         /\ \A e \in Entries \ {call[c].entry} : seen'[e] = seen[e]
<1> DEFINE n == Len(log)
<1>0. /\ Sequence \in Nat
      /\ \A i \in DOMAIN log : log[i].sequence <= Sequence
      /\ \A k \in 1 .. Sequence :
           \E j \in DOMAIN log : log[j].event # NoEvent /\ log[j].sequence = k
  BY SequenceIsLast
<1>1. w \in LogRecord
  BY <1>0 DEF Mutation, Probe, LogRecord
<1>2. log \in Seq(LogRecord) /\ log' = Append(log, w)
  BY DEF RedisTypes, Writes
<1>3. /\ log' \in Seq(LogRecord) /\ Len(log') = n + 1 /\ n \in Nat
      /\ DOMAIN log = 1 .. n /\ DOMAIN log' = 1 .. n + 1
      /\ \A i \in 1 .. n : log'[i] = log[i] /\ log[i] \in LogRecord
      /\ log'[n + 1] = w
  BY <1>1, <1>2, AppendProperties, LenProperties, ElementOfSeq
<1> HIDE DEF n
<1>4. /\ seen' \in [Entries -> 0 .. Len(log')] /\ seen'[call[c].entry] = n + 1
      /\ \A e \in Entries \ {call[c].entry} : seen'[e] = seen[e]
  <2>1. seen' = [seen EXCEPT ![call[c].entry] = n + 1]
    BY DEF Writes, n
  <2>2. seen \in [Entries -> 0 .. n]
    BY DEF RedisTypes, n
  <2> QED BY <1>3, <2>1, <2>2
<1>5. RedisTypes'
  BY <1>3, <1>4 DEF RedisTypes, Writes, n
<1>6. OneWritePerKey'
  <2>1. w.event # NoEvent => \A i \in 1 .. n : log[i].key # w.key
    BY <1>3 DEF Mutation, Has, Probe
  <2> QED BY <1>3, <2>1 DEF LogInv, OneWritePerKey
<1>7. WrittenByCalls'
  <2>1. w.event # NoEvent => w.event = c /\ w.key = call[c].key
    BY DEF Mutation, Probe
  <2>2. \A i \in 1 .. n : log[i].event \in Calls \union {NoEvent}
    BY <1>3 DEF LogRecord
  <2> QED BY <1>3, <2>1, <2>2 DEF LogInv, WrittenByCalls, CallsKeep
<1>8. Rising'
  <2>1. w.event # NoEvent => w.sequence = Sequence + 1
    BY DEF Mutation, Probe
  <2>2. w.sequence \in Nat /\ Sequence <= w.sequence
    BY <1>0 DEF Mutation, Probe
  <2>3. \A i \in 1 .. n : log[i].sequence \in Nat
    BY <1>3 DEF LogRecord
  <2> SUFFICES ASSUME NEW i \in 1 .. n + 1, NEW j \in 1 .. n + 1, i < j
               PROVE  /\ log'[i].sequence <= log'[j].sequence
                      /\ log'[j].event # NoEvent => log'[i].sequence < log'[j].sequence
    BY <1>3 DEF Rising
  <2>4. i \in 1 .. n /\ log[i].sequence <= Sequence
    BY <1>0, <1>3
  <2>5. CASE j = n + 1
    BY <1>0, <1>3, <2>1, <2>2, <2>3, <2>4, <2>5
  <2>6. CASE j \in 1 .. n
    BY <1>3, <2>4, <2>6 DEF LogInv, Rising
  <2> QED BY <1>3, <2>5, <2>6
<1>9. Gapless'
  <2>1. w.event # NoEvent => w.sequence = Sequence + 1
    BY DEF Mutation, Probe
  <2>2. w.event = NoEvent => w.sequence = Sequence
    BY PoolAssumption DEF Mutation, Probe, NoEvent
  <2>3. ASSUME NEW i \in 1 .. n
        PROVE  /\ log'[i].event # NoEvent => log'[i].sequence > 0
               /\ \A k \in 1 .. log'[i].sequence :
                    \E j \in 1 .. i : log'[j].event # NoEvent /\ log'[j].sequence = k
    BY <1>3 DEF LogInv, Gapless
  <2>4. ASSUME NEW k \in 1 .. w.sequence
        PROVE  \E j \in 1 .. n + 1 : log'[j].event # NoEvent /\ log'[j].sequence = k
    <3>1. CASE k \in 1 .. Sequence
      BY <1>0, <1>3, <3>1
    <3>2. CASE k \notin 1 .. Sequence
      <4>1. w.event # NoEvent /\ k = w.sequence
        BY <1>0, <2>1, <2>2, <2>4, <3>2
      <4> QED BY <1>3, <4>1
    <3> QED BY <3>1, <3>2
  <2>5. w.event # NoEvent => w.sequence > 0
    BY <1>0, <2>1
  <2> QED BY <1>3, <2>3, <2>4, <2>5 DEF Gapless
<1>10. LogGrows
  BY <1>3 DEF LogGrows
<1> QED BY <1>3, <1>4, <1>5, <1>6, <1>7, <1>8, <1>9, <1>10 DEF LogInv, n

\* A prefix of the log ...
LEMMA CutShape ==
  ASSUME RedisTypes, NEW n \in 0 .. Len(log)
  PROVE  LET cut == SubSeq(log, 1, n)
         IN  /\ cut \in Seq(LogRecord) /\ Len(cut) = n /\ DOMAIN cut = 1 .. n
             /\ \A i \in 1 .. n : i \in DOMAIN log /\ cut[i] = log[i]
<1> DEFINE cut == SubSeq(log, 1, n)
<1>1. /\ Len(log) \in Nat /\ DOMAIN log = 1 .. Len(log)
      /\ \A i \in 1 .. Len(log) : log[i] \in LogRecord
  BY LenProperties, ElementOfSeq DEF RedisTypes
<1>2. 1 \in Int /\ n \in Int /\ \A i \in 1 .. n : log[i] \in LogRecord
  BY <1>1
<1>3. /\ cut \in Seq(LogRecord)
      /\ Len(cut) = IF 1 <= n THEN n - 1 + 1 ELSE 0
      /\ \A i \in 1 .. n - 1 + 1 : cut[i] = log[1 + i - 1]
  BY <1>2, SubSeqProperties
<1> HIDE DEF cut
<1>4. Len(cut) = n
  BY <1>1, <1>3
<1>5. \A i \in 1 .. n : cut[i] = log[i]
  <2> SUFFICES ASSUME NEW i \in 1 .. n PROVE cut[i] = log[i]
    OBVIOUS
  <2>1. i \in 1 .. n - 1 + 1 /\ 1 + i - 1 = i
    BY <1>1
  <2> QED BY <1>3, <2>1
<1>6. DOMAIN cut = 1 .. n
  BY <1>3, <1>4, LenProperties
<1>7. \A i \in 1 .. n : i \in DOMAIN log
  BY <1>1
<1> QED BY <1>3, <1>4, <1>5, <1>6, <1>7 DEF cut

\* ... keeps what is said of the log.
LEMMA LogCut ==
  ASSUME LogInv, NEW n, DOMAIN log' = 1 .. n, n \in Nat,
         \A i \in 1 .. n : i \in DOMAIN log /\ log'[i] = log[i],
         call' = call
  PROVE  LogInv'
<1>1. OneWritePerKey' /\ WrittenByCalls' /\ Rising'
  BY DEF LogInv, OneWritePerKey, WrittenByCalls, Rising
<1>2. Gapless'
  <2> SUFFICES ASSUME NEW i \in 1 .. n
               PROVE  /\ log'[i].event # NoEvent => log'[i].sequence > 0
                      /\ \A k \in 1 .. log'[i].sequence :
                           \E j \in 1 .. i : log'[j].event # NoEvent /\ log'[j].sequence = k
    BY DEF Gapless
  <2>1. \A j \in 1 .. i : log'[j] = log[j]
    OBVIOUS
  <2> QED BY <2>1 DEF LogInv, Gapless
<1> QED BY <1>1, <1>2 DEF LogInv

-----------------------------------------------------------------------------
(* What a confirmation is worth. *)

HistoryTypes ==
  /\ table \in Seq(Calls) /\ dead \subseteq Calls
  /\ sure \subseteq Keys /\ across \subseteq Calls /\ lost \subseteq Calls
  /\ faults \in Nat

\* A call at work has a key.
Keyed == \A c \in Calls : call[c].at # "none" => call[c].key \in Keys

\* What a call has written, or found written, stands before its probe.
WrittenFor(c) ==
  /\ call[c].at = "evaluated" => Has(call[c].key)
  /\ call[c].at = "probed" =>
       \E i \in DOMAIN log : log[i].key = call[c].key /\ i < seen[call[c].entry]

\* A confirmed key is on some replica, at its place in the log.
ConfirmInv ==
  /\ \A key \in sure :
       \E i \in DOMAIN log : log[i].key = key /\ \E r \in Replicas : i <= copied[r]
  /\ \A c \in Calls \ across : WrittenFor(c)

Kept(d) == call'[d].at \in {"evaluated", "probed"} =>
             call'[d] = call[d] /\ seen'[call[d].entry] = seen[call[d].entry]

\* A step that only adds to the log and to the replicas.
LEMMA ConfirmStays ==
  ASSUME RedisTypes, RedisTypes', ConfirmInv, LogGrows,
         \A r \in Replicas : copied[r] <= copied'[r],
         sure' = sure, across \subseteq across',
         \A d \in Calls \ across' : WrittenFor(d)' \/ Kept(d)
  PROVE  ConfirmInv'
<1>1. ASSUME NEW key \in sure
      PROVE  \E i \in DOMAIN log' : log'[i].key = key /\ \E r \in Replicas : i <= copied'[r]
  <2>1. PICK i \in DOMAIN log : log[i].key = key /\ \E r \in Replicas : i <= copied[r]
    BY DEF ConfirmInv
  <2>2. PICK r \in Replicas : i <= copied[r]
    BY <2>1
  <2>3. i \in Int /\ copied[r] \in Int /\ copied'[r] \in Int
    BY LenProperties DEF RedisTypes
  <2>4. i <= copied'[r]
    BY <2>2, <2>3
  <2> QED BY <2>1, <2>4 DEF LogGrows
<1>2. ASSUME NEW d \in Calls \ across' PROVE WrittenFor(d)'
  <2>1. CASE Kept(d)
    <3>1. WrittenFor(d)
      BY DEF ConfirmInv
    <3>2. call'[d].at = "evaluated" => \E i \in DOMAIN log' : log'[i].key = call'[d].key
      BY <2>1, <3>1 DEF Kept, WrittenFor, Has, LogGrows
    <3>3. call'[d].at = "probed" =>
            \E i \in DOMAIN log' : log'[i].key = call'[d].key /\ i < seen'[call'[d].entry]
      BY <2>1, <3>1 DEF Kept, WrittenFor, LogGrows
    <3> QED BY <3>2, <3>3 DEF WrittenFor, Has
  <2> QED BY <1>2, <2>1
<1> QED BY <1>1, <1>2 DEF ConfirmInv

-----------------------------------------------------------------------------
(* The projector. *)

\* A step that only adds to the log.
LEMMA TableStays ==
  ASSUME ProjectedInOrder, LogGrows, UNCHANGED <<table, dead, lost>>
  PROVE  ProjectedInOrder'
<1>1. ProjectionIsPrefix'
  BY DEF ProjectedInOrder, ProjectionIsPrefix, LogGrows
<1>2. RefusedOnlyAfterLoss'
  BY DEF ProjectedInOrder, RefusedOnlyAfterLoss
<1> QED BY <1>1, <1>2 DEF ProjectedInOrder

\* While nothing of the table is lost, the next event has the next sequence.
LEMMA NextSequence ==
  ASSUME PoolTypes, RedisTypes, HistoryTypes, LogInv, ProjectionIsPrefix, dead = {},
         \A j \in DOMAIN table : table[j] \notin lost,
         NEW i \in Unsettled, \A j \in Unsettled : i <= j
  PROVE  log[i].sequence = Len(table) + 1
<1> DEFINE s == log[i].sequence
<1>1. /\ Len(log) \in Nat /\ DOMAIN log = 1 .. Len(log)
      /\ Len(table) \in Nat /\ DOMAIN table = 1 .. Len(table)
      /\ \A j \in DOMAIN table : table[j] \in Calls
      /\ \A j \in DOMAIN log : log[j] \in LogRecord
  BY LenProperties, ElementOfSeq DEF RedisTypes, HistoryTypes
<1>2. /\ i \in DOMAIN log /\ log[i].event # NoEvent
      /\ \A j \in DOMAIN table : table[j] # log[i].event
  BY DEF Unsettled
<1>3. s \in Nat /\ s > 0
  BY <1>1, <1>2 DEF LogRecord, LogInv, Gapless
<1>4. \A j \in DOMAIN table :
        \E k \in DOMAIN log : log[k].event = table[j] /\ log[k].sequence = j /\ log[k].event # NoEvent
  BY <1>1, PoolAssumption DEF ProjectionIsPrefix, NoEvent
<1>5. \A j, k \in DOMAIN log :
        log[j].event # NoEvent /\ log[k].event # NoEvent =>
          /\ log[j].event = log[k].event => j = k
          /\ log[j].sequence = log[k].sequence => j = k
  <2> SUFFICES ASSUME NEW j \in DOMAIN log, NEW k \in DOMAIN log,
                      log[j].event # NoEvent, log[k].event # NoEvent
               PROVE  /\ log[j].event = log[k].event => j = k
                      /\ log[j].sequence = log[k].sequence => j = k
    OBVIOUS
  <2>1. log[j].event = log[k].event => j = k
    BY DEF LogInv, OneWritePerKey, WrittenByCalls
  <2>2. log[j].sequence \in Nat /\ log[k].sequence \in Nat /\ j \in Int /\ k \in Int
    BY <1>1 DEF LogRecord
  <2>3. log[j].sequence = log[k].sequence => ~(j < k) /\ ~(k < j)
    BY <2>2 DEF LogInv, Rising
  <2> QED BY <2>1, <2>2, <2>3
<1>6. \A k \in 1 .. s - 1 : k \in DOMAIN table
  <2> SUFFICES ASSUME NEW k \in 1 .. s - 1 PROVE k \in DOMAIN table
    OBVIOUS
  <2>1. k \in 1 .. s /\ k # s
    BY <1>3
  <2>2. PICK j \in 1 .. i : log[j].event # NoEvent /\ log[j].sequence = k
    BY <1>2, <2>1 DEF LogInv, Gapless
  <2>3. j \in DOMAIN log /\ j # i /\ j \in Int /\ i \in Int
    BY <1>1, <1>2, <2>1, <2>2
  <2>4. j \notin Unsettled
    BY <2>2, <2>3
  <2>5. PICK m \in DOMAIN table : table[m] = log[j].event
    BY <2>2, <2>3, <2>4 DEF Unsettled
  <2>6. PICK h \in DOMAIN log : log[h].event = table[m] /\ log[h].sequence = m /\ log[h].event # NoEvent
    BY <1>4
  <2>7. h = j
    BY <1>5, <2>2, <2>3, <2>5, <2>6
  <2> QED BY <2>2, <2>5, <2>6, <2>7
<1>7. s \notin DOMAIN table
  <2> SUFFICES ASSUME s \in DOMAIN table PROVE FALSE
    OBVIOUS
  <2>1. PICK h \in DOMAIN log : log[h].event = table[s] /\ log[h].sequence = s /\ log[h].event # NoEvent
    BY <1>4
  <2>2. h = i
    BY <1>2, <1>5, <2>1
  <2> QED BY <1>2, <2>1, <2>2
<1> HIDE DEF s
<1>8. s > Len(table)
  BY <1>1, <1>3, <1>7
<1>9. s - 1 <= Len(table)
  <2>1. CASE s = 1
    BY <1>1, <2>1
  <2>2. CASE s # 1
    <3>1. s - 1 \in 1 .. s - 1
      BY <1>3, <2>2
    <3> QED BY <1>1, <1>6, <3>1
  <2> QED BY <2>1, <2>2
<1>10. s = Len(table) + 1
  BY <1>1, <1>3, <1>8, <1>9
<1> QED BY <1>10 DEF s

LEMMA ProjectTable ==
  ASSUME PoolTypes, RedisTypes, HistoryTypes, LogInv, ProjectedInOrder, Project
  PROVE  table' \in Seq(Calls) /\ dead' \subseteq Calls /\ ProjectedInOrder'
<1> DEFINE i == CHOOSE i \in Unsettled : \A j \in Unsettled : i <= j
<1>1. /\ Len(log) \in Nat /\ DOMAIN log = 1 .. Len(log)
      /\ \A j \in DOMAIN log : log[j] \in LogRecord
  BY LenProperties, ElementOfSeq DEF RedisTypes
<1>2. i \in Unsettled /\ \A j \in Unsettled : i <= j
  <2>1. Unsettled # {} /\ Unsettled \in SUBSET Nat
    BY <1>1 DEF Project, Unsettled
  <2> QED BY <2>1, LeastNatural
<1>3. /\ log' = log /\ lost' = lost
      /\ IF log[i].sequence = Len(table) + 1
           THEN table' = Append(table, log[i].event) /\ dead' = dead
           ELSE dead' = dead \union {log[i].event} /\ table' = table
  BY DEF Project, SameRedis, redisVars, SameHistory, history
<1> HIDE DEF i
<1>4. i \in DOMAIN log /\ log[i].event \in Calls
  BY <1>1, <1>2 DEF Unsettled, LogRecord
<1>5. CASE log[i].sequence = Len(table) + 1
  <2>1. table' = Append(table, log[i].event) /\ dead' = dead
    BY <1>3, <1>5
  <2>2. table \in Seq(Calls)
    BY DEF HistoryTypes
  <2>3. /\ table' \in Seq(Calls) /\ DOMAIN table = 1 .. Len(table)
        /\ DOMAIN table' = 1 .. Len(table) + 1 /\ Len(table) \in Nat
        /\ \A j \in 1 .. Len(table) : table'[j] = table[j]
        /\ table'[Len(table) + 1] = log[i].event
    BY <1>4, <2>1, <2>2, AppendProperties, LenProperties
  <2>4. ProjectionIsPrefix'
    <3> SUFFICES ASSUME NEW j \in 1 .. Len(table) + 1
                 PROVE  \/ table'[j] \in lost
                        \/ \E k \in DOMAIN log : log[k].event = table'[j] /\ log[k].sequence = j
      BY <1>3, <2>3 DEF ProjectionIsPrefix
    <3>1. CASE j = Len(table) + 1
      BY <1>4, <1>5, <2>3, <3>1
    <3>2. CASE j \in 1 .. Len(table)
      BY <2>3, <3>2 DEF ProjectedInOrder, ProjectionIsPrefix
    <3> QED BY <2>3, <3>1, <3>2
  <2>5. RefusedOnlyAfterLoss'
    <3> SUFFICES ASSUME dead # {} PROVE \E j \in DOMAIN table' : table'[j] \in lost
      BY <1>3, <2>1 DEF RefusedOnlyAfterLoss
    <3>1. PICK j \in DOMAIN table : table[j] \in lost
      BY DEF ProjectedInOrder, RefusedOnlyAfterLoss
    <3>2. j \in DOMAIN table' /\ table'[j] = table[j]
      BY <2>3
    <3> QED BY <3>1, <3>2
  <2> QED BY <2>1, <2>3, <2>4, <2>5 DEF ProjectedInOrder, HistoryTypes
<1>6. CASE log[i].sequence # Len(table) + 1
  <2>1. dead' = dead \union {log[i].event} /\ table' = table
    BY <1>3, <1>6
  <2>2. \E j \in DOMAIN table : table[j] \in lost
    BY <1>2, <1>6, NextSequence DEF ProjectedInOrder, RefusedOnlyAfterLoss
  <2>3. RefusedOnlyAfterLoss'
    BY <1>3, <2>1, <2>2 DEF RefusedOnlyAfterLoss
  <2>4. ProjectionIsPrefix'
    BY <1>3, <2>1 DEF ProjectedInOrder, ProjectionIsPrefix
  <2> QED BY <1>4, <2>1, <2>3, <2>4 DEF ProjectedInOrder, HistoryTypes
<1> QED BY <1>5, <1>6

-----------------------------------------------------------------------------
(* Every step. *)

IInv ==
  /\ PoolTypes /\ RedisTypes /\ HistoryTypes
  /\ PoolInv /\ Keyed /\ LogInv
  /\ ConfirmInv /\ ProjectedInOrder

\* What a step does to the calls and the pool.
CallsStep == PoolTypes' /\ PoolInv' /\ Keyed' /\ CallsKeep

\* A step that leaves Redis and the projection alone.
LEMMA QuietStep ==
  ASSUME IInv, CallsStep, HistoryTypes', SameRedis, UNCHANGED <<table, dead, lost>>,
         sure' = sure, across' = across, \A d \in Calls : Kept(d)
  PROVE  IInv'
<1>1. RedisTypes'
  BY DEF IInv, RedisTypes, SameRedis, redisVars
<1>2. LogInv' /\ LogGrows
  BY LogStays DEF IInv, CallsStep, SameRedis, redisVars
<1>3. \A r \in Replicas : copied[r] <= copied'[r]
  BY DEF IInv, RedisTypes, SameRedis, redisVars
<1>4. ConfirmInv'
  BY <1>1, <1>2, <1>3, ConfirmStays DEF IInv
<1>5. ProjectedInOrder'
  BY <1>2, TableStays DEF IInv
<1> QED BY <1>1, <1>2, <1>4, <1>5 DEF IInv, CallsStep

LEMMA AcquireStep ==
  ASSUME IInv, NEW c \in Calls, NEW key \in Keys, Acquire(c, key)
  PROVE  IInv'
<1>1. PoolTypes' /\ PoolInv'
  BY AcquirePool DEF IInv
<1>2. PICK x : call' = [call EXCEPT ![c] = x] /\ x.key = key /\ x.at \in {"leased", "waiting"}
  <2>1. CASE busy # trial.entries
    <3> DEFINE x == [at |-> "leased", key |-> key, entry |-> Min(trial.entries \ busy)]
    <3>1. call' = [call EXCEPT ![c] = x]
      BY <2>1 DEF Acquire, Leased
    <3>2. x.key = key /\ x.at = "leased"
      OBVIOUS
    <3> HIDE DEF x
    <3> QED BY <3>1, <3>2
  <2>2. CASE busy = trial.entries
    <3> DEFINE x == [at |-> "waiting", key |-> key, entry |-> NoEntry]
    <3>1. call' = [call EXCEPT ![c] = x]
      BY <2>2 DEF Acquire
    <3>2. x.key = key /\ x.at = "waiting"
      OBVIOUS
    <3> HIDE DEF x
    <3> QED BY <3>1, <3>2
  <2> QED BY <2>1, <2>2
<1>3. call[c].at = "none" /\ call'[c] = x /\ \A d \in Calls \ {c} : call'[d] = call[d]
  BY <1>2 DEF Acquire, IInv, PoolTypes
<1>4. /\ SameRedis /\ UNCHANGED <<table, dead, sure, across, lost>> /\ faults' = faults
  BY DEF Acquire, Elsewhere, projectionVars, SameHistory, history, NoFault
<1>5. CallsStep
  BY <1>1, <1>2, <1>3 DEF IInv, CallsStep, Keyed, CallsKeep
<1>6. \A d \in Calls : Kept(d)
  BY <1>2, <1>3, <1>4 DEF Kept, SameRedis, redisVars
<1>7. HistoryTypes'
  BY <1>4 DEF IInv, HistoryTypes
<1> QED BY <1>4, <1>5, <1>6, <1>7, QuietStep

\* Handing the entry on: for the pool, and for the calls.
LEMMA ReleaseCalls ==
  ASSUME IInv, NEW c \in Calls, call[c].at \in Holding, Release(c), trial' = trial
  PROVE  /\ CallsStep
         /\ \A d \in Calls : call'[d].at \in {"evaluated", "probed"} => call'[d] = call[d]
<1>1. /\ PoolTypes' /\ PoolInv'
      /\ \A d \in Calls : call'[d].key = call[d].key
      /\ \A d \in Calls \ {c} : call'[d] # call[d] => call[d].at = "waiting" /\ call'[d].at = "leased"
      /\ call'[c].at = "done"
  BY ReleasePool DEF IInv
<1>2. CallsKeep
  BY <1>1 DEF CallsKeep, Holding
<1>3. \A d \in Calls : call'[d].at # "none" => call[d].at # "none"
  BY <1>1 DEF Holding
<1>4. Keyed'
  BY <1>1, <1>3 DEF IInv, Keyed
<1>5. \A d \in Calls : call'[d].at \in {"evaluated", "probed"} => call'[d] = call[d]
  BY <1>1
<1> QED BY <1>1, <1>2, <1>4, <1>5 DEF CallsStep

\* The ways out that confirm nothing.
LEMMA GiveUpStep ==
  ASSUME IInv, NEW c \in Calls, Refuse(c) \/ CommandFails(c) \/ Unconfirmed(c)
  PROVE  IInv'
<1>1. /\ call[c].at \in Holding /\ Release(c) /\ trial' = trial /\ faults' \in Nat
      /\ SameRedis /\ UNCHANGED <<table, dead, sure, across, lost>>
  BY DEF Refuse, CommandFails, Unconfirmed, Holding, NoFault, Fault, Elsewhere, projectionVars,
         SameHistory, history, IInv, HistoryTypes
<1>2. CallsStep
  BY <1>1, ReleaseCalls
<1>3. \A d \in Calls : Kept(d)
  BY <1>1, ReleaseCalls DEF Kept, SameRedis, redisVars
<1>4. HistoryTypes'
  BY <1>1 DEF IInv, HistoryTypes
<1> QED BY <1>1, <1>2, <1>3, <1>4, QuietStep

\* A confirmation: the acknowledging replica has the probe, and all before it.
LEMMA ConfirmStep ==
  ASSUME IInv, NEW c \in Calls, Confirm(c)
  PROVE  IInv'
<1>1. /\ call[c].at = "probed" /\ Acknowledged(c) /\ Release(c) /\ trial' = trial /\ faults' = faults
      /\ SameRedis /\ UNCHANGED <<table, dead, across, lost>>
      /\ sure' = IF c \in across THEN sure ELSE sure \union {call[c].key}
  BY DEF Confirm, NoFault, Elsewhere, projectionVars
<1>2. CallsStep /\ \A d \in Calls : Kept(d)
  BY <1>1, ReleaseCalls DEF Kept, SameRedis, redisVars, Holding
<1>3. call[c].key \in Keys /\ call[c].entry \in Entries
  BY <1>1 DEF IInv, Keyed, PoolInv, HolderWorks, Holding, PoolTypes, CallRecord
<1>4. c \notin across =>
        \E i \in DOMAIN log : log[i].key = call[c].key /\ \E r \in Replicas : i <= copied[r]
  <2> SUFFICES ASSUME c \notin across
               PROVE  \E i \in DOMAIN log : log[i].key = call[c].key /\ \E r \in Replicas : i <= copied[r]
    OBVIOUS
  <2>1. PICK i \in DOMAIN log : log[i].key = call[c].key /\ i < seen[call[c].entry]
    BY <1>1 DEF IInv, ConfirmInv, WrittenFor
  <2>2. Acknowledging(call[c].entry) # {}
    <3>1. Cardinality(Acknowledging(call[c].entry)) >= Required
      BY <1>1 DEF Acknowledged
    <3>2. Cardinality({}) = 0
      BY FS_EmptySet
    <3> QED BY <3>1, <3>2, PoolAssumption
  <2>3. PICK r \in Replicas : copied[r] >= seen[call[c].entry]
    BY <2>2 DEF Acknowledging, IInv, RedisTypes
  <2>4. i \in Int /\ copied[r] \in Int /\ seen[call[c].entry] \in Int
    BY <1>3, LenProperties DEF IInv, RedisTypes
  <2>5. i <= copied[r]
    BY <2>1, <2>3, <2>4
  <2> QED BY <2>1, <2>5
<1>5. RedisTypes' /\ HistoryTypes'
  BY <1>1, <1>3 DEF IInv, RedisTypes, HistoryTypes, SameRedis, redisVars
<1>6. LogInv' /\ LogGrows
  BY <1>1, <1>2, LogStays DEF IInv, CallsStep, SameRedis, redisVars
<1>7. ConfirmInv'
  <2>1. ASSUME NEW key \in sure'
        PROVE  \E i \in DOMAIN log : log[i].key = key /\ \E r \in Replicas : i <= copied[r]
    BY <1>1, <1>4, <2>1 DEF IInv, ConfirmInv
  <2>2. ASSUME NEW d \in Calls \ across PROVE WrittenFor(d)'
    <3>1. log' = log /\ WrittenFor(d) /\ Kept(d)
      BY <1>1, <1>2 DEF IInv, ConfirmInv, SameRedis, redisVars
    <3> QED BY <3>1 DEF WrittenFor, Kept, Has
  <2> QED BY <1>1, <2>1, <2>2 DEF ConfirmInv, SameRedis, redisVars
<1>8. ProjectedInOrder'
  BY <1>1, <1>6, TableStays DEF IInv
<1> QED BY <1>2, <1>5, <1>6, <1>7, <1>8 DEF IInv, CallsStep

\* The calls of a step that goes on with its entry ...
LEMMA GoesCalls ==
  ASSUME IInv, NEW c \in Calls, call[c].at \in Holding, NEW at \in Holding, trial' = trial,
         Goes(c, at)
  PROVE  /\ CallsStep
         /\ call'[c] = [at |-> at, key |-> call[c].key, entry |-> call[c].entry]
         /\ \A d \in Calls \ {c} : call'[d] = call[d]
<1>1. /\ PoolTypes' /\ PoolInv'
      /\ call'[c] = [at |-> at, key |-> call[c].key, entry |-> call[c].entry]
      /\ \A d \in Calls \ {c} : call'[d] = call[d]
  BY GoesPool DEF IInv
<1>2. Keyed' /\ CallsKeep
  BY <1>1 DEF IInv, Keyed, CallsKeep, Holding
<1> QED BY <1>1, <1>2 DEF CallsStep

\* ... and of one that leaves the calls alone.
LEMMA SameCalls ==
  ASSUME IInv, UNCHANGED callVars, trial' = trial
  PROVE  CallsStep /\ call' = call
BY DEF callVars, IInv, PoolTypes, PoolInv, HolderWorks, LentOnce, BusyIsLent, QueueInv,
       Keyed, CallsKeep, CallsStep

\* The script and the probe: what they write is the call's, and under its entry.
LEMMA WriteStep ==
  ASSUME IInv, NEW c \in Calls,
         Evaluate(c) \/ EvaluateUnanswered(c) \/ SetProbe(c)
  PROVE  IInv'
<1>1. /\ call[c].at \in {"leased", "evaluated"} /\ trial' = trial /\ faults' \in Nat
      /\ UNCHANGED <<table, dead, sure, across, lost>>
  BY DEF Evaluate, EvaluateUnanswered, SetProbe, NoFault, Fault, Elsewhere, projectionVars,
         SameHistory, history, IInv, HistoryTypes
<1>2. call[c].key \in Keys /\ call[c].entry \in Entries /\ call[c].at \in Holding
  BY <1>1 DEF IInv, Keyed, PoolInv, HolderWorks, Holding, PoolTypes, CallRecord
<1>3. /\ CallsStep
      /\ call'[c].key = call[c].key /\ call'[c].entry = call[c].entry
      /\ \A d \in Calls \ {c} : call'[d] = call[d]
      /\ call'[c].at = "evaluated" => Script(c)
      /\ call'[c].at = "probed" => call[c].at = "evaluated" /\ Writes(c, Probe)
      /\ call'[c].at \in {"leased", "evaluated", "probed"}
      /\ \/ Script(c) /\ call'[c].at # "probed"
         \/ Writes(c, Probe) /\ call'[c].at = "probed"
  <2>1. CASE Evaluate(c)
    <3>1. Goes(c, "evaluated") /\ Script(c)
      BY <2>1 DEF Evaluate
    <3>2. "evaluated" \in Holding
      BY DEF Holding
    <3>3. /\ CallsStep
          /\ call'[c] = [at |-> "evaluated", key |-> call[c].key, entry |-> call[c].entry]
          /\ \A d \in Calls \ {c} : call'[d] = call[d]
      BY <1>1, <1>2, <3>1, <3>2, GoesCalls
    <3> QED BY <3>1, <3>3
  <2>2. CASE EvaluateUnanswered(c)
    <3>1. UNCHANGED callVars /\ Script(c) /\ call[c].at = "leased"
      BY <2>2 DEF EvaluateUnanswered
    <3>2. CallsStep /\ call' = call
      BY <1>1, <3>1, SameCalls
    <3> QED BY <3>1, <3>2
  <2>3. CASE SetProbe(c)
    <3>1. Goes(c, "probed") /\ Writes(c, Probe) /\ call[c].at = "evaluated"
      BY <2>3 DEF SetProbe
    <3>2. "probed" \in Holding
      BY DEF Holding
    <3>3. /\ CallsStep
          /\ call'[c] = [at |-> "probed", key |-> call[c].key, entry |-> call[c].entry]
          /\ \A d \in Calls \ {c} : call'[d] = call[d]
      BY <1>1, <1>2, <3>1, <3>2, GoesCalls
    <3> QED BY <3>1, <3>3
  <2> QED BY <2>1, <2>2, <2>3
<1>4. HistoryTypes'
  BY <1>1 DEF IInv, HistoryTypes
<1>5. CASE SameRedis
  <2>1. RedisTypes'
    BY <1>5 DEF IInv, RedisTypes, SameRedis, redisVars
  <2>2. LogInv' /\ LogGrows
    BY <1>3, <1>5, LogStays DEF IInv, CallsStep, SameRedis, redisVars
  <2>3. \A r \in Replicas : copied[r] <= copied'[r]
    BY <1>5 DEF IInv, RedisTypes, SameRedis, redisVars
  <2>4. \A d \in Calls \ {c} : Kept(d)
    BY <1>3, <1>5 DEF Kept, SameRedis, redisVars
  <2>5. Len(log) \in Nat /\ Len(log') = Len(log) /\ log' = log
    BY <1>5, LenProperties DEF SameRedis, redisVars, IInv, RedisTypes
  <2>6. ~Writes(c, Probe)
    <3> SUFFICES ASSUME Writes(c, Probe) PROVE FALSE
      OBVIOUS
    <3>1. seen' = seen /\ seen \in [Entries -> 0 .. Len(log)]
      BY <1>5 DEF SameRedis, redisVars, IInv, RedisTypes
    <3>2. seen'[call[c].entry] = Len(log) + 1
      BY <1>2, <3>1 DEF Writes
    <3> QED BY <1>2, <2>5, <3>1, <3>2
  <2>7. ~Writes(c, Mutation(c))
    <3> SUFFICES ASSUME Writes(c, Mutation(c)) PROVE FALSE
      OBVIOUS
    <3>1. seen' = seen /\ seen \in [Entries -> 0 .. Len(log)]
      BY <1>5 DEF SameRedis, redisVars, IInv, RedisTypes
    <3>2. seen'[call[c].entry] = Len(log) + 1
      BY <1>2, <3>1 DEF Writes
    <3> QED BY <1>2, <2>5, <3>1, <3>2
  <2>8. WrittenFor(c)'
    <3>1. Script(c) => Has(call[c].key)
      BY <2>7 DEF Script
    <3> QED BY <1>3, <2>5, <2>6, <3>1 DEF WrittenFor, Has
  <2>9. ConfirmInv'
    BY <1>1, <2>1, <2>2, <2>3, <2>4, <2>8, ConfirmStays DEF IInv
  <2>10. ProjectedInOrder'
    BY <1>1, <2>2, TableStays DEF IInv
  <2> QED BY <1>3, <1>4, <2>1, <2>2, <2>9, <2>10 DEF IInv, CallsStep
<1>6. ASSUME NEW w, (w = Mutation(c) /\ ~Has(call[c].key)) \/ w = Probe, Writes(c, w),
             w = Probe => call'[c].at # "evaluated",
             w # Probe => call'[c].at # "probed"
      PROVE  IInv'
  <2>1. /\ RedisTypes' /\ LogInv' /\ LogGrows
        /\ Len(log') = Len(log) + 1 /\ log'[Len(log) + 1] = w
        /\ seen'[call[c].entry] = Len(log) + 1
        /\ \A e \in Entries \ {call[c].entry} : seen'[e] = seen[e]
    BY <1>1, <1>2, <1>3, <1>6, LogWrites DEF IInv, CallsStep
  <2>2. /\ Len(log) \in Nat /\ DOMAIN log = 1 .. Len(log) /\ DOMAIN log' = 1 .. Len(log) + 1
    BY <2>1, LenProperties DEF IInv, RedisTypes
  <2>3. \A r \in Replicas : copied[r] <= copied'[r]
    BY <1>6 DEF Writes, IInv, RedisTypes
  <2>4. \A d \in Calls \ {c} : Kept(d)
    <3> SUFFICES ASSUME NEW d \in Calls \ {c}, call'[d].at \in {"evaluated", "probed"}
                 PROVE  seen'[call[d].entry] = seen[call[d].entry]
      BY <1>3 DEF Kept
    <3>1. call[d].entry \in Entries /\ call[d].entry # call[c].entry
      BY <1>2, <1>3 DEF IInv, PoolInv, HolderWorks, LentOnce, Holding, PoolTypes, CallRecord
    <3> QED BY <2>1, <3>1
  <2>5. WrittenFor(c)' \/ c \in across'
    <3> SUFFICES ASSUME c \notin across PROVE WrittenFor(c)'
      BY <1>1
    <3>1. call'[c].at = "evaluated" => \E i \in DOMAIN log' : log'[i].key = call'[c].key
      <4> SUFFICES ASSUME call'[c].at = "evaluated" PROVE log'[Len(log) + 1].key = call'[c].key
        BY <2>2
      <4> QED BY <1>3, <1>6, <2>1 DEF Mutation
    <3>2. call'[c].at = "probed" =>
            \E i \in DOMAIN log' : log'[i].key = call'[c].key /\ i < seen'[call'[c].entry]
      <4> SUFFICES ASSUME call'[c].at = "probed"
                   PROVE  \E i \in DOMAIN log' : log'[i].key = call'[c].key /\ i < seen'[call'[c].entry]
        OBVIOUS
      <4>1. PICK i \in DOMAIN log : log[i].key = call[c].key
        BY <1>3 DEF IInv, ConfirmInv, WrittenFor, Has
      <4>2. i \in DOMAIN log' /\ log'[i].key = call'[c].key
        BY <1>3, <2>1, <4>1 DEF LogGrows
      <4>3. i < seen'[call'[c].entry]
        BY <1>3, <2>1, <2>2, <4>1
      <4> QED BY <4>2, <4>3
    <3> QED BY <3>1, <3>2 DEF WrittenFor, Has
  <2>6. ConfirmInv'
    BY <1>1, <2>1, <2>3, <2>4, <2>5, ConfirmStays DEF IInv
  <2>7. ProjectedInOrder'
    BY <1>1, <2>1, TableStays DEF IInv
  <2> QED BY <1>3, <1>4, <2>1, <2>6, <2>7 DEF IInv, CallsStep
<1>7. CASE Script(c) /\ call'[c].at # "probed"
  <2>1. CASE Has(call[c].key)
    BY <1>5, <1>7, <2>1 DEF Script
  <2>2. CASE ~Has(call[c].key)
    <3>1. Writes(c, Mutation(c)) /\ Mutation(c) # Probe
      BY <1>7, <2>2, PoolAssumption DEF Script, Mutation, Probe, NoEvent
    <3> QED BY <1>6, <1>7, <2>2, <3>1
  <2> QED BY <2>1, <2>2
<1>8. CASE Writes(c, Probe) /\ call'[c].at = "probed"
  BY <1>6, <1>8
<1> QED BY <1>3, <1>7, <1>8

\* Replication only adds to what the replicas have.
LEMMA ReplicateStep ==
  ASSUME IInv, NEW r \in Replicas, Replicate(r)
  PROVE  IInv'
<1>1. /\ r \in attached /\ copied[r] < Len(log) /\ copied' = [copied EXCEPT ![r] = @ + 1]
      /\ UNCHANGED callVars /\ UNCHANGED <<log, attached, seen>> /\ trial' = trial /\ faults' = faults
      /\ UNCHANGED <<table, dead, sure, across, lost>>
  BY DEF Replicate, Elsewhere, projectionVars, SameHistory, history, NoFault
<1>2. CallsStep /\ call' = call
  BY <1>1, SameCalls
<1>3. Len(log) \in Nat
  BY LenProperties DEF IInv, RedisTypes
<1>4. RedisTypes' /\ \A s \in Replicas : copied[s] <= copied'[s]
  BY <1>1, <1>3 DEF IInv, RedisTypes
<1>5. HistoryTypes'
  BY <1>1 DEF IInv, HistoryTypes
<1>6. LogInv' /\ LogGrows
  BY <1>1, <1>2, LogStays DEF IInv, CallsStep
<1>7. \A d \in Calls : Kept(d)
  BY <1>1, <1>2 DEF Kept
<1>8. ConfirmInv'
  BY <1>1, <1>4, <1>6, <1>7, ConfirmStays DEF IInv
<1>9. ProjectedInOrder'
  BY <1>1, <1>6, TableStays DEF IInv
<1> QED BY <1>2, <1>4, <1>5, <1>6, <1>8, <1>9 DEF IInv, CallsStep

LEMMA DetachStep ==
  ASSUME IInv, NEW r \in Replicas, Detach(r)
  PROVE  IInv'
<1>1. /\ attached' = attached \ {r}
      /\ UNCHANGED callVars /\ UNCHANGED <<log, copied, seen>> /\ trial' = trial /\ faults' = faults + 1
      /\ UNCHANGED <<table, dead, sure, across, lost>>
  BY DEF Detach, Fault, Elsewhere, projectionVars, SameHistory, history
<1>2. CallsStep /\ call' = call
  BY <1>1, SameCalls
<1>3. RedisTypes' /\ \A s \in Replicas : copied[s] <= copied'[s]
  BY <1>1 DEF IInv, RedisTypes
<1>4. HistoryTypes'
  BY <1>1 DEF IInv, HistoryTypes
<1>5. LogInv' /\ LogGrows
  BY <1>1, <1>2, LogStays DEF IInv, CallsStep
<1>6. \A d \in Calls : Kept(d)
  BY <1>1, <1>2 DEF Kept
<1>7. ConfirmInv'
  BY <1>1, <1>3, <1>5, <1>6, ConfirmStays DEF IInv
<1>8. ProjectedInOrder'
  BY <1>1, <1>5, TableStays DEF IInv
<1> QED BY <1>2, <1>3, <1>4, <1>5, <1>7, <1>8 DEF IInv, CallsStep

\* A failover: what the new primary has not, is lost, and no confirmed key is.
LEMMA FailoverStep ==
  ASSUME IInv, NEW r \in Replicas, Failover(r)
  PROVE  IInv'
<1> DEFINE n == copied[r]
           gone == {log[i].event : i \in n + 1 .. Len(log)} \ {NoEvent}
<1>1. /\ attached = Replicas /\ \A s \in Replicas : copied[s] <= n
      /\ log' = SubSeq(log, 1, n) /\ attached' = attached \ {r} /\ seen' = [e \in Entries |-> 0]
      /\ across' = across \union {c \in Calls : call[c].at \in {"evaluated", "probed"}}
      /\ lost' = lost \union gone
      /\ UNCHANGED <<copied, sure, table, dead, trial>> /\ UNCHANGED callVars /\ faults' = faults + 1
  BY DEF Failover, Fault, Elsewhere, projectionVars
<1>2. CallsStep /\ call' = call
  BY <1>1, SameCalls
<1>3. /\ Len(log) \in Nat /\ DOMAIN log = 1 .. Len(log) /\ n \in 0 .. Len(log)
      /\ \A i \in 1 .. Len(log) : log[i] \in LogRecord
      /\ \A s \in Replicas : copied[s] \in Nat
  BY <1>1, LenProperties, ElementOfSeq DEF IInv, RedisTypes
<1>4. /\ log' \in Seq(LogRecord) /\ Len(log') = n /\ DOMAIN log' = 1 .. n
      /\ \A i \in 1 .. n : i \in DOMAIN log /\ log'[i] = log[i]
  BY <1>1, <1>3, CutShape DEF IInv
<1>5. gone \subseteq Calls
  BY <1>3 DEF LogRecord
<1>6. \A i \in DOMAIN log : i \notin 1 .. n => log[i].event \in gone \union {NoEvent}
  <2> SUFFICES ASSUME NEW i \in DOMAIN log, i \notin 1 .. n, log[i].event # NoEvent
               PROVE  log[i].event \in gone
    OBVIOUS
  <2>1. i \in n + 1 .. Len(log)
    BY <1>3
  <2> QED BY <2>1
<1> HIDE DEF n, gone
<1>7. RedisTypes'
  <2>1. \A s \in Replicas : copied[s] <= n
    BY <1>1
  <2>2. seen' \in [Entries -> 0 .. n]
    BY <1>1, <1>3
  <2> QED BY <1>1, <1>4, <2>1, <2>2 DEF IInv, RedisTypes
<1>8. HistoryTypes'
  BY <1>1, <1>5 DEF IInv, HistoryTypes
<1>9. LogInv'
  <2>1. n \in Nat
    BY <1>3
  <2> QED BY <1>2, <1>4, <2>1, LogCut DEF IInv
<1>10. ConfirmInv'
  <2>1. ASSUME NEW key \in sure
        PROVE  \E i \in DOMAIN log' : log'[i].key = key /\ \E s \in Replicas : i <= copied'[s]
    <3>1. PICK i \in DOMAIN log : log[i].key = key /\ \E s \in Replicas : i <= copied[s]
      BY DEF IInv, ConfirmInv
    <3>2. PICK s \in Replicas : i <= copied[s]
      BY <3>1
    <3>3. copied[s] <= n /\ i \in 1 .. Len(log) /\ n \in Nat /\ copied[s] \in Nat
      BY <1>1, <1>3
    <3>4. i \in 1 .. n
      BY <3>2, <3>3
    <3>5. log'[i].key = key /\ i <= copied'[s]
      BY <1>1, <1>4, <3>1, <3>2, <3>4
    <3> QED BY <1>4, <3>4, <3>5
  <2>2. \A c \in Calls \ across' : WrittenFor(c)'
    BY <1>1, <1>2 DEF WrittenFor
  <2> QED BY <1>1, <2>1, <2>2 DEF ConfirmInv
<1>11. ProjectedInOrder'
  <2>1. RefusedOnlyAfterLoss'
    BY <1>1 DEF IInv, ProjectedInOrder, RefusedOnlyAfterLoss
  <2>2. ASSUME NEW j \in DOMAIN table
        PROVE  \/ table[j] \in lost'
               \/ \E i \in DOMAIN log' : log'[i].event = table[j] /\ log'[i].sequence = j
    <3>1. CASE table[j] \in lost
      BY <1>1, <3>1
    <3>2. CASE table[j] \notin lost
      <4>1. PICK i \in DOMAIN log : log[i].event = table[j] /\ log[i].sequence = j
        BY <3>2 DEF IInv, ProjectedInOrder, ProjectionIsPrefix
      <4>2. table[j] # NoEvent
        BY ElementOfSeq, LenProperties, PoolAssumption DEF IInv, HistoryTypes, NoEvent
      <4>3. CASE i \in 1 .. n
        BY <1>4, <4>1, <4>3
      <4>4. CASE i \notin 1 .. n
        BY <1>1, <1>6, <4>1, <4>2, <4>4
      <4> QED BY <4>3, <4>4
    <3> QED BY <3>1, <3>2
  <2>3. ProjectionIsPrefix'
    BY <1>1, <2>2 DEF ProjectionIsPrefix
  <2> QED BY <2>1, <2>3 DEF ProjectedInOrder
<1> QED BY <1>2, <1>7, <1>8, <1>9, <1>10, <1>11 DEF IInv, CallsStep

LEMMA ProjectStep ==
  ASSUME IInv, Project
  PROVE  IInv'
<1>1. /\ UNCHANGED callVars /\ SameRedis /\ trial' = trial /\ faults' = faults
      /\ UNCHANGED <<sure, across, lost>>
  BY DEF Project, SameHistory, history, NoFault
<1>2. CallsStep /\ call' = call
  BY <1>1, SameCalls
<1>3. table' \in Seq(Calls) /\ dead' \subseteq Calls /\ ProjectedInOrder'
  BY ProjectTable DEF IInv
<1>4. HistoryTypes' /\ RedisTypes'
  BY <1>1, <1>3 DEF IInv, HistoryTypes, RedisTypes, SameRedis, redisVars
<1>5. LogInv' /\ LogGrows
  BY <1>1, <1>2, LogStays DEF IInv, CallsStep, SameRedis, redisVars
<1>6. /\ \A d \in Calls : Kept(d)
      /\ \A s \in Replicas : copied[s] <= copied'[s]
  BY <1>1, <1>2 DEF Kept, SameRedis, redisVars, IInv, RedisTypes
<1>7. ConfirmInv'
  BY <1>1, <1>4, <1>5, <1>6, ConfirmStays DEF IInv
<1> QED BY <1>2, <1>3, <1>4, <1>5, <1>7 DEF IInv, CallsStep

LEMMA InitIInv == Init => IInv
<1> SUFFICES ASSUME Init PROVE IInv
  OBVIOUS
<1>1. /\ call = [c \in Calls |-> New] /\ busy = {} /\ waiters = <<>> /\ log = <<>>
      /\ copied = [r \in Replicas |-> 0] /\ attached = Replicas /\ seen = [e \in Entries |-> 0]
      /\ table = <<>> /\ dead = {} /\ sure = {} /\ across = {} /\ lost = {}
      /\ trial \in Trials /\ faults = 0
  BY DEF Init
<1>2. Len(log) = 0 /\ DOMAIN log = {} /\ DOMAIN waiters = {} /\ DOMAIN table = {}
  BY <1>1
<1>3. PoolTypes /\ HistoryTypes /\ RedisTypes
  BY <1>1, <1>2 DEF PoolTypes, HistoryTypes, RedisTypes, CallRecord, Places, New
<1>4. PoolInv /\ Keyed
  BY <1>1, <1>2, PoolAssumption
     DEF PoolInv, HolderWorks, LentOnce, BusyIsLent, QueueInv, Keyed, New, NoEntry, Holding
<1>5. LogInv
  BY <1>2 DEF LogInv, OneWritePerKey, WrittenByCalls, Rising, Gapless
<1>6. ConfirmInv /\ ProjectedInOrder
  BY <1>1, <1>2 DEF ConfirmInv, WrittenFor, New, ProjectedInOrder, RefusedOnlyAfterLoss, ProjectionIsPrefix
<1> QED BY <1>3, <1>4, <1>5, <1>6 DEF IInv

LEMMA NextIInv == IInv /\ [Next]_vars => IInv'
<1> SUFFICES ASSUME IInv, [Next]_vars PROVE IInv'
  OBVIOUS
<1>1. ASSUME NEW c \in Calls, NEW key \in Keys, Acquire(c, key) PROVE IInv'
  BY <1>1, AcquireStep
<1>2. ASSUME NEW c \in Calls, Evaluate(c) \/ EvaluateUnanswered(c) \/ SetProbe(c) PROVE IInv'
  BY <1>2, WriteStep
<1>3. ASSUME NEW c \in Calls, Refuse(c) \/ CommandFails(c) \/ Unconfirmed(c) PROVE IInv'
  BY <1>3, GiveUpStep
<1>4. ASSUME NEW c \in Calls, Confirm(c) PROVE IInv'
  BY <1>4, ConfirmStep
<1>5. ASSUME NEW r \in Replicas, Replicate(r) \/ Detach(r) \/ Failover(r) PROVE IInv'
  BY <1>5, ReplicateStep, DetachStep, FailoverStep
<1>6. CASE Project
  BY <1>6, ProjectStep
<1>7. CASE UNCHANGED vars
  <2>1. CallsStep
    BY <1>7, SameCalls DEF vars
  <2>2. /\ HistoryTypes' /\ SameRedis /\ UNCHANGED <<table, dead, lost>>
        /\ sure' = sure /\ across' = across /\ \A d \in Calls : Kept(d)
    BY <1>7 DEF vars, callVars, SameRedis, projectionVars, history, HistoryTypes, IInv, Kept, redisVars
  <2> QED BY <2>1, <2>2, QuietStep
<1> QED BY <1>1, <1>2, <1>3, <1>4, <1>5, <1>6, <1>7 DEF Next, Step

-----------------------------------------------------------------------------
(* The theorems. *)

\* Every reachable state of the pool, Redis and the projection satisfies IInv: the
\* inductive invariant behind the theorems below.
THEOREM PoolInvariant == Spec => []IInv
BY InitIInv, NextIInv, PTL DEF Spec

\* acquireMutationClient and its releases lend a connection to one call at a time,
\* forget none and keep nobody waiting while one is free, whatever fails.
THEOREM PoolAlwaysSound == Spec => []PoolIsSound
<1>1. IInv => PoolIsSound
  <2> SUFFICES ASSUME IInv PROVE PoolIsSound
    OBVIOUS
  <2>1. TypeOK
    BY DEF TypeOK, IInv, PoolTypes, RedisTypes, HistoryTypes, CallRecord, Places, LogRecord
  <2>2. ASSUME NEW e \in Entries
        PROVE  Cardinality(Holders(e)) = IF e \in busy THEN 1 ELSE 0
    <3>0. e # NoEntry
      BY PoolAssumption DEF NoEntry
    <3>1. CASE e \in busy
      <4>1. PICK c \in Calls : call[c].entry = e
        BY <3>1 DEF IInv, PoolInv, BusyIsLent
      <4>2. Holders(e) = {c}
        BY <3>0, <4>1 DEF Holders, IInv, PoolInv, LentOnce
      <4> QED BY <3>1, <4>2, FS_Singleton
    <3>2. CASE e \notin busy
      <4>1. Holders(e) = {}
        BY <3>2 DEF Holders, IInv, PoolInv, BusyIsLent
      <4> QED BY <3>2, <4>1, FS_EmptySet
    <3> QED BY <3>1, <3>2
  <2>3. waiters # <<>> => busy = trial.entries
    BY DEF IInv, PoolInv, QueueInv
  <2>4. ToSet(waiters) = {c \in Calls : call[c].at = "waiting"}
    <3>1. \A i \in DOMAIN waiters : waiters[i] \in Calls
      BY ElementOfSeq, LenProperties DEF IInv, PoolTypes
    <3> QED BY <3>1 DEF ToSet, IInv, PoolInv, QueueInv
  <2>5. IsInjective(waiters)
    BY DEF IsInjective, IInv, PoolInv, QueueInv
  <2> QED BY <2>1, <2>2, <2>3, <2>4, <2>5 DEF PoolIsSound
<1> QED BY <1>1, PoolInvariant, PTL

\* A success told by mutate after WAIT outlives the primary: for the probe of a
\* retry too, and any number of failovers.
THEOREM ConfirmedAlwaysSurvives == Spec => []ConfirmedSurvives
<1>1. IInv => ConfirmedSurvives
  BY DEF IInv, ConfirmInv, ConfirmedSurvives, Has
<1> QED BY <1>1, PoolInvariant, PTL

\* The projector refuses an event only for one that was lost after its projection,
\* and PostgreSQL has the events of the primary under their sequences.
THEOREM AlwaysProjectedInOrder == Spec => []ProjectedInOrder
<1>1. IInv => ProjectedInOrder
  BY DEF IInv
<1> QED BY <1>1, PoolInvariant, PTL
=============================================================================

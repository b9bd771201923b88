-------------------------- MODULE SchedulerCommands --------------------------
(***************************************************************************)
(* The queue of scheduler commands: the table `scheduler_commands`, the    *)
(* operations of SchedulerCommandRepository on it, and the processes that  *)
(* call them.  A scheduler loop enqueues commands; dispatchers claim them  *)
(* and publish them over NATS; agents execute them and acknowledge; a      *)
(* sweeper times out what was never acknowledged.                          *)
(*                                                                         *)
(* Each column of the table is a function of the row's id.  A row that has *)
(* not been inserted is "NONE"; one removed by a cascade is "GONE", and    *)
(* keeps its key so that properties can speak of the whole history.        *)
(* Time is relative: retryIn is the number of ticks until next_retry_at,   *)
(* ackIn the number until ack_deadline_at, and -1 a deadline in the past,  *)
(* so the clock needs no bound.                                            *)
(***************************************************************************)
EXTENDS Integers, FiniteSets

CONSTANTS
  Dispatchers,       \* processes that claim and publish
  Devices,
  Microcontrollers,
  MicroOf,           \* the microcontroller of a device
  Slots,             \* slot ids the database will ever hand out
  FirstSlots,        \* those that exist at the start
  Actions,           \* the members of SchedulerCommandAction that occur
  Outcomes,          \* what agents report: <<transport_ok, actual_state>>
  MaxRetry,          \* max_retry
  Backoff, Jitter,   \* retry_backoff_sec and retry_jitter_sec, in ticks
  AckTimeout,        \* ack_timeout_sec, in ticks
  Inflight,          \* max_inflight_per_microcontroller
  Limit,             \* limit of claim_pending_for_dispatch
  TimeoutLimit,      \* limit of claim_timeouts
  None,              \* SQL NULL, Python None
  MaxCmds,           \* bound: rows ever inserted
  MaxMinute,         \* bound: last minute in which commands are enqueued
  MaxAcks,           \* bound: acknowledgements in transit
  MaxCrashes         \* bound: dispatcher crashes

AllActions == {"ON", "OFF", "ENABLE_POLICY", "DISABLE_POLICY"}

ASSUME TableAssumption ==
  /\ MicroOf \in [Devices -> Microcontrollers]
  /\ FirstSlots \subseteq Slots
  /\ Actions \subseteq AllActions
  /\ Outcomes \subseteq BOOLEAN \X (BOOLEAN \cup {None})

ASSUME TuningAssumption ==
  /\ MaxRetry \in Int /\ AckTimeout \in Int
  /\ Backoff \in Int /\ Jitter \in Int
  /\ Inflight \in Int /\ Limit \in Int /\ TimeoutLimit \in Int

ASSUME BoundAssumption ==
  /\ MaxCmds \in Nat /\ MaxMinute \in Nat
  /\ MaxAcks \in Nat /\ MaxCrashes \in Nat

VARIABLES
  status, key, attempt, retryIn, ackIn,  \* columns of scheduler_commands
  nextId,      \* the table's id sequence
  minute,      \* the minute_key the scheduler loop is in
  devices,     \* rows of devices
  slots,       \* slot id -> "new", "live" or "deleted"
  pc,          \* where a dispatcher is in claim_pending_for_dispatch
  held,        \* rows a dispatcher's transaction has locked
  picked,      \* rows it has chosen, then those it has yet to publish
  failed,      \* rows whose publish raised, not yet marked
  age,         \* ticks since it read the now_utc of its claim
  stream,      \* commands in the JetStream stream, not yet consumed
  acks,        \* acknowledgements in transit
  crashes

\* Ghosts: the publish calls made for a row, and the relay commands whose
\* target state an agent has reported.
VARIABLES sends, applied

table    == <<status, key, attempt, retryIn, ackIn, nextId>>
schedule == <<minute, devices, slots>>
claims   == <<pc, held, picked, failed, age, crashes>>
network  == <<stream, acks>>
ghosts   == <<sends, applied>>
vars     == <<table, schedule, claims, network, ghosts>>

-----------------------------------------------------------------------------
Ids == 1..MaxCmds

Final    == {"ACK_OK", "ACK_FAIL", "TIMEOUT", "CANCELLED"}
Statuses == {"NONE", "GONE", "PENDING", "SENT"} \cup Final

\* The columns of uq_scheduler_idempotency.
Keys  == [device : Devices, slot : Slots, minute : 0..MaxMinute, action : Actions]
NoKey == None

ASSUME NullAssumption == None \notin Int /\ None \notin Keys

AtLeast(lo, x) == IF x < lo THEN lo ELSE x

RetryLimit    == AtLeast(0, MaxRetry)
AckTicks      == AtLeast(1, AckTimeout)
InflightLimit == AtLeast(1, Inflight)
BatchLimit    == AtLeast(1, Limit)
SweepLimit    == AtLeast(1, TimeoutLimit)
Delays        == AtLeast(0, Backoff) .. (AtLeast(0, Backoff) + AtLeast(0, Jitter))

Reports == [id : Ids, transport_ok : BOOLEAN, actual : BOOLEAN \cup {None}]

Report(i, outcome) == [id |-> i, transport_ok |-> outcome[1], actual |-> outcome[2]]

InTable(i) == status[i] \notin {"NONE", "GONE"}
Open(i)    == status[i] \in {"PENDING", "SENT"}
Micro(i)   == MicroOf[key[i].device]
Locked     == UNION {held[d] : d \in Dispatchers}
ToSend     == UNION {picked[d] : d \in Dispatchers}

TableOK ==
  /\ status \in [Ids -> Statuses]
  /\ key \in [Ids -> Keys \cup {NoKey}]
  /\ attempt \in [Ids -> 0..(RetryLimit + 1)]
  /\ retryIn \in [Ids -> Nat \cup {None}]
  /\ ackIn \in [Ids -> (-1..AckTicks) \cup {None}]
  /\ nextId \in 1..(MaxCmds + 1)

ScheduleOK ==
  /\ minute \in 0..MaxMinute
  /\ devices \subseteq Devices
  /\ slots \in [Slots -> {"new", "live", "deleted"}]

ClaimsOK ==
  /\ pc \in [Dispatchers -> {"idle", "locked", "chosen"}]
  /\ held \in [Dispatchers -> SUBSET Ids]
  /\ picked \in [Dispatchers -> SUBSET Ids]
  /\ failed \in [Dispatchers -> SUBSET Ids]
  /\ age \in [Dispatchers -> 0..(AckTicks + 1)]
  /\ crashes \in 0..MaxCrashes

NetworkOK ==
  /\ stream \subseteq Ids
  /\ acks \subseteq Reports
  /\ sends \in [Ids -> Nat]
  /\ applied \subseteq Ids

TypeOK == TableOK /\ ScheduleOK /\ ClaimsOK /\ NetworkOK

-----------------------------------------------------------------------------
Init ==
  /\ status = [i \in Ids |-> "NONE"]
  /\ key = [i \in Ids |-> NoKey]
  /\ attempt = [i \in Ids |-> 0]
  /\ retryIn = [i \in Ids |-> None]
  /\ ackIn = [i \in Ids |-> None]
  /\ nextId = 1
  /\ minute = 0
  /\ devices = Devices
  /\ slots = [s \in Slots |-> IF s \in FirstSlots THEN "live" ELSE "new"]
  /\ pc = [d \in Dispatchers |-> "idle"]
  /\ held = [d \in Dispatchers |-> {}]
  /\ picked = [d \in Dispatchers |-> {}]
  /\ failed = [d \in Dispatchers |-> {}]
  /\ age = [d \in Dispatchers |-> 0]
  /\ stream = {} /\ acks = {} /\ crashes = 0
  /\ sends = [i \in Ids |-> 0]
  /\ applied = {}

-----------------------------------------------------------------------------
(* The scheduler loop and the schedule's owner. *)

\* ON CONFLICT DO NOTHING: an insert whose key is in the table changes nothing.
Conflict(k) == \E i \in Ids : InTable(i) /\ key[i] = k

Insert(k) ==
  /\ nextId <= MaxCmds
  /\ k.device \in devices /\ slots[k.slot] = "live"
  /\ status' = [status EXCEPT ![nextId] = "PENDING"]
  /\ key' = [key EXCEPT ![nextId] = k]
  /\ retryIn' = [retryIn EXCEPT ![nextId] = 0]
  /\ nextId' = nextId + 1
  /\ UNCHANGED <<attempt, ackIn, schedule, claims, network, ghosts>>

KeyNow(dev, slot, action) ==
  [device |-> dev, slot |-> slot, minute |-> minute, action |-> action]

\* Mutant: a plain INSERT, without the unique constraint.
EnqueueUnchecked(dev, slot, action) == Insert(KeyNow(dev, slot, action))

\* Insert a PENDING row that is due at once.  The foreign keys require the
\* device and the slot to exist still.
EnqueueCommand(dev, slot, action) ==
  LET k == KeyNow(dev, slot, action) IN ~Conflict(k) /\ Insert(k)

NextMinute ==
  /\ minute < MaxMinute
  /\ minute' = minute + 1
  /\ UNCHANGED <<table, devices, slots, claims, network, ghosts>>

\* ON DELETE CASCADE takes the rows of S with it, whatever their status.  It
\* waits for a claim that has one of them locked.
Cascade(S) ==
  /\ S \cap Locked = {}
  /\ status' = [i \in Ids |-> IF i \in S THEN "GONE" ELSE status[i]]
  /\ retryIn' = [i \in Ids |-> IF i \in S THEN None ELSE retryIn[i]]
  /\ ackIn' = [i \in Ids |-> IF i \in S THEN None ELSE ackIn[i]]
  /\ UNCHANGED <<key, attempt, nextId>>

DeleteDevice(dev) ==
  /\ dev \in devices
  /\ devices' = devices \ {dev}
  /\ Cascade({i \in Ids : InTable(i) /\ key[i].device = dev})
  /\ UNCHANGED <<minute, slots, claims, network, ghosts>>

\* update_scheduler clears the slots and inserts the submitted ones under new
\* ids; with none submitted this is also delete_scheduler.
ReplaceSlots(fresh) ==
  /\ \E s \in Slots : slots[s] = "live"
  /\ \A s \in fresh : slots[s] = "new"
  /\ slots' = [s \in Slots |-> CASE s \in fresh -> "live"
                                 [] slots[s] = "live" -> "deleted"
                                 [] OTHER -> slots[s]]
  /\ Cascade({i \in Ids : InTable(i) /\ slots[key[i].slot] = "live"})
  /\ UNCHANGED <<minute, devices, claims, network, ghosts>>

-----------------------------------------------------------------------------
(* claim_pending_for_dispatch: one transaction, three statements. *)

\* ORDER BY minute_key, id
Before(i, j) ==
  \/ key[i].minute < key[j].minute
  \/ key[i].minute = key[j].minute /\ i < j

FirstOf(n, S) == {i \in S : Cardinality({j \in S : Before(j, i)}) < n}

Due(i) == status[i] = "PENDING" /\ (retryIn[i] = None \/ retryIn[i] = 0)

\* Lock the first rows that are ready, four times the batch at most.
LockFrom(d, ready) ==
  LET candidates == FirstOf(4 * BatchLimit, ready)
  IN  /\ pc[d] = "idle" /\ picked[d] = {} /\ failed[d] = {}
      /\ candidates # {}
      /\ pc' = [pc EXCEPT ![d] = "locked"]
      /\ held' = [held EXCEPT ![d] = candidates]
      /\ UNCHANGED <<table, schedule, picked, failed, age, crashes, network, ghosts>>

\* Mutant: SELECT without FOR UPDATE.
ClaimUnlocked(d) == LockFrom(d, {i \in Ids : Due(i)})

\* SELECT ... FOR UPDATE SKIP LOCKED
ClaimLock(d) == LockFrom(d, {i \in Ids \ Locked : Due(i)})

SentOf(m) == {i \in Ids : status[i] = "SENT" /\ Micro(i) = m}

\* What the loop over the candidates has room for: it skips a candidate once
\* the rows already SENT and those chosen before it fill its microcontroller.
Admitted(C) ==
  {i \in C : Cardinality(SentOf(Micro(i)))
               + Cardinality({j \in C : Micro(j) = Micro(i) /\ Before(j, i)})
             < InflightLimit}

\* Mutant: no inflight filter.
ChosenUnfiltered(C) == FirstOf(BatchLimit, C)

Chosen(C) == FirstOf(BatchLimit, Admitted(C))

\* Count the SENT rows per microcontroller and choose.  With nothing chosen
\* the transaction ends and its locks are released.
ClaimChoose(d) ==
  /\ pc[d] = "locked"
  /\ LET chosen == Chosen(held[d])
     IN  /\ picked' = [picked EXCEPT ![d] = chosen]
         /\ pc' = [pc EXCEPT ![d] = IF chosen = {} THEN "idle" ELSE "chosen"]
         /\ held' = [held EXCEPT ![d] = IF chosen = {} THEN {} ELSE @]
         /\ age' = [age EXCEPT ![d] = IF chosen = {} THEN 0 ELSE @]
  /\ UNCHANGED <<table, schedule, failed, crashes, network, ghosts>>

CommitWith(d, deadline) ==
  /\ pc[d] = "chosen"
  /\ status' = [i \in Ids |-> IF i \in picked[d] THEN "SENT" ELSE status[i]]
  /\ ackIn' = [i \in Ids |-> IF i \in picked[d] THEN deadline ELSE ackIn[i]]
  /\ pc' = [pc EXCEPT ![d] = "idle"]
  /\ held' = [held EXCEPT ![d] = {}]
  /\ age' = [age EXCEPT ![d] = 0]
  /\ UNCHANGED <<key, attempt, retryIn, nextId, schedule, picked, failed, crashes,
                 network, ghosts>>

\* Mutant: SENT without a deadline.
ClaimCommitNoDeadline(d) == CommitWith(d, None)

\* Set SENT and the deadline, and commit.  The deadline counts from the now_utc
\* the claim began with.
ClaimCommit(d) == CommitWith(d, AckTicks - age[d])

-----------------------------------------------------------------------------
(* Publishing a claimed row. *)

\* publish_command returned: JetStream stored the message.
PublishOk(d, i) ==
  /\ pc[d] = "idle" /\ i \in picked[d]
  /\ picked' = [picked EXCEPT ![d] = @ \ {i}]
  /\ stream' = stream \cup {i}
  /\ sends' = [sends EXCEPT ![i] = @ + 1]
  /\ UNCHANGED <<table, schedule, pc, held, failed, age, crashes, acks, applied>>

\* publish_command raised.  The message may be stored all the same: the reply
\* of the stream can be what was lost.
PublishRaises(d, i) ==
  /\ pc[d] = "idle" /\ i \in picked[d]
  /\ picked' = [picked EXCEPT ![d] = @ \ {i}]
  /\ failed' = [failed EXCEPT ![d] = @ \cup {i}]
  /\ stream' \in {stream, stream \cup {i}}
  /\ sends' = [sends EXCEPT ![i] = @ + 1]
  /\ UNCHANGED <<table, schedule, pc, held, age, crashes, acks, applied>>

\* Attempt n failed: back to PENDING after a delay while n is within the limit.
RetryUpTo(limit, i, n) ==
  /\ attempt' = [attempt EXCEPT ![i] = n]
  /\ ackIn' = [ackIn EXCEPT ![i] = None]
  /\ \/ /\ n <= limit
        /\ status' = [status EXCEPT ![i] = "PENDING"]
        /\ \E delay \in Delays : retryIn' = [retryIn EXCEPT ![i] = delay]
     \/ /\ n > limit
        /\ status' = [status EXCEPT ![i] = "ACK_FAIL"]
        /\ retryIn' = [retryIn EXCEPT ![i] = None]

\* Mutants: one retry too many; the attempt is not counted.
RetryOnceMore(i)  == RetryUpTo(RetryLimit + 1, i, attempt[i] + 1)
RetryUncounted(i) == RetryUpTo(RetryLimit, i, attempt[i])

RetryOrGiveUp(i) == RetryUpTo(RetryLimit, i, attempt[i] + 1)

MarkFailureIf(counts, d, i) ==
  /\ i \in failed[d] /\ i \notin Locked
  /\ failed' = [failed EXCEPT ![d] = @ \ {i}]
  /\ IF counts THEN RetryOrGiveUp(i)
               ELSE UNCHANGED <<status, attempt, retryIn, ackIn>>
  /\ UNCHANGED <<key, nextId, schedule, pc, held, picked, age, crashes, network, ghosts>>

\* Mutant: final statuses are not spared.
MarkFailureAnyStatus(d, i) == MarkFailureIf(InTable(i), d, i)

\* mark_publish_failure.  Since the publish the row may have been deleted,
\* acknowledged or timed out.
MarkPublishFailure(d, i) == MarkFailureIf(Open(i), d, i)

\* The process dies: an open transaction rolls back, and what it had chosen but
\* not published, or published in vain but not marked, is forgotten.
Crash(d) ==
  /\ crashes < MaxCrashes
  /\ pc[d] # "idle" \/ picked[d] # {} \/ failed[d] # {}
  /\ crashes' = crashes + 1
  /\ pc' = [pc EXCEPT ![d] = "idle"]
  /\ held' = [held EXCEPT ![d] = {}]
  /\ picked' = [picked EXCEPT ![d] = {}]
  /\ failed' = [failed EXCEPT ![d] = {}]
  /\ age' = [age EXCEPT ![d] = 0]
  /\ UNCHANGED <<table, schedule, network, ghosts>>

-----------------------------------------------------------------------------
(* Acknowledgements, the agent and the timeout sweeper. *)

\* _state_matches: a policy command has no relay state to compare, a relay
\* command fails on a missing or a different one.
StateMatches(action, actual) ==
  \/ action \in {"ENABLE_POLICY", "DISABLE_POLICY"}
  \/ action = "ON" /\ actual = TRUE
  \/ action = "OFF" /\ actual = FALSE

\* The agent executes a command it finds in the stream, or fails to, and
\* reports.  Delivery is at least once, so the message may come again; one that
\* is lost is never handled.
AgentHandles(i, outcome) ==
  LET report == Report(i, outcome)
  IN  /\ i \in stream
      /\ Cardinality(acks) < MaxAcks
      /\ acks' = acks \cup {report}
      /\ applied' = IF report.transport_ok /\ StateMatches(key[i].action, report.actual)
                    THEN applied \cup {i} ELSE applied
      /\ stream' \in {stream, stream \ {i}}
      /\ UNCHANGED <<table, schedule, claims, sends>>

LoseAck(a) ==
  /\ a \in acks
  /\ acks' = acks \ {a}
  /\ UNCHANGED <<table, schedule, claims, stream, ghosts>>

AckSettles(a, settles, ok) ==
  /\ a \in acks /\ a.id \notin Locked
  /\ acks' \in {acks, acks \ {a}}
  /\ IF settles
     THEN /\ status' = [status EXCEPT ![a.id] = IF ok THEN "ACK_OK" ELSE "ACK_FAIL"]
          /\ retryIn' = [retryIn EXCEPT ![a.id] = None]
          /\ ackIn' = [ackIn EXCEPT ![a.id] = None]
     ELSE UNCHANGED <<status, retryIn, ackIn>>
  /\ UNCHANGED <<key, attempt, nextId, schedule, claims, stream, ghosts>>

AckOk(a) == a.transport_ok /\ StateMatches(key[a.id].action, a.actual)

\* Mutants: final statuses are not spared; the reported state is not compared.
MarkAckAnyStatus(a)  == AckSettles(a, InTable(a.id), AckOk(a))
MarkAckTransport(a)  == AckSettles(a, Open(a.id), a.transport_ok)

\* mark_ack waits for a claim that holds the row.  It settles an open row,
\* SENT or back to PENDING, and ignores one that is deleted or final.
MarkAck(a) == AckSettles(a, Open(a.id), AckOk(a))

Overdue == {i \in Ids : status[i] = "SENT" /\ ackIn[i] # None /\ ackIn[i] < 0}

\* claim_timeouts: the oldest deadlines first.  Deadlines in the past are not
\* told apart here, so the batch is any of the overdue rows.
ClaimTimeouts ==
  /\ Overdue # {}
  /\ \E batch \in SUBSET Overdue :
       /\ Cardinality(batch) = IF Cardinality(Overdue) < SweepLimit
                               THEN Cardinality(Overdue) ELSE SweepLimit
       /\ status' = [i \in Ids |-> IF i \in batch THEN "TIMEOUT" ELSE status[i]]
       /\ retryIn' = [i \in Ids |-> IF i \in batch THEN None ELSE retryIn[i]]
       /\ ackIn' = [i \in Ids |-> IF i \in batch THEN None ELSE ackIn[i]]
  /\ UNCHANGED <<key, attempt, nextId, schedule, claims, network, ghosts>>

\* One tick of the clock.
Tick ==
  /\ retryIn' = [i \in Ids |-> IF retryIn[i] = None THEN None ELSE AtLeast(0, retryIn[i] - 1)]
  /\ ackIn' = [i \in Ids |-> IF ackIn[i] = None THEN None ELSE AtLeast(-1, ackIn[i] - 1)]
  /\ age' = [d \in Dispatchers |-> IF pc[d] # "idle" /\ age[d] <= AckTicks
                                   THEN age[d] + 1 ELSE age[d]]
  /\ UNCHANGED <<status, key, attempt, nextId, schedule, pc, held, picked, failed,
                 crashes, network, ghosts>>

-----------------------------------------------------------------------------
Publishing(d, i) == PublishOk(d, i) \/ PublishRaises(d, i)

Dispatching(d) ==
  \/ ClaimLock(d) \/ ClaimChoose(d) \/ ClaimCommit(d)
  \/ \E i \in Ids : Publishing(d, i) \/ MarkPublishFailure(d, i)

Next ==
  \/ \E dev \in Devices, slot \in Slots, action \in Actions :
       EnqueueCommand(dev, slot, action)
  \/ NextMinute
  \/ \E dev \in Devices : DeleteDevice(dev)
  \/ \E fresh \in SUBSET Slots : ReplaceSlots(fresh)
  \/ \E d \in Dispatchers : Dispatching(d) \/ Crash(d)
  \/ \E i \in Ids, outcome \in Outcomes : AgentHandles(i, outcome)
  \/ \E a \in acks : LoseAck(a) \/ MarkAck(a)
  \/ ClaimTimeouts
  \/ Tick

Spec == Init /\ [][Next]_vars

\* The dispatcher and the sweeper are polling loops that keep running, a publish
\* ends (NatsPublisher makes three attempts under a timeout), and time passes.
\* Users, agents and the network owe nothing.
Fairness ==
  /\ \A d \in Dispatchers : WF_vars(Dispatching(d))
  /\ WF_vars(ClaimTimeouts)
  /\ WF_vars(Tick)

FairSpec == Spec /\ Fairness

-----------------------------------------------------------------------------
(* Safety. *)

\* A row is open exactly as long as some timer can move it on: SENT with a
\* deadline for the sweeper, PENDING with a retry time for a claim; a settled
\* row has neither.  (claim_timeouts never sees a SENT row without deadline.)
TimersMatchStatus ==
  \A i \in Ids :
    /\ status[i] = "SENT" <=> ackIn[i] # None
    /\ status[i] = "PENDING" => retryIn[i] # None
    /\ status[i] \in Final => retryIn[i] = None

\* uq_scheduler_idempotency over the whole history: a device gets one command
\* per slot, minute and action, even when cascades have removed rows, because
\* a key whose row is gone refers to a device or slot that is gone.
OneCommandPerKey ==
  \A i, j \in Ids : i # j /\ key[i] # NoKey => key[i] # key[j]

\* A command is in the hands of at most one dispatcher, from the claim's lock to
\* the end of its publish, whatever claims, crashes and retries interleave.
ExclusiveDispatch ==
  \A d, e \in Dispatchers :
    d # e => (held[d] \cup picked[d] \cup failed[d])
                \cap (held[e] \cup picked[e] \cup failed[e]) = {}

\* publish_command runs at most max_retry + 1 times for a command, however
\* timeouts, late acknowledgements and crashes interleave with the retries.
SendsBounded == \A i \in Ids : sends[i] <= RetryLimit + 1

\* ACK_OK is never recorded for a command no agent reported to have carried out.
NoFalseSuccess == \A i \in Ids : status[i] = "ACK_OK" => i \in applied

\* Never more than max_inflight_per_microcontroller commands of one
\* microcontroller are SENT.  It needs a single dispatcher: the count and the
\* commit are two statements, and no lock covers the SENT rows.
InflightBounded == \A m \in Microcontrollers : Cardinality(SentOf(m)) <= InflightLimit

\* A settled command stays as it is until its row is deleted: late and repeated
\* acknowledgements, late publish failures and sweeps leave it alone.
SettledIsFinal ==
  [][\A i \in Ids : status[i] \in Final =>
       /\ status'[i] \in {status[i], "GONE"}
       /\ attempt'[i] = attempt[i]]_vars

(* Liveness. *)

\* Every command leaves the queue: it is settled, or deleted.
EveryCommandSettles == \A i \in Ids : Open(i) ~> ~Open(i)

-----------------------------------------------------------------------------
(* Each row follows the abstract lifecycle of module CommandLifecycle. *)

PhaseOf(st) ==
  CASE st = "NONE"    -> "none"
    [] st = "PENDING" -> "queued"
    [] st = "SENT"    -> "outstanding"
    [] st \in Final   -> "settled"
    [] st = "GONE"    -> "removed"

Lifecycle == INSTANCE CommandLifecycle
               WITH Tries <- RetryLimit + 1,
                    phase <- [i \in Ids |-> PhaseOf(status[i])],
                    used  <- attempt

LifecycleSpec == Lifecycle!Spec
=============================================================================

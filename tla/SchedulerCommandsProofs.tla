----------------------- MODULE SchedulerCommandsProofs -----------------------
(***************************************************************************)
(* Safety of the scheduler command queue for every number of rows,         *)
(* dispatchers, devices and slots and every setting of the limits.  The    *)
(* safety properties are not inductive one by one; IInv, below, is.        *)
(***************************************************************************)
EXTENDS SchedulerCommands, FiniteSetTheorems, TLAPS

\* Rows below nextId have been inserted and keep their key; the others are
\* blank.
RowsAllocated ==
  \A i \in Ids :
    /\ i < nextId => key[i] \in Keys /\ status[i] # "NONE"
    /\ i >= nextId => key[i] = NoKey /\ status[i] = "NONE" /\ attempt[i] = 0

\* A row that a cascade removed refers to a device or slot that is gone.
GoneKeysDead ==
  \A i \in Ids : status[i] = "GONE" =>
    key[i].device \notin devices \/ slots[key[i].slot] = "deleted"

\* Only a settled row has used up its retries.
OpenHasRetries == \A i \in Ids : Open(i) => attempt[i] <= RetryLimit

\* What a dispatcher holds at each point of a claim: while the transaction is
\* open its rows are PENDING; after the commit none of its rows is.
ClaimShape ==
  \A d \in Dispatchers :
    /\ pc[d] = "idle" =>
         /\ held[d] = {}
         /\ \A i \in picked[d] \cup failed[d] : status[i] \notin {"NONE", "PENDING"}
         /\ picked[d] \cap failed[d] = {}
    /\ pc[d] # "idle" =>
         /\ \A i \in held[d] : status[i] = "PENDING"
         /\ picked[d] \subseteq held[d] /\ failed[d] = {}

\* Every publish is paid for by an attempt, but for the one whose failure is
\* not marked and the last, which may have succeeded.
SendsAccounted ==
  \A i \in Ids :
    /\ sends[i] <= attempt[i] + 1
    /\ status[i] \in {"NONE", "PENDING"} \/ attempt[i] > RetryLimit => sends[i] <= attempt[i]
    /\ \A d \in Dispatchers :
         /\ i \in picked[d] => sends[i] <= attempt[i] /\ attempt[i] <= RetryLimit
         /\ i \in failed[d] => attempt[i] <= RetryLimit

\* What is in transit is about inserted rows, and a favourable report is about
\* a command that was carried out.
NetworkHonest ==
  /\ \A i \in stream : status[i] # "NONE"
  /\ \A a \in acks : status[a.id] # "NONE" /\ (AckOk(a) => a.id \in applied)

TableInv ==
  /\ TableOK /\ ScheduleOK
  /\ RowsAllocated /\ TimersMatchStatus /\ GoneKeysDead
  /\ OneCommandPerKey /\ OpenHasRetries

ClaimInv == ClaimsOK /\ ClaimShape /\ ExclusiveDispatch

NetworkInv == NetworkOK /\ SendsAccounted /\ NetworkHonest /\ NoFalseSuccess

IInv == TableInv /\ ClaimInv /\ NetworkInv

-----------------------------------------------------------------------------
(* Initial states, and what a step leaves alone. *)

LEMMA LimitsAreNaturals ==
  /\ RetryLimit \in Nat
  /\ AckTicks \in Nat /\ AckTicks >= 1
  /\ Delays \subseteq Nat
BY TuningAssumption DEF RetryLimit, AckTicks, Delays, AtLeast

LEMMA InitInv == Init => IInv
<1> SUFFICES ASSUME Init PROVE IInv
  OBVIOUS
<1> USE LimitsAreNaturals, BoundAssumption, TableAssumption, NullAssumption DEF Init, Ids
<1>1. TableOK /\ ScheduleOK
  BY DEF TableOK, ScheduleOK, Statuses, Final, NoKey
<1>2. RowsAllocated /\ GoneKeysDead /\ OneCommandPerKey
  BY DEF RowsAllocated, GoneKeysDead, OneCommandPerKey, NoKey
<1>3. TimersMatchStatus /\ OpenHasRetries
  BY DEF TimersMatchStatus, OpenHasRetries, Final, Open
<1>4. ClaimsOK /\ ClaimShape /\ ExclusiveDispatch
  BY DEF ClaimsOK, ClaimShape, ExclusiveDispatch
<1>5. NetworkOK /\ SendsAccounted /\ NetworkHonest /\ NoFalseSuccess
  BY DEF NetworkOK, SendsAccounted, NetworkHonest, NoFalseSuccess
<1> QED
  BY <1>1, <1>2, <1>3, <1>4, <1>5 DEF IInv, TableInv, ClaimInv, NetworkInv

LEMMA TableFrame ==
  TableInv /\ UNCHANGED <<table, schedule>> => TableInv'
BY DEF TableInv, table, schedule, TableOK, ScheduleOK, RowsAllocated,
       TimersMatchStatus, GoneKeysDead, OneCommandPerKey, OpenHasRetries, Open

\* Rows a dispatcher has in hand stay in hand when they do not become PENDING,
\* and locked rows when nobody touches them.
LEMMA ClaimFrame ==
  ASSUME ClaimInv, TableOK, UNCHANGED claims,
         \A i \in Ids : status'[i] = "PENDING" => status[i] = "PENDING",
         \A i \in Ids : status'[i] = "NONE" => status[i] = "NONE",
         \A i \in Locked : status'[i] = status[i]
  PROVE  ClaimInv'
BY DEF ClaimInv, TableOK, claims, ClaimsOK, ClaimShape, ExclusiveDispatch, Locked

LEMMA NetworkFrame ==
  ASSUME NetworkInv, UNCHANGED <<table, network, ghosts, picked, failed>>
  PROVE  NetworkInv'
BY DEF NetworkInv, table, network, ghosts, NetworkOK, SendsAccounted,
       NetworkHonest, NoFalseSuccess, AckOk


-----------------------------------------------------------------------------
(* The scheduler loop and the schedule's owner. *)

\* The new row is blank but for its key, which no row had: the unique
\* constraint rules out a row in the table, GoneKeysDead one removed from it.
LEMMA EnqueueInv ==
  ASSUME IInv, NEW dev \in Devices, NEW slot \in Slots, NEW action \in Actions,
         EnqueueCommand(dev, slot, action)
  PROVE  IInv'
<1> DEFINE k == KeyNow(dev, slot, action)
<1>1. k \in Keys
  BY DEF IInv, TableInv, ScheduleOK, KeyNow, Keys
<1>2. Insert(k) /\ ~Conflict(k) /\ nextId \in Ids
  BY BoundAssumption DEF EnqueueCommand, Insert, IInv, TableInv, TableOK, Ids
<1> HIDE DEF k
<1>3. /\ UNCHANGED <<attempt, ackIn, minute, devices, slots, stream, acks, sends, applied>>
      /\ UNCHANGED claims
  BY <1>2 DEF Insert, schedule, network, ghosts
<1>4. /\ status' = [status EXCEPT ![nextId] = "PENDING"]
      /\ key' = [key EXCEPT ![nextId] = k]
      /\ retryIn' = [retryIn EXCEPT ![nextId] = 0]
      /\ nextId' = nextId + 1
      /\ k.device \in devices /\ slots[k.slot] = "live"
  BY <1>2 DEF Insert
<1> USE DEF IInv, TableInv, NetworkInv
<1>5. status[nextId] = "NONE" /\ attempt[nextId] = 0 /\ ackIn[nextId] = None
  BY <1>2, NullAssumption
     DEF RowsAllocated, TableOK, Ids, TimersMatchStatus
<1>6. TableOK' /\ ScheduleOK'
  BY <1>1, <1>2, <1>3, <1>4, BoundAssumption DEF TableOK, ScheduleOK, Statuses, Ids
<1>7. RowsAllocated'
  BY <1>1, <1>2, <1>3, <1>4 DEF RowsAllocated, TableOK, Ids
<1>8. TimersMatchStatus'
  BY <1>2, <1>3, <1>4, <1>5, NullAssumption DEF TimersMatchStatus, TableOK, Final
<1>9. GoneKeysDead'
  BY <1>2, <1>3, <1>4 DEF GoneKeysDead, TableOK
<1>10. OneCommandPerKey'
  <2>1. \A i \in Ids : key[i] # k
    BY <1>2, <1>4, <1>1, NullAssumption
       DEF Conflict, InTable, RowsAllocated, GoneKeysDead, TableOK, Keys, NoKey, Ids
  <2> QED
    BY <2>1, <1>2, <1>4 DEF OneCommandPerKey, TableOK
<1>11. OpenHasRetries'
  BY <1>2, <1>3, <1>4, <1>5, LimitsAreNaturals DEF OpenHasRetries, Open, TableOK
<1>12. ClaimInv'
  <2>1. \A i \in Ids : i # nextId => status'[i] = status[i]
    BY <1>2, <1>4 DEF TableOK
  <2>2. \A d \in Dispatchers : nextId \notin held[d] \cup picked[d] \cup failed[d]
    BY <1>2, <1>5 DEF ClaimInv, ClaimShape, ClaimsOK
  <2> QED
    BY <2>1, <2>2, <1>3 DEF ClaimInv, claims, ClaimsOK, ClaimShape, ExclusiveDispatch
<1>13. NetworkOK' /\ NoFalseSuccess'
  BY <1>2, <1>3, <1>4 DEF NetworkOK, NoFalseSuccess, TableOK
<1>14. SendsAccounted'
  BY <1>2, <1>3, <1>4, <1>5, LimitsAreNaturals DEF SendsAccounted, TableOK, claims
<1>15. NetworkHonest'
  <2>1. \A i \in stream : status'[i] # "NONE"
    BY <1>2, <1>4 DEF NetworkHonest, NetworkOK, TableOK
  <2>2. \A a \in acks : a.id # nextId /\ a.id \in Ids
    BY <1>5 DEF NetworkHonest, NetworkOK, Reports
  <2>3. \A a \in acks : key'[a.id] = key[a.id] /\ status'[a.id] = status[a.id]
    BY <2>2, <1>2, <1>4 DEF TableOK
  <2> QED
    BY <2>1, <2>3, <1>3 DEF NetworkHonest, AckOk
<1> QED
  BY <1>6, <1>7, <1>8, <1>9, <1>10, <1>11, <1>12, <1>13, <1>14, <1>15

LEMMA NextMinuteInv == IInv /\ NextMinute => IInv'
<1> SUFFICES ASSUME IInv, NextMinute PROVE IInv'
  OBVIOUS
<1>1. TableInv'
  BY BoundAssumption
     DEF IInv, NextMinute, TableInv, table, TableOK, ScheduleOK, RowsAllocated,
         TimersMatchStatus, GoneKeysDead, OneCommandPerKey, OpenHasRetries, Open
<1>2. ClaimInv'
  BY ClaimFrame DEF IInv, TableInv, NextMinute, table
<1>3. NetworkInv'
  BY NetworkFrame DEF IInv, NextMinute, claims
<1> QED
  BY <1>1, <1>2, <1>3 DEF IInv

\* A cascade removes rows no claim has locked; their key refers to what is
\* being deleted.
LEMMA CascadeInv ==
  ASSUME IInv, NEW S \in SUBSET Ids, Cascade(S), \A i \in S : InTable(i),
         UNCHANGED <<claims, network, ghosts>>, ScheduleOK',
         \A i \in S : key[i].device \notin devices' \/ slots'[key[i].slot] = "deleted",
         devices' \subseteq devices,
         \A s \in Slots : slots[s] = "deleted" => slots'[s] = "deleted"
  PROVE  IInv'
<1> USE DEF IInv, TableInv, NetworkInv
<1>1. UNCHANGED <<key, attempt, nextId, picked, failed, stream, acks, sends, applied>>
  BY DEF Cascade, claims, network, ghosts
<1>2. \A i \in Ids : IF i \in S
        THEN status'[i] = "GONE" /\ retryIn'[i] = None /\ ackIn'[i] = None
        ELSE status'[i] = status[i] /\ retryIn'[i] = retryIn[i] /\ ackIn'[i] = ackIn[i]
  BY DEF Cascade
<1>3. TableOK'
  BY <1>1 DEF TableOK, Cascade, Statuses
<1>4. RowsAllocated'
  BY <1>1, <1>2 DEF RowsAllocated, InTable
<1>5. TimersMatchStatus'
  BY <1>2 DEF TimersMatchStatus, Final
<1>6. GoneKeysDead'
  <2> SUFFICES ASSUME NEW i \in Ids, status'[i] = "GONE"
               PROVE  key[i].device \notin devices' \/ slots'[key[i].slot] = "deleted"
    BY <1>1 DEF GoneKeysDead
  <2>1. CASE i \in S
    BY <2>1
  <2>2. CASE i \notin S
    <3>1. status[i] = "GONE"
      BY <2>2, <1>2
    <3>2. key[i] \in Keys
      BY <3>1 DEF RowsAllocated, TableOK, Ids
    <3> QED
      BY <3>1, <3>2 DEF GoneKeysDead, Keys
  <2> QED
    BY <2>1, <2>2
<1>7. OneCommandPerKey'
  BY <1>1 DEF OneCommandPerKey
<1>8. OpenHasRetries'
  BY <1>1, <1>2 DEF OpenHasRetries, Open
<1>9. ClaimInv'
  <2>1. \A i \in Ids : status'[i] = "PENDING" => status[i] = "PENDING"
    BY <1>2
  <2>2. \A i \in Ids : status'[i] = "NONE" => status[i] = "NONE"
    BY <1>2
  <2>3. \A i \in Locked : i \in Ids /\ i \notin S
    BY DEF Cascade, Locked, ClaimInv, ClaimsOK
  <2> QED
    BY <1>2, <2>1, <2>2, <2>3, ClaimFrame
<1>10. NetworkOK' /\ NoFalseSuccess'
  BY <1>1, <1>2 DEF NetworkOK, NoFalseSuccess
<1>11. SendsAccounted'
  BY <1>1, <1>2 DEF SendsAccounted, InTable
<1>12. NetworkHonest'
  BY <1>1, <1>2 DEF NetworkHonest, NetworkOK, Reports, AckOk
<1> QED
  BY <1>3, <1>4, <1>5, <1>6, <1>7, <1>8, <1>9, <1>10, <1>11, <1>12

LEMMA DeleteDeviceInv ==
  ASSUME IInv, NEW dev \in Devices, DeleteDevice(dev)
  PROVE  IInv'
<1> DEFINE S == {i \in Ids : InTable(i) /\ key[i].device = dev}
<1>1. Cascade(S) /\ devices' = devices \ {dev} /\ UNCHANGED <<minute, slots>>
  BY DEF DeleteDevice
<1>2. UNCHANGED <<claims, network, ghosts>>
  BY DEF DeleteDevice
<1>3. ScheduleOK'
  BY <1>1 DEF IInv, TableInv, ScheduleOK
<1> QED
  BY <1>1, <1>2, <1>3, CascadeInv

LEMMA ReplaceSlotsInv ==
  ASSUME IInv, NEW fresh \in SUBSET Slots, ReplaceSlots(fresh)
  PROVE  IInv'
<1> DEFINE S == {i \in Ids : InTable(i) /\ slots[key[i].slot] = "live"}
<1>1. Cascade(S) /\ UNCHANGED <<minute, devices, claims, network, ghosts>>
  BY DEF ReplaceSlots
<1>2. /\ \A s \in fresh : slots[s] = "new"
      /\ slots' = [s \in Slots |-> CASE s \in fresh -> "live"
                                     [] slots[s] = "live" -> "deleted"
                                     [] OTHER -> slots[s]]
  BY DEF ReplaceSlots
<1>3. ScheduleOK'
  BY <1>1, <1>2 DEF IInv, TableInv, ScheduleOK
<1>4. \A s \in Slots : slots[s] \in {"live", "deleted"} => slots'[s] = "deleted"
  BY <1>2
<1>5. \A i \in S : key[i] \in Keys
  BY DEF IInv, TableInv, RowsAllocated, TableOK, InTable, Ids
<1>6. \A i \in S : slots'[key[i].slot] = "deleted"
  BY <1>4, <1>5 DEF Keys
<1> QED
  BY <1>1, <1>3, <1>4, <1>6, CascadeInv


-----------------------------------------------------------------------------
(* A claim. *)

\* What it locks was PENDING and in nobody's hands.
LEMMA ClaimLockInv ==
  ASSUME IInv, NEW d \in Dispatchers, ClaimLock(d)
  PROVE  IInv'
<1> DEFINE candidates == FirstOf(4 * BatchLimit, {i \in Ids \ Locked : Due(i)})
<1>1. /\ pc[d] = "idle" /\ picked[d] = {} /\ failed[d] = {}
      /\ pc' = [pc EXCEPT ![d] = "locked"]
      /\ held' = [held EXCEPT ![d] = candidates]
  BY DEF ClaimLock, LockFrom
<1>2. UNCHANGED <<table, schedule, picked, failed, age, crashes, network, ghosts>>
  BY DEF ClaimLock, LockFrom
<1>3. candidates \subseteq {i \in Ids \ Locked : status[i] = "PENDING"}
  BY DEF FirstOf, Due
<1> HIDE DEF candidates
<1>4. TableInv' /\ NetworkInv'
  BY <1>2, TableFrame, NetworkFrame DEF IInv
<1> USE <1>1, <1>2, <1>3 DEF IInv, ClaimInv, table
<1>5. ClaimsOK'
  BY DEF ClaimsOK
<1>6. ClaimShape'
  BY DEF ClaimShape, ClaimsOK
<1>7. ExclusiveDispatch'
  <2>1. \A e \in Dispatchers : e # d => candidates \cap (held[e] \cup picked[e] \cup failed[e]) = {}
    <3> SUFFICES ASSUME NEW e \in Dispatchers, e # d, NEW i \in candidates,
                        i \in held[e] \cup picked[e] \cup failed[e]
                 PROVE  FALSE
      OBVIOUS
    <3>1. i \notin held[e] /\ status[i] = "PENDING"
      BY DEF Locked
    <3> QED
      BY <3>1 DEF ClaimShape
  <2> QED
    BY <2>1 DEF ExclusiveDispatch, ClaimsOK
<1> QED
  BY <1>4, <1>5, <1>6, <1>7

\* What it chooses is among what it has locked; a row that is PENDING has its
\* sends paid for.
LEMMA ClaimChooseInv ==
  ASSUME IInv, NEW d \in Dispatchers, ClaimChoose(d)
  PROVE  IInv'
<1> DEFINE chosen == Chosen(held[d])
<1>1. /\ pc[d] = "locked"
      /\ picked' = [picked EXCEPT ![d] = chosen]
      /\ pc' = [pc EXCEPT ![d] = IF chosen = {} THEN "idle" ELSE "chosen"]
      /\ held' = [held EXCEPT ![d] = IF chosen = {} THEN {} ELSE @]
      /\ age' = [age EXCEPT ![d] = IF chosen = {} THEN 0 ELSE @]
  BY DEF ClaimChoose
<1>2. UNCHANGED <<table, schedule, failed, crashes, network, ghosts>>
  BY DEF ClaimChoose
<1>3. chosen \subseteq held[d]
  BY DEF Chosen, FirstOf, Admitted
<1> HIDE DEF chosen
<1>4. TableInv'
  BY <1>2, TableFrame DEF IInv
<1> USE <1>1, <1>2, <1>3 DEF IInv, ClaimInv, NetworkInv, table, network, ghosts
<1>5. ClaimsOK'
  BY LimitsAreNaturals DEF ClaimsOK
<1>6. ClaimShape'
  BY DEF ClaimShape, ClaimsOK
<1>7. ExclusiveDispatch'
  BY DEF ExclusiveDispatch, ClaimsOK
<1>8. NetworkOK' /\ NetworkHonest' /\ NoFalseSuccess'
  BY DEF NetworkOK, NetworkHonest, NoFalseSuccess, AckOk
<1>9. SendsAccounted'
  <2>1. \A i \in chosen : i \in Ids /\ status[i] = "PENDING" /\ attempt[i] <= RetryLimit
    BY DEF ClaimShape, ClaimsOK, TableInv, OpenHasRetries, Open
  <2>2. \A i \in chosen : sends[i] <= attempt[i]
    BY <2>1 DEF SendsAccounted
  <2> QED
    BY <2>1, <2>2 DEF SendsAccounted, ClaimsOK
<1> QED
  BY <1>4, <1>5, <1>6, <1>7, <1>8, <1>9

\* The rows it commits were PENDING, and nobody else holds them.
LEMMA ClaimCommitInv ==
  ASSUME IInv, NEW d \in Dispatchers, ClaimCommit(d)
  PROVE  IInv'
<1> DEFINE deadline == AckTicks - age[d]
<1>1. /\ pc[d] = "chosen"
      /\ status' = [i \in Ids |-> IF i \in picked[d] THEN "SENT" ELSE status[i]]
      /\ ackIn' = [i \in Ids |-> IF i \in picked[d] THEN deadline ELSE ackIn[i]]
      /\ pc' = [pc EXCEPT ![d] = "idle"]
      /\ held' = [held EXCEPT ![d] = {}]
      /\ age' = [age EXCEPT ![d] = 0]
  BY DEF ClaimCommit, CommitWith
<1>2. UNCHANGED <<key, attempt, retryIn, nextId, picked, failed, crashes, minute, devices,
                 slots, stream, acks, sends, applied>>
  BY DEF ClaimCommit, CommitWith, schedule, network, ghosts
<1>3. deadline \in -1..AckTicks
  BY LimitsAreNaturals DEF IInv, ClaimInv, ClaimsOK
<1>4. deadline # None
  BY <1>3, NullAssumption, LimitsAreNaturals
<1> HIDE DEF deadline
<1> USE DEF IInv, TableInv, ClaimInv, NetworkInv
<1>5. \A i \in picked[d] : i \in Ids /\ status[i] = "PENDING"
  BY <1>1 DEF ClaimShape, ClaimsOK
<1> USE <1>1, <1>2
<1>6. TableOK' /\ ScheduleOK'
  BY <1>3 DEF TableOK, ScheduleOK, Statuses
<1>7. RowsAllocated' /\ OneCommandPerKey' /\ GoneKeysDead'
  BY <1>5 DEF RowsAllocated, OneCommandPerKey, GoneKeysDead
<1>8. TimersMatchStatus' /\ OpenHasRetries'
  BY <1>4, <1>5 DEF TimersMatchStatus, OpenHasRetries, Open, Final
<1>9. ClaimsOK'
  BY LimitsAreNaturals DEF ClaimsOK
<1>10. ExclusiveDispatch'
  BY DEF ExclusiveDispatch, ClaimsOK
<1>11. ClaimShape'
  <2>1. ASSUME NEW e \in Dispatchers, e # d, NEW i \in held[e] \cup picked[e] \cup failed[e]
        PROVE  i \in Ids /\ status'[i] = status[i]
    <3>1. i \in Ids
      BY <2>1 DEF ClaimsOK
    <3>2. i \notin picked[d]
      BY <2>1 DEF ExclusiveDispatch
    <3> QED
      BY <3>1, <3>2
  <2>2. \A i \in picked[d] : status'[i] = "SENT"
    BY <1>5
  <2>3. /\ pc'[d] = "idle" /\ held'[d] = {} /\ picked' = picked /\ failed' = failed
        /\ \A e \in Dispatchers : e # d => pc'[e] = pc[e] /\ held'[e] = held[e]
        /\ failed[d] = {}
    BY DEF ClaimShape, ClaimsOK
  <2>4. ASSUME NEW e \in Dispatchers, e # d
        PROVE  /\ pc'[e] = "idle" =>
                    /\ held'[e] = {}
                    /\ \A i \in picked'[e] \cup failed'[e] : status'[i] \notin {"NONE", "PENDING"}
                    /\ picked'[e] \cap failed'[e] = {}
               /\ pc'[e] # "idle" =>
                    /\ \A i \in held'[e] : status'[i] = "PENDING"
                    /\ picked'[e] \subseteq held'[e] /\ failed'[e] = {}
    BY <2>1, <2>3, <2>4 DEF ClaimShape
  <2> QED
    BY <2>2, <2>3, <2>4 DEF ClaimShape
<1>12. NetworkOK' /\ NoFalseSuccess'
  BY DEF NetworkOK, NoFalseSuccess
<1>13. SendsAccounted'
  BY DEF SendsAccounted
<1>14. NetworkHonest'
  BY DEF NetworkHonest, NetworkOK, Reports, AckOk
<1> QED
  BY <1>6, <1>7, <1>8, <1>9, <1>10, <1>11, <1>12, <1>13, <1>14


-----------------------------------------------------------------------------
(* Publishing. *)

\* Both outcomes of publish_command: row i moves from picked[d] on, perhaps to
\* failed[d], perhaps into the stream, at the cost of one send.
LEMMA PublishingInv ==
  ASSUME IInv, NEW d \in Dispatchers, NEW i \in Ids, Publishing(d, i)
  PROVE  IInv'
<1>1. /\ pc[d] = "idle" /\ i \in picked[d]
      /\ picked' = [picked EXCEPT ![d] = @ \ {i}]
      /\ \/ UNCHANGED failed
         \/ failed' = [failed EXCEPT ![d] = @ \cup {i}]
      /\ stream \subseteq stream' /\ stream' \subseteq stream \cup {i}
      /\ sends' = [sends EXCEPT ![i] = @ + 1]
      /\ UNCHANGED <<pc, held, age, crashes, acks, applied>>
  BY DEF Publishing, PublishOk, PublishRaises
<1>2. UNCHANGED <<table, schedule>>
  BY DEF Publishing, PublishOk, PublishRaises
<1>3. TableInv'
  BY <1>2, TableFrame DEF IInv
<1> USE <1>1, <1>2 DEF IInv, ClaimInv, NetworkInv, table
<1>4. status[i] \notin {"NONE", "PENDING"} /\ i \notin failed[d]
  BY DEF ClaimShape
<1>5. \A e \in Dispatchers : e # d => i \notin held[e] \cup picked[e] \cup failed[e]
  BY DEF ExclusiveDispatch
<1>6. /\ \A e \in Dispatchers : e # d => picked'[e] = picked[e] /\ failed'[e] = failed[e]
      /\ picked'[d] = picked[d] \ {i} /\ failed'[d] \subseteq failed[d] \cup {i}
  BY DEF ClaimsOK
<1>7. ClaimsOK'
  BY DEF ClaimsOK
<1>8. ClaimShape'
  BY <1>4, <1>5, <1>6 DEF ClaimShape, ClaimsOK
<1>9. ExclusiveDispatch'
  BY <1>5, <1>6 DEF ExclusiveDispatch
<1>10. NetworkOK' /\ NoFalseSuccess'
  BY DEF NetworkOK, NoFalseSuccess
<1>11. SendsAccounted'
  <2>1. sends[i] <= attempt[i] /\ attempt[i] <= RetryLimit
    BY DEF SendsAccounted
  <2>2. sends'[i] = sends[i] + 1 /\ \A j \in Ids : j # i => sends'[j] = sends[j]
    BY DEF NetworkOK
  <2>3. sends[i] \in Nat /\ attempt[i] \in Nat
    BY LimitsAreNaturals DEF NetworkOK, TableInv, TableOK
  <2>4. ASSUME NEW j \in Ids, j # i
        PROVE  /\ sends'[j] <= attempt[j] + 1
               /\ status[j] \in {"NONE", "PENDING"} \/ attempt[j] > RetryLimit
                    => sends'[j] <= attempt[j]
               /\ \A e \in Dispatchers :
                    /\ j \in picked'[e] => sends'[j] <= attempt[j] /\ attempt[j] <= RetryLimit
                    /\ j \in failed'[e] => attempt[j] <= RetryLimit
    BY <2>2, <2>4, <1>6 DEF SendsAccounted
  <2>5. \A e \in Dispatchers : i \notin picked'[e]
    BY <1>5, <1>6
  <2>6. sends'[i] <= attempt[i] + 1 /\ ~(attempt[i] > RetryLimit)
    BY <2>1, <2>2, <2>3, LimitsAreNaturals
  <2> QED
    BY <2>1, <2>4, <2>5, <2>6, <1>4 DEF SendsAccounted
<1>12. NetworkHonest'
  BY <1>4 DEF NetworkHonest, AckOk
<1> QED
  BY <1>3, <1>7, <1>8, <1>9, <1>10, <1>11, <1>12

\* A row whose failure counts is SENT, as no claim can have taken it; its
\* attempt pays for the send.
LEMMA MarkPublishFailureInv ==
  ASSUME IInv, NEW d \in Dispatchers, NEW i \in Ids, MarkPublishFailure(d, i)
  PROVE  IInv'
<1> USE DEF IInv, ClaimInv, NetworkInv, TableInv
<1>1. /\ i \in failed[d] /\ i \notin Locked
      /\ failed' = [failed EXCEPT ![d] = @ \ {i}]
  BY DEF MarkPublishFailure, MarkFailureIf
<1>2. /\ UNCHANGED <<key, nextId, minute, devices, slots, pc, held, picked, age, crashes>>
      /\ UNCHANGED <<stream, acks, sends, applied>>
  BY DEF MarkPublishFailure, MarkFailureIf, schedule, network, ghosts
<1>3. /\ \A e \in Dispatchers : e # d => failed'[e] = failed[e]
      /\ failed'[d] = failed[d] \ {i}
  BY <1>1 DEF ClaimsOK
<1>4. ClaimsOK' /\ ExclusiveDispatch'
  BY <1>1, <1>2, <1>3 DEF ClaimsOK, ExclusiveDispatch
<1>5. CASE ~Open(i)
  <2>1. UNCHANGED <<status, attempt, retryIn, ackIn>>
    BY <1>5 DEF MarkPublishFailure, MarkFailureIf
  <2>2. TableInv'
    BY <1>2, <2>1, TableFrame DEF table, schedule
  <2>3. ClaimShape'
    BY <1>2, <1>3, <2>1 DEF ClaimShape
  <2>4. SendsAccounted'
    BY <1>2, <1>3, <2>1 DEF SendsAccounted
  <2>5. NetworkOK' /\ NetworkHonest' /\ NoFalseSuccess'
    BY <1>2, <2>1 DEF NetworkOK, NetworkHonest, NoFalseSuccess, AckOk
  <2> QED
    BY <1>4, <2>2, <2>3, <2>4, <2>5
<1>6. CASE Open(i)
  <2>1. RetryUpTo(RetryLimit, i, attempt[i] + 1)
    BY <1>6 DEF MarkPublishFailure, MarkFailureIf, RetryOrGiveUp
  <2>2. /\ attempt' = [attempt EXCEPT ![i] = attempt[i] + 1]
        /\ ackIn' = [ackIn EXCEPT ![i] = None]
        /\ \/ /\ attempt[i] + 1 <= RetryLimit
              /\ status' = [status EXCEPT ![i] = "PENDING"]
              /\ \E delay \in Nat : retryIn' = [retryIn EXCEPT ![i] = delay]
           \/ /\ attempt[i] + 1 > RetryLimit
              /\ status' = [status EXCEPT ![i] = "ACK_FAIL"]
              /\ retryIn' = [retryIn EXCEPT ![i] = None]
    BY <2>1, LimitsAreNaturals DEF RetryUpTo
  <2>3. status[i] = "SENT" /\ attempt[i] <= RetryLimit /\ attempt[i] \in Nat
    BY <1>1, <1>6, LimitsAreNaturals DEF ClaimShape, ClaimsOK, Open, SendsAccounted, TableOK
  <2>4. \A j \in Ids : j # i => /\ status'[j] = status[j] /\ attempt'[j] = attempt[j]
                                /\ retryIn'[j] = retryIn[j] /\ ackIn'[j] = ackIn[j]
    BY <2>2 DEF TableOK
  <2>5. /\ attempt'[i] = attempt[i] + 1 /\ ackIn'[i] = None
        /\ \/ attempt[i] + 1 <= RetryLimit /\ status'[i] = "PENDING" /\ retryIn'[i] \in Nat
           \/ attempt[i] + 1 > RetryLimit /\ status'[i] = "ACK_FAIL" /\ retryIn'[i] = None
    BY <2>2 DEF TableOK
  <2>6. \A e \in Dispatchers : i \notin held[e] \cup picked[e] \cup failed'[e]
    BY <1>1, <1>3 DEF Locked, ClaimShape, ExclusiveDispatch
  <2>7. TableOK' /\ ScheduleOK'
    BY <1>2, <2>2, <2>3, LimitsAreNaturals DEF TableOK, ScheduleOK, Statuses, Final
  <2>8. RowsAllocated'
    BY <1>2, <2>3, <2>4, <2>5, BoundAssumption DEF RowsAllocated, TableOK, Ids
  <2>9. TimersMatchStatus' /\ GoneKeysDead' /\ OneCommandPerKey' /\ OpenHasRetries'
    BY <1>2, <2>4, <2>5, NullAssumption, LimitsAreNaturals
       DEF TimersMatchStatus, GoneKeysDead, OneCommandPerKey, OpenHasRetries, Open, Final
  <2>10. ClaimShape'
    BY <1>2, <1>3, <2>4, <2>6 DEF ClaimShape, ClaimsOK
  <2>11. NetworkOK' /\ NetworkHonest'
    BY <1>2, <2>4, <2>5 DEF NetworkOK, NetworkHonest, Reports, AckOk
  <2>12. NoFalseSuccess'
    BY <1>2, <2>4, <2>5 DEF NoFalseSuccess
  <2>13. SendsAccounted'
    <3>1. sends[i] \in Nat /\ sends[i] <= attempt[i] + 1
      BY DEF NetworkOK, SendsAccounted
    <3>2. \A j \in Ids, e \in Dispatchers : j \in failed'[e] => j # i /\ j \in failed[e]
      BY <1>3, <2>6
    <3> QED
      BY <1>2, <2>3, <2>4, <2>5, <2>6, <3>1, <3>2, LimitsAreNaturals
         DEF SendsAccounted, NetworkOK
  <2> QED
    BY <1>4, <2>7, <2>8, <2>9, <2>10, <2>11, <2>12, <2>13
<1> QED
  BY <1>5, <1>6

LEMMA CrashInv ==
  ASSUME IInv, NEW d \in Dispatchers, Crash(d)
  PROVE  IInv'
<1>1. /\ crashes' = crashes + 1 /\ crashes < MaxCrashes
      /\ pc' = [pc EXCEPT ![d] = "idle"]
      /\ held' = [held EXCEPT ![d] = {}]
      /\ picked' = [picked EXCEPT ![d] = {}]
      /\ failed' = [failed EXCEPT ![d] = {}]
      /\ age' = [age EXCEPT ![d] = 0]
  BY DEF Crash
<1>2. UNCHANGED <<table, schedule, network, ghosts>>
  BY DEF Crash
<1> USE <1>1, <1>2 DEF IInv, ClaimInv, NetworkInv, table, network, ghosts
<1>3. TableInv'
  BY TableFrame
<1>4. ClaimsOK'
  BY BoundAssumption, LimitsAreNaturals DEF ClaimsOK
<1>5. ClaimShape' /\ ExclusiveDispatch'
  BY DEF ClaimShape, ExclusiveDispatch, ClaimsOK
<1>6. NetworkOK' /\ NetworkHonest' /\ NoFalseSuccess'
  BY DEF NetworkOK, NetworkHonest, NoFalseSuccess, AckOk
<1>7. SendsAccounted'
  BY DEF SendsAccounted, ClaimsOK
<1> QED
  BY <1>3, <1>4, <1>5, <1>6, <1>7


-----------------------------------------------------------------------------
(* Acknowledgements, the agent and the timeout sweeper. *)

LEMMA AgentHandlesInv ==
  ASSUME IInv, NEW i \in Ids, NEW outcome \in Outcomes, AgentHandles(i, outcome)
  PROVE  IInv'
<1> DEFINE report == Report(i, outcome)
<1>1. /\ i \in stream /\ acks' = acks \cup {report}
      /\ applied' = IF report.transport_ok /\ StateMatches(key[i].action, report.actual)
                    THEN applied \cup {i} ELSE applied
      /\ stream' \in {stream, stream \ {i}}
      /\ UNCHANGED <<table, schedule, claims, sends>>
  BY DEF AgentHandles
<1>2. report \in Reports /\ report.id = i
  BY TableAssumption DEF Report, Reports
<1> HIDE DEF report
<1> USE <1>1, <1>2 DEF IInv, NetworkInv, table
<1>3. TableInv'
  BY TableFrame
<1>4. ClaimInv'
  BY ClaimFrame DEF TableInv, ClaimInv, ClaimsOK, Locked
<1>5. applied \subseteq applied' /\ applied' \subseteq applied \cup {i}
  OBVIOUS
<1>6. NetworkOK' /\ NoFalseSuccess'
  BY <1>5 DEF NetworkOK, NoFalseSuccess
<1>7. SendsAccounted'
  BY DEF SendsAccounted, claims
<1>8. NetworkHonest'
  BY <1>5 DEF NetworkHonest, AckOk
<1> QED
  BY <1>3, <1>4, <1>6, <1>7, <1>8

LEMMA LoseAckInv ==
  ASSUME IInv, NEW a \in acks, LoseAck(a)
  PROVE  IInv'
<1>1. acks' = acks \ {a} /\ UNCHANGED <<table, schedule, claims, stream, ghosts>>
  BY DEF LoseAck
<1> USE <1>1 DEF IInv, NetworkInv, table, ghosts
<1>2. TableInv'
  BY TableFrame
<1>3. ClaimInv'
  BY ClaimFrame DEF TableInv, ClaimInv, ClaimsOK, Locked
<1>4. NetworkOK' /\ NoFalseSuccess' /\ NetworkHonest'
  BY DEF NetworkOK, NoFalseSuccess, NetworkHonest, AckOk
<1>5. SendsAccounted'
  BY DEF SendsAccounted, claims
<1> QED
  BY <1>2, <1>3, <1>4, <1>5

\* Settling a set S of open rows none of which is locked: the common part of
\* mark_ack and claim_timeouts.
LEMMA SettleInv ==
  ASSUME IInv, NEW S \in SUBSET Ids, \A i \in S : Open(i) /\ i \notin Locked,
         \A i \in S : /\ status'[i] \in Final /\ retryIn'[i] = None /\ ackIn'[i] = None
                      /\ status'[i] = "ACK_OK" => i \in applied,
         \A i \in Ids \ S : /\ status'[i] = status[i] /\ retryIn'[i] = retryIn[i]
                            /\ ackIn'[i] = ackIn[i],
         TableOK', acks' \subseteq acks,
         UNCHANGED <<key, attempt, nextId, schedule, claims, stream, ghosts>>
  PROVE  IInv'
<1> USE DEF IInv, TableInv, NetworkInv
<1>1. ScheduleOK' /\ OneCommandPerKey' /\ GoneKeysDead'
  BY DEF schedule, ScheduleOK, OneCommandPerKey, GoneKeysDead, Final
<1>2. RowsAllocated'
  BY DEF RowsAllocated, Open, Final
<1>3. TimersMatchStatus' /\ OpenHasRetries'
  BY DEF TimersMatchStatus, OpenHasRetries, Open, Final
<1>4. ClaimInv'
  <2>1. \A i \in Ids : status'[i] = "PENDING" => status[i] = "PENDING"
    BY DEF Final
  <2>2. \A i \in Ids : status'[i] = "NONE" => status[i] = "NONE"
    BY DEF Final
  <2>3. \A i \in Locked : status'[i] = status[i]
    BY DEF Locked, ClaimInv, ClaimsOK
  <2> QED
    BY <2>1, <2>2, <2>3, ClaimFrame
<1>5. NetworkOK' /\ NoFalseSuccess'
  BY DEF NetworkOK, NoFalseSuccess, ghosts
<1>6. SendsAccounted'
  BY DEF SendsAccounted, Open, Final, claims, ghosts
<1>7. NetworkHonest'
  <2>1. \A i \in Ids : status[i] # "NONE" => status'[i] # "NONE"
    BY DEF Final
  <2>2. \A a \in acks : a.id \in Ids
    BY DEF NetworkOK, Reports
  <2> QED
    BY <2>1, <2>2 DEF NetworkHonest, NetworkOK, AckOk, ghosts
<1> QED
  BY <1>1, <1>2, <1>3, <1>4, <1>5, <1>6, <1>7

LEMMA MarkAckInv ==
  ASSUME IInv, NEW a \in acks, MarkAck(a)
  PROVE  IInv'
<1>1. a.id \in Ids /\ a.id \notin Locked
  BY DEF IInv, NetworkInv, NetworkOK, Reports, MarkAck, AckSettles
<1>2. acks' \subseteq acks /\ UNCHANGED <<key, attempt, nextId, schedule, claims, stream, ghosts>>
  BY DEF MarkAck, AckSettles
<1>3. CASE Open(a.id)
  <2>1. /\ status' = [status EXCEPT ![a.id] = IF AckOk(a) THEN "ACK_OK" ELSE "ACK_FAIL"]
        /\ retryIn' = [retryIn EXCEPT ![a.id] = None]
        /\ ackIn' = [ackIn EXCEPT ![a.id] = None]
    BY <1>3 DEF MarkAck, AckSettles
  <2>2. AckOk(a) => a.id \in applied
    BY DEF IInv, NetworkInv, NetworkHonest
  <2>3. TableOK'
    BY <1>2, <2>1 DEF IInv, TableInv, TableOK, Statuses, Final
  <2>4. /\ status'[a.id] \in Final /\ retryIn'[a.id] = None /\ ackIn'[a.id] = None
        /\ status'[a.id] = "ACK_OK" => a.id \in applied
    BY <1>1, <2>1, <2>2 DEF IInv, TableInv, TableOK, Final
  <2> DEFINE S == {a.id}
  <2>5. \A i \in Ids \ S : /\ status'[i] = status[i] /\ retryIn'[i] = retryIn[i]
                           /\ ackIn'[i] = ackIn[i]
    BY <2>1 DEF IInv, TableInv, TableOK
  <2>6. S \in SUBSET Ids /\ \A i \in S : Open(i) /\ i \notin Locked
    BY <1>1, <1>3
  <2>7. \A i \in S : /\ status'[i] \in Final /\ retryIn'[i] = None /\ ackIn'[i] = None
                     /\ status'[i] = "ACK_OK" => i \in applied
    BY <2>4
  <2> HIDE DEF S
  <2> QED
    BY <1>2, <2>3, <2>5, <2>6, <2>7, SettleInv
<1>4. CASE ~Open(a.id)
  <2>1. UNCHANGED <<status, retryIn, ackIn>>
    BY <1>4 DEF MarkAck, AckSettles
  <2>2. TableOK'
    BY <1>2, <2>1 DEF IInv, TableInv, TableOK
  <2> DEFINE S == {}
  <2>3. \A i \in Ids \ S : /\ status'[i] = status[i] /\ retryIn'[i] = retryIn[i]
                           /\ ackIn'[i] = ackIn[i]
    BY <2>1
  <2>4. S \in SUBSET Ids /\ \A i \in S : FALSE
    OBVIOUS
  <2> HIDE DEF S
  <2> QED
    BY <1>2, <2>2, <2>3, <2>4, SettleInv
<1> QED
  BY <1>3, <1>4

LEMMA ClaimTimeoutsInv == IInv /\ ClaimTimeouts => IInv'
<1> SUFFICES ASSUME IInv, ClaimTimeouts PROVE IInv'
  OBVIOUS
<1>1. PICK batch \in SUBSET Overdue :
        /\ status' = [i \in Ids |-> IF i \in batch THEN "TIMEOUT" ELSE status[i]]
        /\ retryIn' = [i \in Ids |-> IF i \in batch THEN None ELSE retryIn[i]]
        /\ ackIn' = [i \in Ids |-> IF i \in batch THEN None ELSE ackIn[i]]
  BY DEF ClaimTimeouts
<1>2. UNCHANGED <<key, attempt, nextId, schedule, claims, network, ghosts>>
  BY DEF ClaimTimeouts
<1>3. batch \in SUBSET Ids /\ \A i \in batch : status[i] = "SENT"
  BY DEF Overdue
<1>4. \A i \in batch : Open(i) /\ i \notin Locked
  BY <1>3 DEF Open, Locked, IInv, ClaimInv, ClaimShape
<1>5. TableOK'
  BY <1>1, <1>2 DEF IInv, TableInv, TableOK, Statuses, Final
<1> QED
  BY <1>1, <1>2, <1>3, <1>4, <1>5, SettleInv DEF Final, network

LEMMA TickInv == IInv /\ Tick => IInv'
<1> SUFFICES ASSUME IInv, Tick PROVE IInv'
  OBVIOUS
<1> USE DEF IInv, TableInv, ClaimInv
<1>1. /\ retryIn' = [i \in Ids |-> IF retryIn[i] = None THEN None
                                   ELSE AtLeast(0, retryIn[i] - 1)]
      /\ ackIn' = [i \in Ids |-> IF ackIn[i] = None THEN None ELSE AtLeast(-1, ackIn[i] - 1)]
      /\ age' = [d \in Dispatchers |-> IF pc[d] # "idle" /\ age[d] <= AckTicks
                                       THEN age[d] + 1 ELSE age[d]]
  BY DEF Tick
<1>2. UNCHANGED <<status, key, attempt, nextId, schedule, pc, held, picked, failed,
                  crashes, network, ghosts>>
  BY DEF Tick
<1>3. \A i \in Ids : /\ retryIn[i] # None => AtLeast(0, retryIn[i] - 1) \in Nat
                     /\ ackIn[i] # None => AtLeast(-1, ackIn[i] - 1) \in -1..AckTicks
  BY LimitsAreNaturals DEF TableOK, AtLeast
<1>4. \A i \in Ids : (retryIn'[i] = None <=> retryIn[i] = None)
                     /\ (ackIn'[i] = None <=> ackIn[i] = None)
  BY <1>1, <1>3, NullAssumption, LimitsAreNaturals
<1>5. TableOK' /\ ScheduleOK'
  BY <1>1, <1>2, <1>3 DEF TableOK, ScheduleOK, schedule
<1>6. RowsAllocated' /\ GoneKeysDead' /\ OneCommandPerKey' /\ OpenHasRetries'
  BY <1>2 DEF RowsAllocated, GoneKeysDead, OneCommandPerKey, OpenHasRetries, Open, schedule
<1>7. TimersMatchStatus'
  BY <1>2, <1>4 DEF TimersMatchStatus
<1>8. ClaimsOK'
  BY <1>1, <1>2, LimitsAreNaturals DEF ClaimsOK
<1>9. ClaimShape' /\ ExclusiveDispatch'
  BY <1>2 DEF ClaimShape, ExclusiveDispatch
<1>10. NetworkInv'
  BY <1>2 DEF NetworkInv, network, ghosts, NetworkOK, SendsAccounted, NetworkHonest,
              NoFalseSuccess, AckOk
<1> QED
  BY <1>5, <1>6, <1>7, <1>8, <1>9, <1>10

-----------------------------------------------------------------------------
(* The theorems. *)

LEMMA NextInv == IInv /\ [Next]_vars => IInv'
<1> SUFFICES ASSUME IInv, [Next]_vars PROVE IInv'
  OBVIOUS
<1>1. CASE \E dev \in Devices, slot \in Slots, action \in Actions :
             EnqueueCommand(dev, slot, action)
  BY <1>1, EnqueueInv
<1>2. CASE NextMinute
  BY <1>2, NextMinuteInv
<1>3. CASE \E dev \in Devices : DeleteDevice(dev)
  BY <1>3, DeleteDeviceInv
<1>4. CASE \E fresh \in SUBSET Slots : ReplaceSlots(fresh)
  BY <1>4, ReplaceSlotsInv
<1>5. CASE \E d \in Dispatchers : ClaimLock(d) \/ ClaimChoose(d) \/ ClaimCommit(d)
  BY <1>5, ClaimLockInv, ClaimChooseInv, ClaimCommitInv
<1>6. CASE \E d \in Dispatchers, i \in Ids : Publishing(d, i) \/ MarkPublishFailure(d, i)
  BY <1>6, PublishingInv, MarkPublishFailureInv
<1>7. CASE \E d \in Dispatchers : Crash(d)
  BY <1>7, CrashInv
<1>8. CASE \E i \in Ids, outcome \in Outcomes : AgentHandles(i, outcome)
  BY <1>8, AgentHandlesInv
<1>9. CASE \E a \in acks : LoseAck(a) \/ MarkAck(a)
  BY <1>9, LoseAckInv, MarkAckInv
<1>10. CASE ClaimTimeouts
  BY <1>10, ClaimTimeoutsInv
<1>11. CASE Tick
  BY <1>11, TickInv
<1>12. CASE UNCHANGED vars
  <2>1. UNCHANGED <<table, schedule, claims, network, ghosts>>
    BY <1>12 DEF vars
  <2>2. ClaimInv'
    BY <2>1, ClaimFrame DEF IInv, TableInv, ClaimInv, ClaimsOK, Locked, table
  <2> QED
    BY <2>1, <2>2, TableFrame, NetworkFrame DEF IInv, claims
<1> QED
  BY <1>1, <1>2, <1>3, <1>4, <1>5, <1>6, <1>7, <1>8, <1>9, <1>10, <1>11, <1>12
     DEF Next, Dispatching

\* The inductive invariant holds in every reachable state.
THEOREM Invariance == Spec => []IInv
<1>1. Init => IInv
  BY InitInv
<1>2. IInv /\ [Next]_vars => IInv'
  BY NextInv
<1> QED
  BY <1>1, <1>2, PTL DEF Spec

\* Every column, every dispatcher's state and every message in transit has its
\* type; in particular attempt never exceeds max_retry + 1.
THEOREM TypeCorrect == Spec => []TypeOK
<1>1. IInv => TypeOK
  BY DEF IInv, TableInv, ClaimInv, NetworkInv, TypeOK
<1> QED
  BY <1>1, Invariance, PTL

\* An open row always has the timer that moves it on, a settled one has none.
THEOREM TimersCorrect == Spec => []TimersMatchStatus
<1>1. IInv => TimersMatchStatus
  BY DEF IInv, TableInv
<1> QED
  BY <1>1, Invariance, PTL

\* Enqueueing is idempotent over the whole history, cascades included.
THEOREM EnqueueIdempotent == Spec => []OneCommandPerKey
<1>1. IInv => OneCommandPerKey
  BY DEF IInv, TableInv
<1> QED
  BY <1>1, Invariance, PTL

\* Two dispatchers never have the same command in hand.
THEOREM DispatchExclusive == Spec => []ExclusiveDispatch
<1>1. IInv => ExclusiveDispatch
  BY DEF IInv, ClaimInv
<1> QED
  BY <1>1, Invariance, PTL

\* A command is published at most max_retry + 1 times.
THEOREM SendsAreBounded == Spec => []SendsBounded
<1>1. IInv => SendsBounded
  <2> SUFFICES ASSUME IInv, NEW i \in Ids PROVE sends[i] <= RetryLimit + 1
    BY DEF SendsBounded
  <2>1. sends[i] \in Nat /\ attempt[i] \in 0..(RetryLimit + 1)
    BY DEF IInv, TableInv, TableOK, NetworkInv, NetworkOK
  <2>2. /\ sends[i] <= attempt[i] + 1
        /\ attempt[i] > RetryLimit => sends[i] <= attempt[i]
    BY DEF IInv, NetworkInv, SendsAccounted
  <2> QED
    BY <2>1, <2>2, LimitsAreNaturals
<1> QED
  BY <1>1, Invariance, PTL

\* ACK_OK is recorded only for a command an agent has carried out.
THEOREM SuccessIsReal == Spec => []NoFalseSuccess
<1>1. IInv => NoFalseSuccess
  BY DEF IInv, NetworkInv
<1> QED
  BY <1>1, Invariance, PTL

\* Once settled, a command's row changes no more, but for its deletion.
THEOREM SettledForGood == Spec => SettledIsFinal
<1>1. IInv /\ [Next]_vars =>
        [\A i \in Ids : status[i] \in Final =>
           /\ status'[i] \in {status[i], "GONE"}
           /\ attempt'[i] = attempt[i]]_vars
  <2> SUFFICES ASSUME IInv, Next, NEW i \in Ids, status[i] \in Final
               PROVE  status'[i] \in {status[i], "GONE"} /\ attempt'[i] = attempt[i]
    OBVIOUS
  <2> USE DEF IInv, TableInv, TableOK, Final
  <2>1. CASE \E dev \in Devices, slot \in Slots, action \in Actions :
               EnqueueCommand(dev, slot, action)
    <3>1. status[nextId] = "NONE" \/ nextId \notin Ids
      BY DEF RowsAllocated, Ids
    <3> QED
      BY <2>1, <3>1 DEF EnqueueCommand, Insert
  <2>2. CASE NextMinute \/ Tick
    BY <2>2 DEF NextMinute, Tick, table
  <2>3. CASE \E dev \in Devices : DeleteDevice(dev)
    BY <2>3 DEF DeleteDevice, Cascade
  <2>4. CASE \E fresh \in SUBSET Slots : ReplaceSlots(fresh)
    BY <2>4 DEF ReplaceSlots, Cascade
  <2>5. CASE \E d \in Dispatchers : ClaimLock(d) \/ ClaimChoose(d) \/ Crash(d)
    BY <2>5 DEF ClaimLock, LockFrom, ClaimChoose, Crash, table
  <2>6. CASE \E d \in Dispatchers : ClaimCommit(d)
    BY <2>6 DEF ClaimCommit, CommitWith, ClaimInv, ClaimShape
  <2>7. CASE \E d \in Dispatchers, j \in Ids : Publishing(d, j)
    BY <2>7 DEF Publishing, PublishOk, PublishRaises, table
  <2>8. CASE \E d \in Dispatchers, j \in Ids : MarkPublishFailure(d, j)
    BY <2>8 DEF MarkPublishFailure, MarkFailureIf, RetryOrGiveUp, RetryUpTo, Open
  <2>9. CASE \E j \in Ids, outcome \in Outcomes : AgentHandles(j, outcome)
    BY <2>9 DEF AgentHandles, table
  <2>10. CASE \E a \in acks : LoseAck(a) \/ MarkAck(a)
    BY <2>10 DEF LoseAck, MarkAck, AckSettles, Open, table
  <2>11. CASE ClaimTimeouts
    BY <2>11 DEF ClaimTimeouts, Overdue
  <2> QED
    BY <2>1, <2>2, <2>3, <2>4, <2>5, <2>6, <2>7, <2>8, <2>9, <2>10, <2>11
       DEF Next, Dispatching
<1> QED
  BY <1>1, Invariance, PTL DEF Spec, SettledIsFinal

-----------------------------------------------------------------------------
(* The inflight limit of a microcontroller, with a single dispatcher.        *)

OneDispatcher == \A d, e \in Dispatchers : d = e

\* What dispatcher d is about to set SENT counts as if it were already.
Committing(d, m) == {i \in picked[d] : Micro(i) = m}

InflightInv ==
  \A m \in Microcontrollers :
    /\ Cardinality(SentOf(m)) <= InflightLimit
    /\ \A d \in Dispatchers : pc[d] = "chosen" =>
         Cardinality(SentOf(m) \cup Committing(d, m)) <= InflightLimit

LEMMA IdsAreFinite ==
  ASSUME NEW S \in SUBSET Ids
  PROVE  IsFiniteSet(S) /\ Cardinality(S) \in Nat
<1>1. IsFiniteSet(Ids)
  BY BoundAssumption, FS_Interval DEF Ids
<1>2. IsFiniteSet(S)
  BY <1>1, FS_Subset
<1> QED
  BY <1>2, FS_CardinalityType

LEMMA SmallerIsFewer ==
  ASSUME NEW S \in SUBSET Ids, NEW T \in SUBSET S
  PROVE  Cardinality(T) <= Cardinality(S) /\ (T # S => Cardinality(T) < Cardinality(S))
<1>1. /\ IsFiniteSet(S) /\ Cardinality(S) \in Nat
      /\ IsFiniteSet(T) /\ Cardinality(T) \in Nat
  BY IdsAreFinite
<1>2. Cardinality(T) <= Cardinality(S) /\ (Cardinality(S) = Cardinality(T) => S = T)
  BY <1>1, FS_Subset
<1> QED
  BY <1>1, <1>2

\* ORDER BY minute_key, id is a total order: no two rows have as many rows
\* before them, so fewer than n rows before means at most n rows.
LEMMA RankBound ==
  ASSUME NEW A \in SUBSET Ids, \A i \in A : key[i] \in Keys, NEW n \in Nat
  PROVE  Cardinality({i \in A : Cardinality({j \in A : Before(j, i)}) < n}) <= n
<1> DEFINE Pred(i) == {j \in A : Before(j, i)}
           B == {i \in A : Cardinality(Pred(i)) < n}
<1>1. \A i \in A : Pred(i) \in SUBSET Ids /\ Cardinality(Pred(i)) \in Nat
  <2>1. \A i \in A : Pred(i) \in SUBSET Ids
    OBVIOUS
  <2> HIDE DEF Pred
  <2> QED
    BY <2>1, IdsAreFinite
<1>2. \A i \in A : i \in Int /\ key[i].minute \in Int
  BY BoundAssumption DEF Ids, Keys
<1>3. ASSUME NEW i \in A, NEW j \in A, Before(i, j)
      PROVE  Cardinality(Pred(i)) < Cardinality(Pred(j))
  <2>1. Pred(i) \in SUBSET Pred(j)
    BY <1>2, <1>3 DEF Before
  <2>2. i \in Pred(j) /\ i \notin Pred(i)
    BY <1>2, <1>3 DEF Before
  <2>3. Pred(j) \in SUBSET Ids
    BY <1>1
  <2> HIDE DEF Pred
  <2> QED
    BY <2>1, <2>2, <2>3, SmallerIsFewer
<1>4. \A i, j \in A : i # j => Before(i, j) \/ Before(j, i)
  BY <1>2 DEF Before
<1> HIDE DEF Pred
<1> SUFFICES ASSUME ~(Cardinality(B) <= n) PROVE FALSE
  BY DEF Pred
<1>5. IsFiniteSet(B) /\ Cardinality(B) \in Nat
  BY IdsAreFinite
<1>6. IsFiniteSet(0..(n - 1)) /\ Cardinality(0..(n - 1)) = n
  <2>1. 0 \in Int /\ n - 1 \in Int
    OBVIOUS
  <2>2. /\ IsFiniteSet(0..(n - 1))
        /\ Cardinality(0..(n - 1)) = IF 0 > n - 1 THEN 0 ELSE (n - 1) - 0 + 1
    BY <2>1, FS_Interval
  <2> QED
    BY <2>2
<1> DEFINE rank == [i \in B |-> Cardinality(Pred(i))]
<1>7. rank \in [B -> 0..(n - 1)]
  BY <1>1
<1>8. \A i \in B : rank[i] = Cardinality(Pred(i)) /\ i \in A
  OBVIOUS
<1> HIDE DEF rank, B
<1>9. PICK x, y \in B : x # y /\ rank[x] = rank[y]
  BY <1>5, <1>6, <1>7, FS_PigeonHole
<1>10. Cardinality(Pred(x)) < Cardinality(Pred(y)) \/ Cardinality(Pred(y)) < Cardinality(Pred(x))
  BY <1>3, <1>4, <1>8, <1>9
<1> QED
  BY <1>1, <1>8, <1>9, <1>10

\* What a claim chooses fits beside what is already SENT.
LEMMA ChosenFits ==
  ASSUME NEW C \in SUBSET Ids, \A i \in C : key[i] \in Keys, NEW m \in Microcontrollers,
         Cardinality(SentOf(m)) <= InflightLimit, InflightLimit \in Nat
  PROVE  Cardinality(SentOf(m) \cup {i \in Chosen(C) : Micro(i) = m}) <= InflightLimit
<1> DEFINE A == {i \in C : Micro(i) = m}
           sent == Cardinality(SentOf(m))
           room == InflightLimit - sent
           B == {i \in A : Cardinality({j \in A : Before(j, i)}) < room}
           chosen == {i \in Chosen(C) : Micro(i) = m}
<1>1. SentOf(m) \in SUBSET Ids /\ A \in SUBSET Ids
  BY DEF SentOf
<1>2. sent \in Nat /\ room \in Nat
  BY <1>1, IdsAreFinite
<1>3. Cardinality(B) <= room
  BY <1>1, <1>2, RankBound
<1>4. chosen \in SUBSET B
  <2> SUFFICES ASSUME NEW i \in chosen PROVE i \in B
    OBVIOUS
  <2>1. i \in Admitted(C) /\ Micro(i) = m
    BY DEF Chosen, FirstOf
  <2>2. i \in A /\ sent + Cardinality({j \in C : Micro(j) = m /\ Before(j, i)}) < InflightLimit
    BY <2>1 DEF Admitted
  <2>3. {j \in C : Micro(j) = m /\ Before(j, i)} = {j \in A : Before(j, i)}
    OBVIOUS
  <2>4. {j \in A : Before(j, i)} \in SUBSET Ids
    BY <1>1
  <2>5. Cardinality({j \in A : Before(j, i)}) \in Nat
    BY <2>4, IdsAreFinite
  <2> HIDE DEF A, sent
  <2> QED
    BY <1>2, <2>2, <2>3, <2>5
<1>5. B \in SUBSET Ids
  BY <1>1
<1> HIDE DEF A, B, chosen, room
<1>6. /\ Cardinality(chosen) <= Cardinality(B) /\ Cardinality(B) \in Nat
      /\ IsFiniteSet(chosen) /\ Cardinality(chosen) \in Nat
  BY <1>4, <1>5, IdsAreFinite, SmallerIsFewer
<1>7. IsFiniteSet(SentOf(m))
  BY <1>1, IdsAreFinite
<1>8. SentOf(m) \cap chosen \in SUBSET Ids
  BY <1>1
<1>9. Cardinality(SentOf(m) \cap chosen) \in Nat
  BY <1>8, IdsAreFinite
<1>10. Cardinality(SentOf(m) \cup chosen) = sent + Cardinality(chosen) - Cardinality(SentOf(m) \cap chosen)
  BY <1>6, <1>7, FS_Union
<1>11. Cardinality(SentOf(m) \cup chosen) <= InflightLimit
  BY <1>2, <1>3, <1>6, <1>9, <1>10 DEF room
<1> QED
  BY <1>11 DEF chosen

\* A step that makes no row SENT, and after which a claim about to commit is
\* one that was.
LEMMA InflightFrame ==
  ASSUME IInv, InflightInv,
         \A i \in Ids : status'[i] = "SENT" => status[i] = "SENT",
         \A i \in Ids : status[i] # "NONE" => key'[i] = key[i],
         \A d \in Dispatchers : pc'[d] = "chosen" => pc[d] = "chosen" /\ picked'[d] = picked[d]
  PROVE  InflightInv'
<1>1. InflightLimit \in Int
  BY TuningAssumption DEF InflightLimit, AtLeast
<1>2. ASSUME NEW m \in Microcontrollers PROVE Cardinality(SentOf(m)') <= InflightLimit
  <2>1. SentOf(m)' \in SUBSET SentOf(m) /\ SentOf(m) \in SUBSET Ids
    BY DEF SentOf, Micro
  <2>2. Cardinality(SentOf(m)') <= Cardinality(SentOf(m)) /\ Cardinality(SentOf(m)) <= InflightLimit
    BY <2>1, SmallerIsFewer DEF InflightInv
  <2>3. Cardinality(SentOf(m)') \in Nat /\ Cardinality(SentOf(m)) \in Nat
    BY <2>1, IdsAreFinite
  <2> QED
    BY <1>1, <2>2, <2>3
<1>3. ASSUME NEW m \in Microcontrollers, NEW d \in Dispatchers, pc'[d] = "chosen"
      PROVE  Cardinality((SentOf(m) \cup Committing(d, m))') <= InflightLimit
  <2> DEFINE old == SentOf(m) \cup Committing(d, m)
             new == (SentOf(m) \cup Committing(d, m))'
  <2>1. pc[d] = "chosen" /\ picked'[d] = picked[d]
    BY <1>3
  <2>2. \A i \in picked[d] : i \in Ids /\ status[i] = "PENDING"
    BY <2>1 DEF IInv, ClaimInv, ClaimShape, ClaimsOK
  <2>3. new \in SUBSET old /\ old \in SUBSET Ids
    BY <2>1, <2>2 DEF SentOf, Committing, Micro
  <2>4. Cardinality(old) <= InflightLimit
    BY <2>1 DEF InflightInv
  <2> HIDE DEF old, new
  <2>5. /\ Cardinality(new) <= Cardinality(old)
        /\ Cardinality(new) \in Nat /\ Cardinality(old) \in Nat
    BY <2>3, SmallerIsFewer, IdsAreFinite
  <2>6. Cardinality(new) <= InflightLimit
    BY <1>1, <2>4, <2>5
  <2> QED
    BY <2>6 DEF new
<1> QED
  BY <1>2, <1>3 DEF InflightInv

\* The count and the choice: SENT rows do not change meanwhile.
LEMMA ChooseFits ==
  ASSUME OneDispatcher, IInv, InflightInv, NEW d \in Dispatchers, ClaimChoose(d)
  PROVE  InflightInv'
<1> DEFINE chosen == Chosen(held[d])
<1>1. /\ pc[d] = "locked" /\ picked'[d] = chosen
      /\ UNCHANGED <<status, key>> /\ \A e \in Dispatchers : e = d
  BY DEF ClaimChoose, OneDispatcher, table, IInv, ClaimInv, ClaimsOK
<1>2. held[d] \in SUBSET Ids /\ \A i \in held[d] : key[i] \in Keys
  BY <1>1 DEF IInv, ClaimInv, ClaimsOK, ClaimShape, TableInv, TableOK, RowsAllocated, Ids
<1>3. InflightLimit \in Nat
  BY TuningAssumption DEF InflightLimit, AtLeast
<1>4. ASSUME NEW m \in Microcontrollers
      PROVE  /\ SentOf(m)' = SentOf(m) /\ Cardinality(SentOf(m)) <= InflightLimit
             /\ (SentOf(m) \cup Committing(d, m))' = SentOf(m) \cup {i \in chosen : Micro(i) = m}
  BY <1>1 DEF SentOf, Micro, Committing, InflightInv
<1>5. ASSUME NEW m \in Microcontrollers
      PROVE  Cardinality(SentOf(m) \cup {i \in chosen : Micro(i) = m}) <= InflightLimit
  BY <1>2, <1>3, <1>4, ChosenFits
<1> HIDE DEF chosen
<1>6. ASSUME NEW m \in Microcontrollers
      PROVE  /\ Cardinality(SentOf(m)') <= InflightLimit
             /\ Cardinality((SentOf(m) \cup Committing(d, m))') <= InflightLimit
  BY <1>4, <1>5
<1> QED
  BY <1>1, <1>6 DEF InflightInv

LEMMA CommitFits ==
  ASSUME OneDispatcher, IInv, InflightInv, NEW d \in Dispatchers, ClaimCommit(d)
  PROVE  InflightInv'
<1>1. /\ pc[d] = "chosen" /\ pc'[d] = "idle" /\ key' = key
      /\ \A i \in Ids : status'[i] = IF i \in picked[d] THEN "SENT" ELSE status[i]
      /\ \A e \in Dispatchers : e = d
  BY DEF ClaimCommit, CommitWith, OneDispatcher, IInv, ClaimInv, ClaimsOK
<1>2. picked[d] \in SUBSET Ids
  BY DEF IInv, ClaimInv, ClaimsOK
<1>3. ASSUME NEW m \in Microcontrollers PROVE SentOf(m)' = SentOf(m) \cup Committing(d, m)
  BY <1>1, <1>2 DEF SentOf, Micro, Committing
<1>4. ASSUME NEW m \in Microcontrollers PROVE Cardinality(SentOf(m)') <= InflightLimit
  BY <1>1, <1>3 DEF InflightInv
<1>5. \A e \in Dispatchers : pc'[e] # "chosen"
  BY <1>1
<1> QED
  BY <1>4, <1>5 DEF InflightInv

LEMMA InflightNext ==
  ASSUME OneDispatcher, IInv, InflightInv, [Next]_vars
  PROVE  InflightInv'
<1> DEFINE Quiet ==
      /\ \A i \in Ids : status'[i] = "SENT" => status[i] = "SENT"
      /\ \A i \in Ids : status[i] # "NONE" => key'[i] = key[i]
      /\ \A d \in Dispatchers : pc'[d] = "chosen" => pc[d] = "chosen" /\ picked'[d] = picked[d]
<1> USE DEF IInv, TableInv, TableOK
<1>1. CASE \E dev \in Devices, slot \in Slots, action \in Actions :
             EnqueueCommand(dev, slot, action)
  <2>1. status[nextId] = "NONE" \/ nextId \notin Ids
    BY DEF RowsAllocated, Ids
  <2>2. Quiet
    BY <1>1, <2>1 DEF EnqueueCommand, Insert, claims
  <2> QED
    BY <2>2, InflightFrame
<1>2. CASE NextMinute \/ Tick
  <2>1. Quiet
    BY <1>2 DEF NextMinute, Tick, table, claims
  <2> QED
    BY <2>1, InflightFrame
<1>3. CASE \E dev \in Devices : DeleteDevice(dev)
  <2>1. Quiet
    BY <1>3 DEF DeleteDevice, Cascade, claims
  <2> QED
    BY <2>1, InflightFrame
<1>4. CASE \E fresh \in SUBSET Slots : ReplaceSlots(fresh)
  <2>1. Quiet
    BY <1>4 DEF ReplaceSlots, Cascade, claims
  <2> QED
    BY <2>1, InflightFrame
<1>5. CASE \E d \in Dispatchers : ClaimLock(d) \/ Crash(d)
  <2>1. Quiet
    BY <1>5 DEF ClaimLock, LockFrom, Crash, table, ClaimInv, ClaimsOK
  <2> QED
    BY <2>1, InflightFrame
<1>6. CASE \E d \in Dispatchers : ClaimChoose(d) \/ ClaimCommit(d)
  BY <1>6, ChooseFits, CommitFits
<1>7. CASE \E d \in Dispatchers, j \in Ids : Publishing(d, j)
  <2>1. Quiet
    BY <1>7 DEF Publishing, PublishOk, PublishRaises, table, ClaimInv, ClaimsOK
  <2> QED
    BY <2>1, InflightFrame
<1>8. CASE \E d \in Dispatchers, j \in Ids : MarkPublishFailure(d, j)
  <2>1. Quiet
    BY <1>8 DEF MarkPublishFailure, MarkFailureIf, RetryOrGiveUp, RetryUpTo
  <2> QED
    BY <2>1, InflightFrame
<1>9. CASE \E j \in Ids, outcome \in Outcomes : AgentHandles(j, outcome)
  <2>1. Quiet
    BY <1>9 DEF AgentHandles, table, claims
  <2> QED
    BY <2>1, InflightFrame
<1>10. CASE \E a \in acks : LoseAck(a) \/ MarkAck(a)
  <2>1. Quiet
    BY <1>10 DEF LoseAck, MarkAck, AckSettles, table, claims
  <2> QED
    BY <2>1, InflightFrame
<1>11. CASE ClaimTimeouts
  <2>1. Quiet
    BY <1>11 DEF ClaimTimeouts, claims
  <2> QED
    BY <2>1, InflightFrame
<1>12. CASE UNCHANGED vars
  <2>1. Quiet
    BY <1>12 DEF vars, table, claims
  <2> QED
    BY <2>1, InflightFrame
<1> QED
  BY <1>1, <1>2, <1>3, <1>4, <1>5, <1>6, <1>7, <1>8, <1>9, <1>10, <1>11, <1>12
     DEF Next, Dispatching

LEMMA InflightInit == Init => InflightInv
<1> SUFFICES ASSUME Init PROVE InflightInv
  OBVIOUS
<1>1. \A m \in Microcontrollers : SentOf(m) = {}
  BY DEF Init, SentOf
<1>2. Cardinality({}) = 0
  BY FS_EmptySet
<1>3. InflightLimit \in Nat
  BY TuningAssumption DEF InflightLimit, AtLeast
<1>4. \A m \in Microcontrollers : Cardinality(SentOf(m)) <= InflightLimit
  BY <1>1, <1>2, <1>3
<1>5. \A d \in Dispatchers : pc[d] # "chosen"
  BY DEF Init
<1> QED
  BY <1>4, <1>5 DEF InflightInv

\* While a single dispatcher runs, no microcontroller has more than
\* max_inflight_per_microcontroller commands SENT: the count of the claim is
\* still good when it commits (claim_pending_for_dispatch).
THEOREM OneDispatcherBounds == ASSUME OneDispatcher PROVE Spec => []InflightBounded
<1>1. Init => InflightInv
  BY InflightInit
<1>2. IInv /\ InflightInv /\ [Next]_vars => InflightInv'
  BY InflightNext
<1>3. InflightInv => InflightBounded
  BY DEF InflightInv, InflightBounded
<1> QED
  BY <1>1, <1>2, <1>3, Invariance, PTL DEF Spec

-----------------------------------------------------------------------------
(* The queue implements CommandLifecycle: whatever dispatchers, agents,      *)
(* timeouts and cascades do, each row goes through the abstract phases, and  *)
(* only spent tries bring it back to the queue.                              *)

phase == [i \in Ids |-> PhaseOf(status[i])]

LEMMA Phases ==
  /\ PhaseOf("NONE") = "none" /\ PhaseOf("GONE") = "removed"
  /\ PhaseOf("PENDING") = "queued" /\ PhaseOf("SENT") = "outstanding"
  /\ \A st \in Final : PhaseOf(st) = "settled"
BY DEF PhaseOf, Final

LEMMA LifecycleInit == Init => Lifecycle!Init
BY Phases DEF Init, Lifecycle!Init

\* A set S of rows moves to one status, and with it to one phase.
LEMMA MoveTo ==
  ASSUME NEW S \in SUBSET Ids, NEW to,
         \A i \in S : PhaseOf(status'[i]) = to,
         \A i \in Ids \ S : status'[i] = status[i]
  PROVE  phase' = [i \in Ids |-> IF i \in S THEN to ELSE phase[i]]
BY DEF phase

LEMMA StutterStep ==
  UNCHANGED table => UNCHANGED <<phase, attempt>>
BY DEF table, phase

LEMMA EnqueueStep ==
  ASSUME IInv, NEW dev \in Devices, NEW slot \in Slots, NEW action \in Actions,
         EnqueueCommand(dev, slot, action)
  PROVE  Lifecycle!Submit(nextId)
<1>1. nextId \in Ids /\ status[nextId] = "NONE"
  BY BoundAssumption DEF EnqueueCommand, Insert, IInv, TableInv, TableOK, RowsAllocated, Ids
<1>2. status' = [status EXCEPT ![nextId] = "PENDING"] /\ UNCHANGED attempt
  BY DEF EnqueueCommand, Insert
<1> DEFINE S == {nextId}
<1>3. \A i \in S : PhaseOf(status'[i]) = "queued"
  BY <1>1, <1>2, Phases DEF IInv, TableInv, TableOK
<1>4. S \in SUBSET Ids /\ \A i \in Ids \ S : status'[i] = status[i]
  BY <1>1, <1>2 DEF IInv, TableInv, TableOK
<1> HIDE DEF S
<1>5. phase' = [i \in Ids |-> IF i \in S THEN "queued" ELSE phase[i]]
  BY <1>3, <1>4, MoveTo
<1> QED
  BY <1>1, <1>2, <1>5, Phases DEF S, Lifecycle!Submit, Lifecycle!In, Lifecycle!Move, phase

\* A cascade removes what is in the table; it may find nothing.
LEMMA CascadeStep ==
  ASSUME IInv, NEW S \in SUBSET Ids, Cascade(S), \A i \in S : InTable(i)
  PROVE  Lifecycle!Remove(S) \/ UNCHANGED <<phase, attempt>>
<1>1. /\ status' = [i \in Ids |-> IF i \in S THEN "GONE" ELSE status[i]]
      /\ UNCHANGED attempt
  BY DEF Cascade
<1>2. phase' = [i \in Ids |-> IF i \in S THEN "removed" ELSE phase[i]]
  BY <1>1, Phases DEF phase
<1>3. \A i \in S : phase[i] \in {"queued", "outstanding", "settled"}
  BY Phases DEF InTable, IInv, TableInv, TableOK, Statuses, phase
<1>4. CASE S = {}
  BY <1>1, <1>2, <1>4 DEF phase
<1>5. CASE S # {}
  BY <1>1, <1>2, <1>3, <1>5 DEF Lifecycle!Remove, Lifecycle!In, Lifecycle!Move, phase
<1> QED
  BY <1>4, <1>5

\* A claim hands out the batch it has chosen.
LEMMA ClaimCommitStep ==
  ASSUME IInv, NEW d \in Dispatchers, ClaimCommit(d)
  PROVE  Lifecycle!Dispatch(picked[d]) \/ UNCHANGED <<phase, attempt>>
<1>1. /\ pc[d] = "chosen" /\ UNCHANGED attempt
      /\ status' = [i \in Ids |-> IF i \in picked[d] THEN "SENT" ELSE status[i]]
  BY DEF ClaimCommit, CommitWith
<1>2. phase' = [i \in Ids |-> IF i \in picked[d] THEN "outstanding" ELSE phase[i]]
  BY <1>1, Phases DEF phase
<1>3. \A i \in picked[d] : i \in Ids /\ phase[i] = "queued"
  BY <1>1, Phases DEF IInv, ClaimInv, ClaimsOK, ClaimShape, phase
<1>4. CASE picked[d] = {}
  BY <1>1, <1>2, <1>4 DEF phase
<1>5. CASE picked[d] # {}
  BY <1>1, <1>2, <1>3, <1>5 DEF Lifecycle!Dispatch, Lifecycle!In, Lifecycle!Move, phase
<1> QED
  BY <1>4, <1>5

\* A counted failure spends a try; it is the last one exactly when max_retry is
\* passed.
LEMMA FailureStep ==
  ASSUME IInv, NEW d \in Dispatchers, NEW i \in Ids, MarkPublishFailure(d, i)
  PROVE  Lifecycle!Return(i) \/ UNCHANGED <<phase, attempt>>
<1>1. CASE ~Open(i)
  BY <1>1 DEF MarkPublishFailure, MarkFailureIf, phase
<1>2. CASE Open(i)
  <2>1. RetryUpTo(RetryLimit, i, attempt[i] + 1) /\ i \in failed[d]
    BY <1>2 DEF MarkPublishFailure, MarkFailureIf, RetryOrGiveUp
  <2>2. status[i] = "SENT" /\ attempt[i] \in Nat
    BY <1>2, <2>1, LimitsAreNaturals
       DEF IInv, TableInv, TableOK, ClaimInv, ClaimsOK, ClaimShape, Open
  <2>3. /\ attempt' = [attempt EXCEPT ![i] = @ + 1]
        /\ \/ attempt[i] + 1 < RetryLimit + 1 /\ status' = [status EXCEPT ![i] = "PENDING"]
           \/ ~(attempt[i] + 1 < RetryLimit + 1) /\ status' = [status EXCEPT ![i] = "ACK_FAIL"]
    BY <2>1, <2>2, LimitsAreNaturals DEF RetryUpTo
  <2>4. phase' = [j \in Ids |-> IF j \in {i}
                    THEN IF attempt[i] + 1 < RetryLimit + 1 THEN "queued" ELSE "settled"
                    ELSE phase[j]]
    BY <2>3, Phases DEF phase, Final, IInv, TableInv, TableOK
  <2>5. phase[i] = "outstanding"
    BY <2>2, Phases DEF phase
  <2> QED
    BY <2>3, <2>4, <2>5 DEF Lifecycle!Return, Lifecycle!In, Lifecycle!Move, phase
<1> QED
  BY <1>1, <1>2

\* An acknowledgement settles an open row, or nothing.
LEMMA MarkAckStep ==
  ASSUME IInv, NEW a \in acks, MarkAck(a)
  PROVE  Lifecycle!Settle({a.id}) \/ UNCHANGED <<phase, attempt>>
<1>1. a.id \in Ids
  BY DEF IInv, NetworkInv, NetworkOK, Reports
<1>2. CASE ~Open(a.id)
  BY <1>2 DEF MarkAck, AckSettles, phase
<1>3. CASE Open(a.id)
  <2>1. /\ status' = [status EXCEPT ![a.id] = IF AckOk(a) THEN "ACK_OK" ELSE "ACK_FAIL"]
        /\ UNCHANGED attempt
    BY <1>3 DEF MarkAck, AckSettles
  <2>2. phase' = [i \in Ids |-> IF i \in {a.id} THEN "settled" ELSE phase[i]]
    BY <2>1, Phases DEF phase, Final, IInv, TableInv, TableOK
  <2>3. phase[a.id] \in {"queued", "outstanding"}
    BY <1>1, <1>3, Phases DEF phase, Open
  <2> QED
    BY <2>1, <2>2, <2>3 DEF Lifecycle!Settle, Lifecycle!In, Lifecycle!Move, phase
<1> QED
  BY <1>2, <1>3

\* A sweep settles its batch.
LEMMA TimeoutsStep ==
  ASSUME IInv, ClaimTimeouts
  PROVE  (\E S \in SUBSET Ids : Lifecycle!Settle(S)) \/ UNCHANGED <<phase, attempt>>
<1>1. PICK batch \in SUBSET Overdue :
        status' = [i \in Ids |-> IF i \in batch THEN "TIMEOUT" ELSE status[i]]
  BY DEF ClaimTimeouts
<1>2. UNCHANGED attempt
  BY DEF ClaimTimeouts
<1>3. phase' = [i \in Ids |-> IF i \in batch THEN "settled" ELSE phase[i]]
  BY <1>1, Phases DEF phase, Final
<1>4. batch \in SUBSET Ids /\ \A i \in batch : phase[i] = "outstanding"
  BY Phases DEF Overdue, phase
<1>5. CASE batch = {}
  BY <1>2, <1>3, <1>5 DEF phase
<1>6. CASE batch # {}
  <2>1. Lifecycle!Settle(batch)
    BY <1>2, <1>3, <1>4, <1>6 DEF Lifecycle!Settle, Lifecycle!In, Lifecycle!Move, phase
  <2> QED
    BY <1>4, <2>1
<1> QED
  BY <1>5, <1>6

LEMMA LifecycleNext ==
  IInv /\ [Next]_vars => Lifecycle!Next \/ UNCHANGED <<phase, attempt>>
<1> SUFFICES ASSUME IInv, [Next]_vars
             PROVE  Lifecycle!Next \/ UNCHANGED <<phase, attempt>>
  OBVIOUS
<1> USE DEF Lifecycle!Next
<1>1. CASE \E dev \in Devices, slot \in Slots, action \in Actions :
             EnqueueCommand(dev, slot, action)
  <2>1. nextId \in Ids
    BY <1>1, BoundAssumption DEF EnqueueCommand, Insert, IInv, TableInv, TableOK, Ids
  <2> QED
    BY <1>1, <2>1, EnqueueStep
<1>2. CASE \E dev \in Devices : DeleteDevice(dev)
  <2>1. PICK dev \in Devices : DeleteDevice(dev)
    BY <1>2
  <2> DEFINE S == {i \in Ids : InTable(i) /\ key[i].device = dev}
  <2>2. Cascade(S) /\ S \in SUBSET Ids /\ \A i \in S : InTable(i)
    BY <2>1 DEF DeleteDevice
  <2> HIDE DEF S
  <2> QED
    BY <2>2, CascadeStep
<1>3. CASE \E fresh \in SUBSET Slots : ReplaceSlots(fresh)
  <2> DEFINE S == {i \in Ids : InTable(i) /\ slots[key[i].slot] = "live"}
  <2>1. Cascade(S) /\ S \in SUBSET Ids /\ \A i \in S : InTable(i)
    BY <1>3 DEF ReplaceSlots
  <2> HIDE DEF S
  <2> QED
    BY <2>1, CascadeStep
<1>4. CASE \E d \in Dispatchers : ClaimCommit(d)
  BY <1>4, ClaimCommitStep DEF IInv, ClaimInv, ClaimsOK
<1>5. CASE \E d \in Dispatchers, i \in Ids : MarkPublishFailure(d, i)
  BY <1>5, FailureStep
<1>6. CASE \E a \in acks : MarkAck(a)
  <2>1. \A a \in acks : {a.id} \in SUBSET Ids
    BY DEF IInv, NetworkInv, NetworkOK, Reports
  <2> QED
    BY <1>6, <2>1, MarkAckStep
<1>7. CASE ClaimTimeouts
  BY <1>7, TimeoutsStep
<1>8. CASE \/ NextMinute
           \/ \E d \in Dispatchers : ClaimLock(d) \/ ClaimChoose(d) \/ Crash(d)
           \/ \E d \in Dispatchers, i \in Ids : Publishing(d, i)
           \/ \E i \in Ids, outcome \in Outcomes : AgentHandles(i, outcome)
           \/ \E a \in acks : LoseAck(a)
           \/ UNCHANGED vars
  <2>1. UNCHANGED table
    BY <1>8 DEF NextMinute, ClaimLock, LockFrom, ClaimChoose, Crash, Publishing, PublishOk,
                PublishRaises, AgentHandles, LoseAck, vars
  <2> QED
    BY <2>1, StutterStep
<1>9. CASE Tick
  BY <1>9 DEF Tick, phase
<1> QED
  BY <1>1, <1>2, <1>3, <1>4, <1>5, <1>6, <1>7, <1>8, <1>9 DEF Next, Dispatching

\* SchedulerCommandRepository, with everything around it, implements the
\* abstract lifecycle of a command.
THEOREM ImplementsLifecycle == Spec => LifecycleSpec
<1>1. IInv /\ [Next]_vars => [Lifecycle!Next]_<<[i \in Ids |-> PhaseOf(status[i])], attempt>>
  BY LifecycleNext DEF phase
<1> QED
  BY <1>1, LifecycleInit, Invariance, PTL DEF Spec, LifecycleSpec, Lifecycle!Spec
=============================================================================

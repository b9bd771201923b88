---------------------------- MODULE DeviceRequests ----------------------------
(***************************************************************************)
(* DeviceService: requests of the HTTP API that change a device of one     *)
(* microcontroller.  Each tells the agent of the change and waits for its  *)
(* acknowledgement inside an open database transaction.  The requests of   *)
(* one process share its event loop, which a database call blocks.         *)
(* Beside them runs the scheduler, which switches the same devices.        *)
(***************************************************************************)
EXTENDS Integers, FiniteSets, Sequences

CONSTANTS
  Devices,      \* ids of devices, existing ones and ones to be created
  Existing,     \* the devices with a row at the start
  Requests,     \* HTTP requests; each is made at most once
  ProcessOf,    \* the API process that serves a request
  Jobs,         \* what a request may ask for
  Numbers,      \* pin numbers
  MaxDevices,   \* max_devices of the microcontroller
  MaxSwitches,  \* bound: commands of the scheduler
  None          \* no row, no answer, nothing loaded

VARIABLES
  row,       \* devices: committed columns, or None
  config,    \* the devices_config list of the microcontroller's config column
  lock,      \* the request that has updated a row and not yet committed
  configLock,\* the same of the microcontroller's row, which has the config
  relay,     \* what the agent's outputs are
  net,       \* commands stored in the stream, not yet handled
  switched,  \* results of scheduler commands not yet written
  switches,  \* commands of the scheduler so far
  job,       \* what a request was made for
  todo,      \* the service calls it still has to make, the current one first
  pc, seen, mine, entries, inbox,
  outcome,   \* how a request ended
  alone      \* history: requests that nothing has overlapped so far

request == <<job, todo, pc, seen, mine, entries, inbox, outcome>>
vars == <<row, config, lock, configLock, relay, net, switched, switches, request, alone>>

Row == [number : Numbers, mode : {"MANUAL", "SCHEDULE"}, sched : BOOLEAN, state : BOOLEAN]
Entry == [dev : Devices, pin : Numbers, mode : {"MANUAL", "SCHEDULE"}, on : BOOLEAN]

\* What a request may ask for; an update names the columns it changes.
Changes == {[f \in columns |-> new[f]] : columns \in SUBSET {"number", "mode", "sched", "state"},
                                        new \in Row}
Ops == [op : {"set"}, dev : Devices, state : BOOLEAN]
         \cup [op : {"create"}, dev : Devices, number : Numbers]
         \cup [op : {"delete"}, dev : Devices]
         \cup [op : {"update"}, dev : Devices, change : Changes]

ASSUME DevicesAssumption == /\ Devices \subseteq Int /\ IsFiniteSet(Devices)
                            /\ Existing \subseteq Devices \cap Numbers /\ MaxDevices \in Nat
ASSUME JobsAssumption == \A r \in Requests : Jobs[r] \subseteq Ops \cup {[op |-> "disable"]}

\* The database gives every new row an id of its own.
ASSUME NewIds ==
  \A r \in Requests : \A j \in Jobs[r] : j.op = "create" =>
    /\ j.dev \notin Existing
    /\ \A q \in Requests \ {r} : \A k \in Jobs[q] : k.op = "create" => k.dev # j.dev

ASSUME NullAssumption ==
  /\ None \notin Requests /\ None \notin Row /\ None \notin BOOLEAN
  /\ \A cfg \in SUBSET Entry : cfg # None
  /\ None \notin [req : Requests, ok : BOOLEAN, state : BOOLEAN \cup {None}]

Present == {d \in Devices : row[d] # None}
Op(r) == Head(todo[r])

\* A request at one of these points runs without giving up the event loop.
Sync == {"start", "flush", "commit"}
CanRun(r) == \A q \in Requests \ {r} : ProcessOf[q] = ProcessOf[r] => pc[q] \notin Sync

Unlocked(r) == lock[Op(r).dev] \in {None, r}

\* What the session of a request holds: rows and config as it first read them.
NothingSeen == [rows |-> [d \in Devices |-> None], config |-> None]
SeenRow(r, d) == IF seen[r].rows[d] # None THEN seen[r].rows[d] ELSE row[d]
SeenConfig(r) == IF seen[r].config # None THEN seen[r].config ELSE config
Load(r, d) == [rows |-> [seen[r].rows EXCEPT ![d] = SeenRow(r, d)],
               config |-> SeenConfig(r)]

Changed(old, change) == [f \in DOMAIN old |-> IF f \in DOMAIN change THEN change[f] ELSE old[f]]

\* An UPDATE names the columns that differ from what the session has loaded.
Written(current, loaded, new) ==
  [f \in DOMAIN current |-> IF new[f] = loaded[f] THEN current[f] ELSE new[f]]

\* _sync_device_config_state.  Every entry of the device or of its pin becomes
\* the device's; equal entries of the list are one here.
EntryOf(d, new) == [dev |-> d, pin |-> new.number, mode |-> new.mode, on |-> new.state]

\* Mutant: entries are found by their pin only.
PinOnlyConfig(cfg, d, new) == {e \in cfg : e.pin # new.number} \cup {EntryOf(d, new)}

SyncedConfig(cfg, d, new) ==
  {e \in cfg : e.dev # d /\ e.pin # new.number} \cup {EntryOf(d, new)}

Message(r, op) ==
  [req |-> r, op |-> op.op, dev |-> op.dev,
   state |-> IF op.op = "set" THEN op.state ELSE None]

-----------------------------------------------------------------------------
Init ==
  /\ row \in [Devices -> Row \cup {None}]
  /\ \A d \in Devices :
       row[d] = IF d \in Existing
                THEN [number |-> d, mode |-> "SCHEDULE", sched |-> TRUE, state |-> FALSE]
                ELSE None
  /\ config = {EntryOf(d, row[d]) : d \in Existing}
  /\ lock = [d \in Devices |-> None]
  /\ configLock = None
  /\ relay = [d \in Devices |-> FALSE]
  /\ net = {} /\ switched = {} /\ switches = 0
  /\ job = [r \in Requests |-> None]
  /\ todo = [r \in Requests |-> <<>>]
  /\ pc = [r \in Requests |-> "idle"]
  /\ seen = [r \in Requests |-> NothingSeen]
  /\ mine = [r \in Requests |-> None]
  /\ entries = [r \in Requests |-> None]
  /\ inbox = [r \in Requests |-> None]
  /\ outcome = [r \in Requests |-> None]
  /\ alone = {}

\* list_for_scheduler: by id.
InIdOrder(order, listed) ==
  /\ listed = {order[i] : i \in DOMAIN order}
  /\ \A i, j \in DOMAIN order : i < j => order[i] < order[j]

\* The calls of disable_scheduler_devices, two for each device it lists.
DisableCalls(order) ==
  [i \in 1..2 * Len(order) |->
    LET d == order[(i + 1) \div 2] IN
    IF i % 2 = 1
    THEN [op |-> "update", dev |-> d, change |-> [mode |-> "MANUAL", sched |-> FALSE]]
    ELSE [op |-> "set", dev |-> d, state |-> FALSE]]

\* disable_scheduler_devices reads its devices first; the session keeps them.
Begin(r) ==
  /\ pc[r] = "idle" /\ CanRun(r)
  /\ \E j \in Jobs[r] :
       LET listed == {d \in Present : row[d].sched} IN
       /\ j.op = "create" => row[j.dev] = None
       /\ j.op = "disable" => listed # {}
       /\ job' = [job EXCEPT ![r] = j.op]
       /\ \E order \in [1..Cardinality(listed) -> listed] :
            /\ InIdOrder(order, listed)
            /\ todo' = [todo EXCEPT ![r] = IF j.op = "disable" THEN DisableCalls(order) ELSE <<j>>]
       /\ seen' = [seen EXCEPT ![r] =
            IF j.op = "disable"
            THEN [rows |-> [d \in Devices |-> IF d \in listed THEN row[d] ELSE None],
                  config |-> config]
            ELSE @]
  /\ pc' = [pc EXCEPT ![r] = "start"]
  /\ alone' = IF /\ net = {} /\ switched = {}
                 /\ \A q \in Requests : pc[q] \in {"idle", "done"}
              THEN {r} ELSE {}
  /\ UNCHANGED <<row, config, lock, configLock, relay, net, switched, switches, mine, entries, inbox, outcome>>

\* The transaction ends.
Release(r) ==
  /\ lock' = [d \in Devices |-> IF lock[d] = r THEN None ELSE lock[d]]
  /\ configLock' = IF configLock = r THEN None ELSE configLock

\* The request ends; its session is closed.
End(r, how) ==
  /\ pc' = [pc EXCEPT ![r] = "done"]
  /\ outcome' = [outcome EXCEPT ![r] = how]
  /\ todo' = [todo EXCEPT ![r] = <<>>]
  /\ seen' = [seen EXCEPT ![r] = NothingSeen]
  /\ mine' = [mine EXCEPT ![r] = None]
  /\ entries' = [entries EXCEPT ![r] = None]
  /\ inbox' = [inbox EXCEPT ![r] = None]
  /\ Release(r)
  /\ UNCHANGED job

\* The next call of the request, in the same session.
Continue(r, session) ==
  IF Len(todo[r]) = 1 THEN End(r, "ok")
  ELSE /\ pc' = [pc EXCEPT ![r] = "start"]
       /\ todo' = [todo EXCEPT ![r] = Tail(@)]
       /\ seen' = [seen EXCEPT ![r] = session]
       /\ mine' = [mine EXCEPT ![r] = None]
       /\ entries' = [entries EXCEPT ![r] = None]
       /\ inbox' = [inbox EXCEPT ![r] = None]
       /\ Release(r)
       /\ UNCHANGED <<job, outcome>>

\* Mutant: no failed call stops a request.
FailContinues(r) == Continue(r, NothingSeen)

\* An HTTPException: set_manual_state returns it as a result, the others raise.
\* The rollback empties the session.
Fail(r) == IF Op(r).op = "set" THEN Continue(r, NothingSeen) ELSE End(r, "raised")

Publish(r) == net' = net \cup {Message(r, Op(r))}

\* _ensure_scheduler_for_mode: a device in SCHEDULE mode needs a scheduler.
Unscheduled(x) == x.mode = "SCHEDULE" /\ ~x.sched

\* A guard of the service refuses: max_devices is reached, get_device finds
\* nothing, or the update would leave the device as it was read unscheduled.
Refused(r) ==
  LET d == Op(r).dev IN
  IF Op(r).op = "create" THEN Cardinality(Present) >= MaxDevices
  ELSE row[d] # None =>
         Op(r).op = "update" /\ Unscheduled(Changed(SeenRow(r, d), Op(r).change))

Refuse(r) ==
  /\ pc[r] = "start" /\ Refused(r)
  /\ End(r, "raised")
  /\ UNCHANGED <<row, config, relay, net, switched, switches, alone>>

\* The attributes set before the wait are not flushed: no lock is taken.
StartSet(r) ==
  /\ pc[r] = "start" /\ Op(r).op = "set" /\ ~Refused(r)
  /\ seen' = [seen EXCEPT ![r] = Load(r, Op(r).dev)]
  /\ mine' = [mine EXCEPT ![r] =
       [SeenRow(r, Op(r).dev) EXCEPT !.mode = "MANUAL", !.state = Op(r).state]]
  /\ Publish(r)
  /\ pc' = [pc EXCEPT ![r] = "wait"]
  /\ UNCHANGED <<row, config, lock, configLock, relay, switched, switches, job, todo, entries, inbox, outcome, alone>>

\* create_device: the INSERT is flushed, nobody sees the row before the commit.
StartCreate(r) ==
  /\ pc[r] = "start" /\ Op(r).op = "create" /\ ~Refused(r)
  /\ LET new == [number |-> Op(r).number, mode |-> "MANUAL", sched |-> FALSE, state |-> FALSE] IN
     /\ mine' = [mine EXCEPT ![r] = new]
     /\ entries' = [entries EXCEPT ![r] = SyncedConfig(config, Op(r).dev, new)]
  /\ seen' = [seen EXCEPT ![r].config = config]
  /\ Publish(r)
  /\ pc' = [pc EXCEPT ![r] = "wait"]
  /\ UNCHANGED <<row, config, lock, configLock, relay, switched, switches, job, todo, inbox, outcome, alone>>

StartDelete(r) ==
  /\ pc[r] = "start" /\ Op(r).op = "delete" /\ ~Refused(r)
  /\ Publish(r)
  /\ pc' = [pc EXCEPT ![r] = "wait"]
  /\ UNCHANGED <<row, config, lock, configLock, relay, switched, switches, job, todo, seen, mine, entries, inbox, outcome, alone>>

StartUpdate(r) ==
  /\ pc[r] = "start" /\ Op(r).op = "update" /\ ~Refused(r)
  /\ LET old == SeenRow(r, Op(r).dev) IN
     /\ seen' = [seen EXCEPT ![r] = Load(r, Op(r).dev)]
     /\ mine' = [mine EXCEPT ![r] = Changed(old, Op(r).change)]
  /\ pc' = [pc EXCEPT ![r] = "flush"]
  /\ UNCHANGED <<row, config, lock, configLock, relay, net, switched, switches, job, todo, entries, inbox, outcome, alone>>

\* update_for_user: flush and refresh.  Without a difference no UPDATE is sent.
Flush(r) ==
  /\ pc[r] = "flush" /\ row[Op(r).dev] # None
  /\ LET d == Op(r).dev
         loaded == seen[r].rows[d]
         new == Written(row[d], loaded, mine[r]) IN
     /\ mine[r] # loaded => Unlocked(r)
     /\ lock' = IF mine[r] # loaded THEN [lock EXCEPT ![d] = r] ELSE lock
     /\ mine' = [mine EXCEPT ![r] = new]
     /\ entries' = [entries EXCEPT ![r] = SyncedConfig(seen[r].config, d, new)]
  /\ Publish(r)
  /\ pc' = [pc EXCEPT ![r] = "wait"]
  /\ UNCHANGED <<row, config, configLock, relay, switched, switches, job, todo, seen, inbox, outcome,
                 alone>>

\* The row was deleted since it was read.
FlushStale(r) ==
  /\ pc[r] = "flush" /\ row[Op(r).dev] = None
  /\ End(r, "raised")
  /\ UNCHANGED <<row, config, relay, net, switched, switches, alone>>

\* Mutant: wait_for without a timeout, only a rejection fails.
NoTimeout(r) ==
  /\ pc[r] = "wait" /\ CanRun(r) /\ inbox[r] # None /\ ~inbox[r].ok
  /\ Fail(r)
  /\ UNCHANGED <<row, config, relay, net, switched, switches, alone>>

\* wait_for expires, or the publish has raised.
Timeout(r) ==
  /\ pc[r] = "wait" /\ CanRun(r)
  /\ Fail(r)
  /\ UNCHANGED <<row, config, relay, net, switched, switches, alone>>

\* ack_device_state: the answer may say what the output is.  delete_device and
\* update_device do not look at it.
TakeAck(r) ==
  /\ pc[r] = "wait" /\ CanRun(r) /\ inbox[r] # None /\ inbox[r].ok
  /\ LET answered == IF Op(r).op \in {"set", "create"} /\ inbox[r].state # None
                     THEN [mine[r] EXCEPT !.state = inbox[r].state] ELSE mine[r] IN
     /\ mine' = [mine EXCEPT ![r] = answered]
     /\ entries' = [entries EXCEPT ![r] =
          IF Op(r).op \in {"set", "create"}
          THEN SyncedConfig(seen[r].config, Op(r).dev, answered) ELSE @]
  /\ inbox' = [inbox EXCEPT ![r] = None]
  /\ pc' = [pc EXCEPT ![r] = "commit"]
  /\ UNCHANGED <<row, config, lock, configLock, relay, net, switched, switches, job, todo, seen, outcome, alone>>

TakeRejection(r) ==
  /\ pc[r] = "wait" /\ CanRun(r) /\ inbox[r] # None /\ ~inbox[r].ok
  /\ Fail(r)
  /\ UNCHANGED <<row, config, relay, net, switched, switches, alone>>

\* The statements of the commit.  A config equal to the loaded one is not written.
Stale(r) == Op(r).op \in {"set", "update"} /\ row[Op(r).dev] = None

CommittedRow(r) ==
  LET d == Op(r).dev IN
  CASE Op(r).op = "delete" -> None
    [] Op(r).op = "create" -> mine[r]
    [] Op(r).op = "update" -> IF lock[d] = r THEN mine[r] ELSE row[d]
    [] Op(r).op = "set"    -> Written(row[d], seen[r].rows[d], mine[r])

NeedsLock(r) == Op(r).op \in {"set", "delete"}

WritesConfig(r) == entries[r] \notin {None, seen[r].config}

\* The commit sends UPDATE microcontrollers before UPDATE devices.
LockConfig(r) ==
  /\ pc[r] = "commit" /\ WritesConfig(r)
  /\ configLock = None
  /\ configLock' = r
  /\ UNCHANGED <<row, config, lock, relay, net, switched, switches, request, alone>>

\* Every statement of the commit has its row.
HasConfig(r) == WritesConfig(r) => configLock = r
HasRows(r) == HasConfig(r) /\ (NeedsLock(r) => Unlocked(r))

Commit(r) ==
  /\ pc[r] = "commit" /\ ~Stale(r)
  /\ HasRows(r)
  /\ row' = [row EXCEPT ![Op(r).dev] = CommittedRow(r)]
  /\ config' = IF WritesConfig(r) THEN entries[r] ELSE config
  /\ Continue(r, [rows |-> [seen[r].rows EXCEPT ![Op(r).dev] = mine[r]],
                  config |-> IF entries[r] = None THEN seen[r].config ELSE entries[r]])
  /\ UNCHANGED <<relay, net, switched, switches, alone>>

\* A database call or a coroutine of r goes on only after q: q has the row that
\* r's next statement changes, or blocks the event loop of r.
WaitsFor(r, q) ==
  \/ pc[r] = "flush" /\ mine[r] # seen[r].rows[Op(r).dev] /\ lock[Op(r).dev] = q
  \/ pc[r] = "commit" /\ q # r
       /\ IF HasConfig(r) THEN NeedsLock(r) /\ lock[Op(r).dev] = q ELSE configLock = q
  \/ pc[r] = "wait" /\ q # r /\ ProcessOf[q] = ProcessOf[r] /\ pc[q] \in Sync

\* PostgreSQL aborts one of two commits that wait for each other.
Deadlocked(r) ==
  \E q \in Requests : pc[q] = "commit" /\ WaitsFor(r, q) /\ WaitsFor(q, r)

\* The commit fails, or the row is gone: no HTTPException, so every caller raises.
CommitFails(r) ==
  /\ pc[r] = "commit"
  /\ HasRows(r) \/ Deadlocked(r)
  /\ End(r, "raised")
  /\ UNCHANGED <<row, config, relay, net, switched, switches, alone>>

-----------------------------------------------------------------------------
\* The agent (external) handles a command.  It may reject it, or report another
\* state than the one asked for.  The answer is published on the subject of the
\* microcontroller and the kind of event: it reaches every request that waits
\* there for the same device, or some, or none.
Listeners(m) == {r \in Requests : /\ pc[r] = "wait" /\ inbox[r] = None
                                  /\ Op(r).op = m.op /\ Op(r).dev = m.dev}

AgentHandles(m) ==
  /\ net' = net \ {m}
  /\ \E ok \in BOOLEAN, done \in BOOLEAN, told \in BOOLEAN, reached \in SUBSET Listeners(m) :
       /\ m.op \notin {"set", "create"} => ~told
       /\ m.op # "set" \/ ~ok => ~done
       /\ m.op = "set" /\ ok /\ ~done => told
       /\ relay' = IF done THEN [relay EXCEPT ![m.dev] = m.state] ELSE relay
       /\ inbox' = [r \in Requests |->
            IF r \in reached
            THEN [req |-> m.req, ok |-> ok, state |-> IF told THEN relay'[m.dev] ELSE None]
            ELSE inbox[r]]
  /\ UNCHANGED <<row, config, lock, configLock, switched, switches, job, todo, pc, seen, mine, entries, outcome, alone>>

\* The agent never comes to it.
DropMessage(m) ==
  /\ net' = net \ {m}
  /\ UNCHANGED <<row, config, lock, configLock, relay, switched, switches, request, alone>>

\* A command of the scheduler is carried out.
SchedulerSwitches(d, state) ==
  /\ switches < MaxSwitches /\ d \in Present
  /\ switches' = switches + 1
  /\ relay' = [relay EXCEPT ![d] = state]
  /\ switched' = switched \cup {[dev |-> d, state |-> state]}
  /\ alone' = {}
  /\ UNCHANGED <<row, config, lock, configLock, net, request>>

\* update_device_state: the column of the row only, the config is left alone.
UpdateDeviceState(s) ==
  /\ lock[s.dev] = None
  /\ switched' = switched \ {s}
  /\ row' = IF row[s.dev] = None THEN row ELSE [row EXCEPT ![s.dev].state = s.state]
  /\ UNCHANGED <<config, lock, configLock, relay, net, switches, request, alone>>

-----------------------------------------------------------------------------
Proceed(r) ==
  \/ Refuse(r) \/ StartSet(r) \/ StartCreate(r) \/ StartDelete(r) \/ StartUpdate(r)
  \/ Flush(r) \/ FlushStale(r)
  \/ Timeout(r) \/ TakeAck(r) \/ TakeRejection(r)
  \/ LockConfig(r) \/ Commit(r) \/ CommitFails(r)

Next ==
  \/ \E r \in Requests : Begin(r) \/ Proceed(r)
  \/ \E m \in net : AgentHandles(m) \/ DropMessage(m)
  \/ \E d \in Devices, state \in BOOLEAN : SchedulerSwitches(d, state)
  \/ \E s \in switched : UpdateDeviceState(s)

Spec == Init /\ [][Next]_vars

\* A process gives its requests their turn and timers fire.  Nothing is assumed
\* of users, the agent and the network.
FairSpec == Spec /\ \A r \in Requests : WF_vars(Proceed(r))

-----------------------------------------------------------------------------
\* A call that nothing overlaps leaves row, config and agent in agreement,
\* whatever went wrong before it: set_manual_state stores what the output is,
\* the device has one entry that equals its row, no other device's entry
\* changes unless it claims the same pin, and a creation keeps max_devices.
Exact(r) ==
  LET d == Op(r).dev
      own(cfg) == {e \in cfg : e.dev = d} IN
  /\ Op(r).op = "set" => row'[d].state = relay[d] /\ row'[d].mode = "MANUAL"
  /\ Op(r).op \in {"set", "create", "update"} =>
       /\ own(config') = {EntryOf(d, row'[d])}
       /\ config' \ own(config') = {e \in config \ own(config) : e.pin # row'[d].number}
  /\ Op(r).op = "create" => Cardinality(Present') <= MaxDevices

StepExact == \A r \in alone : Commit(r) => Exact(r)
AloneIsExact == [][StepExact]_vars

\* disable_scheduler_devices that nothing overlaps and that does not raise has
\* taken every device from the scheduler, though switching them off may have
\* failed.
StepDisables ==
  \A r \in alone :
    pc[r] # "done" /\ pc'[r] = "done" /\ job[r] = "disable" /\ outcome'[r] = "ok"
      => \A d \in Present' : ~row'[d].sched /\ row'[d].mode = "MANUAL"
AloneDisables == [][StepDisables]_vars

\* Requests wait for each other in a circle, one of them for its event loop:
\* the database sees no deadlock, and the loop that would let a timeout release
\* its rows is blocked.  Two requests of one process and one row are enough; so
\* are three, when one of another process has the microcontroller's row.
LoopBlocked ==
  \E C \in SUBSET Requests :
    /\ \A r \in C : (\E q \in C : WaitsFor(r, q)) /\ (\E q \in C : WaitsFor(q, r))
    /\ \E r \in C : pc[r] = "wait"

\* Every request is answered in the end, with or without an acknowledgement;
\* such a circle is the only thing that can prevent it.
RequestsEnd == \A r \in Requests : pc[r] = "start" ~> (pc[r] = "done" \/ LoopBlocked)
=============================================================================

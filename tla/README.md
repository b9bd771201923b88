# Verification of smart_common

`smart_common` is the library behind a home energy system: users own
microcontrollers that switch devices; schedulers and automation rules decide
when; providers (inverters) deliver the power measurements the rules look at;
commands travel to the device agents over NATS JetStream; everything else is in
PostgreSQL. The library holds the repositories, services and messaging; the
processes that call them (scheduler loop, dispatcher, acknowledgement listener,
HTTP API, provider workers, device agents) live elsewhere and are modelled from
how the code here is written to be called.

The modules in this directory model the library's behaviour in TLA+. TLC
model-checks them on small instances and TLAPS proves the most important
properties for every value of the constants.

## Inventory

| Component | State | Operations | What is hard | What makes it correct |
|---|---|---|---|---|
| Scheduler command queue (`repositories/scheduler_command_repository.py`, `models/scheduler_command.py`) | rows of `scheduler_commands`: status, attempt, next_retry_at, ack_deadline_at | enqueue_command, claim_pending_for_dispatch, mark_publish_failure, mark_ack, claim_timeouts | several dispatchers, row locks with SKIP LOCKED, crashes after the claim, late and repeated acknowledgements, cascades | each command sent a bounded number of times, by one dispatcher, settled once and for all, and settled in the end; inflight limit per microcontroller |
| Command publishing (`services/scheduler_command_service.py`, `nats/publisher.py`) | NATS connection, publish lock | publish, publish_and_wait_for_ack, close | draining, reconnects, subscriptions left behind, replies that are lost | a publish that returns was stored; a failed one leaves nothing behind |
| Slot windows (`repositories/scheduler_runtime_repository.py`, `services/scheduler_service.py`) | schedulers, slots, devices' mode and manual_state | fetch_due_entries, fetch_end_entries, update_device_state, create/update/delete of schedulers | a minute the loop misses, edits within a minute, a mode change after the enqueue | a device is on only inside its slots |
| Decision and automation rules (`services/scheduler_decision_service.py`, `schemas/automation_rule.py`) | none; reads provider, measurement, metric samples | decide | stale, missing, future data; nested ALL/ANY groups; units | never ALLOW_ON without the evidence the rule asks for |
| Devices (`services/device_service.py`) | devices, copy of them in the microcontroller's config JSON | create, update, delete, set_manual_state, disable_scheduler_devices | publish before commit, acknowledgements matched by device id, check-then-act limits, read-modify-write of the JSON | database, config copy and agent agree; limits hold |
| Microcontrollers (`services/microcontroller_service.py`, `repositories/microcontroller.py`) | the row, its capability rows, the config document, the agent's files | register, both updates, config update, delete, sync and the other agent commands | a limit and a list of sensors kept three times, sessions that write whole documents, acknowledgements that are late or lost | row, config and agent's files agree |
| Providers (`services/provider_service.py`, `services/microcontroller_service.py`) | providers, power_provider_id | set_power_provider, create/update/enable/delete of providers | preconditions that refer to each other, rules that need a capability of the provider | a device in AUTO mode has a provider that can feed its rule |
| Provider wizard (`providers/services/wizard_service.py`, `providers/wizard/session`) | sessions in memory or Redis, with expiry | run_step, consume_session | reads that write, concurrent steps, double consumption | a session is consumed once, by a finished wizard |
| Provider adapters (`providers/adapters`) | adapter cache, login session | create, fetch | cached credentials, relogin | a request is sent under a valid login |
| Measurements, energy, device events (`repositories/measurement_repository.py`, `services/energy_calculation_service.py`, `services/device_event_service.py`) | measurements, metric samples, capability flags, device events | save_measurement, promotion of capabilities, sample queries, integrals, the day report | late rows, rows of overlapping polls, objects that stay stale in a session, gaps, bucket borders, limits | sums equal what really happened, as far as rows tell; a cleared capability stays cleared |
| Authentication (`services/auth_service.py`, `core/security.py`) | users, tokens | register, confirm, login, refresh | e-mail sent before the commit | a token is honoured only for an active user |

Interactions: the scheduler loop reads slot windows, asks the decision service
and enqueues commands; dispatchers claim and publish them; the agent's
acknowledgement comes back through a listener that calls mark_ack and
update_device_state; a sweeper calls claim_timeouts. The device service talks to
the same agents by request and acknowledgement, inside HTTP requests. Providers
feed measurements that decisions read. All of them share the database, whose
foreign keys cascade from users, devices, schedulers and slots.

The hazards these interactions create are listed, each at its line, in
`PROJECT.json`.

## Plan

The order followed what the system can least afford to get wrong. All modules
of the plan are written.

1. **SchedulerCommands** with **CommandLifecycle** as its abstract
   specification, and their proofs.
2. **RuleEvaluation** and **SchedulerDecision**; theorems about groups.
3. **DeviceRequests**: requests and acknowledgements of the device service.
4. **PowerProviders**: which states of providers, attachment and rules are
   reachable by legal calls.
5. **SlotWindows**: slots, modes and the loop over the minutes of a small day,
   composed with the queue.
6. **NatsConnection**: the publisher and the client behind every command.
7. **VendorSessions** and, on top of it, **ProviderWizard**.
8. **ProviderTelemetry**, **EnergyCalculation** and **DeviceHistory** over
   **HistoryClock**, composed in **History**.
9. **Microcontrollers**: the copies of a microcontroller's settings.

Then the proofs, for each component what relates most of its state: the queue
and its refinement, the decision over rules of every depth, the microcontroller's
copies, providers and rules, the NATS connection, the wizard over the vendors'
adapters, the device requests, the slots and what they make of devices, the
capabilities of a polled provider, the report of a device's day, the energy of
measurements. No safety property is left to TLC alone (see Only model-checked).

## Modules

| Module | What it is |
|---|---|
| `SchedulerCommands` | the queue and the processes around it |
| `CommandLifecycle` | what the queue promises for each command |
| `SchedulerCommandsProofs` | inductive invariant, safety theorems, and the proof that the queue implements CommandLifecycle |
| `RuleEvaluation` | one condition and one group of an automation rule |
| `SchedulerDecision` | the decision for a due slot over the rows it reads; EXTENDS RuleEvaluation |
| `SchedulerDecisionProofs` | theorems about rules of every depth and about the decision on them |
| `SlotWindows` | slots, the loop over minutes, the queue and the agent |
| `SlotWindowsProofs` | what an undisturbed device and a calm minute come to |
| `DeviceRequests` | the device service, its transactions, the agent, the scheduler beside it |
| `DeviceRequestsProofs` | what a request that nothing overlaps leaves behind |
| `PowerProviders` | providers, attachment, and the rules that need them |
| `ProvidersProofs` | references, rules and attachments (PowerProviders); capabilities of a polled provider, the energy of its measurements, the report of a device's day (History) |
| `Microcontrollers` | a microcontroller's row, its config document and its agent's files |
| `MicrocontrollersProofs` | the copies, the sync and the acknowledgements |
| `NatsConnection` | the NATS client and publisher, await by await |
| `NatsConnectionProofs` | connection, close and answers |
| `VendorSessions` | the adapters of a vendor's API, shared by the threads of a process |
| `ProviderWizard` | wizard sessions, steps and the provider made of them; EXTENDS VendorSessions |
| `ProviderWizardProofs` | adapters, sessions and what is made of them |
| `HistoryClock` | the clock, the bound on what happens, and the order of rows by time |
| `EnergyCalculation` | integrals of power samples, as operators |
| `ProviderTelemetry` | polls, measurements, capabilities; EXTENDS HistoryClock and EnergyCalculation |
| `DeviceHistory` | device events and the day report; EXTENDS HistoryClock |
| `History` | ProviderTelemetry and DeviceHistory on one clock |
| `MC...` | constants, small sets and symmetry for TLC, one for each run or group of runs |

### SchedulerCommands

The columns of `scheduler_commands` are functions of the row id. `status` has
the members of SchedulerCommandStatus, "NONE" for an id not yet used and "GONE"
for a row a cascade has removed (it keeps its key, so that properties can speak
of the whole history). Time is relative: `retryIn` is the number of ticks until
next_retry_at, `ackIn` the number until ack_deadline_at, with -1 for a deadline
that has passed. No clock grows, so the state space is finite without a bound on
time.

| Action | Code |
|---|---|
| EnqueueCommand | enqueue_command: INSERT ... ON CONFLICT DO NOTHING; a conflicting insert changes nothing, one whose device or slot is gone fails on its foreign key |
| ClaimLock, ClaimChoose, ClaimCommit | the three statements of claim_pending_for_dispatch: SELECT ... FOR UPDATE SKIP LOCKED, the count of SENT rows and the choice, the update and commit. They are separate because other transactions run between them |
| PublishOk, PublishRaises | publish_command; when it raises the message may be stored or not |
| MarkPublishFailure | mark_publish_failure, including its early returns |
| Crash | a dispatcher dies anywhere between claim and mark |
| AgentHandles, LoseAck | the agent (external): it may fail, answer twice, never; its answer may be lost |
| MarkAck | mark_ack; the acknowledgement may be delivered again |
| ClaimTimeouts | claim_timeouts with its limit |
| DeleteDevice, ReplaceSlots | the cascades of delete_device, update_scheduler and delete_scheduler |
| NextMinute, Tick | the clock |

What is abstracted: ids, payloads, reasons and measured values; the rows of
users and schedulers (their cascades have the effect of ReplaceSlots with no new
slot); a device never moves to another microcontroller, as no operation lets it.
All overdue deadlines are one value, so the sweeper's order among them is left
open.

A row lock is modelled where it can be waited for: mark_ack,
mark_publish_failure and cascades wait for a claim that holds the row, another
claim skips it. mark_ack, mark_publish_failure and claim_timeouts are single
statements with their commit, so they are single actions.

Properties, beyond the type invariant:

- `TimersMatchStatus`: an open row has the timer that moves it on. The sweeper
  finds SENT rows by their deadline only, so a SENT row without one would hold
  its inflight place for ever.
- `OneCommandPerKey`: idempotency over the whole history, deleted rows included.
- `ExclusiveDispatch`: from lock to end of publish a command is in one
  dispatcher's hands.
- `SendsBounded`: publish_command runs at most max_retry + 1 times for a command.
- `NoFalseSuccess`: ACK_OK means some agent reported the target state.
- `InflightBounded`: the inflight limit per microcontroller.
- `SettledIsFinal`: settled rows change no more.
- `EveryCommandSettles`: every open command is settled or deleted in the end.
- `LifecycleSpec`: the refinement of CommandLifecycle.

### RuleEvaluation and SchedulerDecision

`SchedulerDecisionService` keeps no state; it reads rows others write. Its
functions are operators: `EvaluateCondition` (with `Gap`, the first reason why a
condition has no data), `Combine` for a group, `Decision` for the whole rule.
Groups contain groups, and _evaluate_rule_item calls itself for them: `Evaluation`
is a recursive function on `Items`, the conditions and groups of the rules in
use, of which `EvaluateItem` is the value for one item. The state of
SchedulerDecision is what decide reads: the slot's columns, the provider, its
measurements with their battery samples. `Decisions` is the set of decisions
possible in a state, several when the newest rows tie in measured_at.

| Definition | Code |
|---|---|
| ReplaceSlots, StoredSlot | update_scheduler, after SchedulerSlotIn.normalize_and_validate has brought rule and threshold columns in line, and the column has rounded the number (`Column`; `Storable`: one too large for Numeric(12, 4) fails the update). Slots from before the rule column was added (`OldSlots`) have columns only |
| SetPowerProvider, SetEnabled, UpdateUnit | set_power_provider, set_enabled, update: the fields that decide reads |
| SaveMeasurement | save_measurement; rows arrive late and from the future |
| Newest | ORDER BY measured_at DESC, first row |
| Tick | now_utc moves on |

The assumptions on the constants are what the schemas guarantee of stored data:
items are conditions or groups of items as validate_for_source and validate_items
leave them, no group contains itself (`Depth`), intervals and ages are integers.

Ages are relative to now_utc and stop at `MaxAge`, where every row is stale. The
row lists of a provider that is attached again are not remembered:
SaveMeasurement brings rows of any age. Left out: the capability check of
set_power_provider (it forbids steps), floating point, a stored rule that no
longer validates (no operation here stores one), and the time between the
queries of one decision, which belongs to the loop outside this repository.

Properties. The reference is not the code's three-valued evaluation but the
truth of the rule in a world with some power and some charge:

- `OnNeedsEvidence`: ALLOW_ON only if the rule holds in every world that agrees
  with the newest fresh rows.
- `CompleteDataDecides`: with data for all sources, ALLOW_ON exactly if the rule
  holds.
- `SkipIsExplained`: what the audit log is told is true. THRESHOLD_NOT_MET names
  a fresh reading that fails; SKIP_NO_POWER_DATA means that the missing data
  would decide.
- `ColumnsFollowRule`: the columns of a slot are set exactly when its rule is a
  plain threshold, and state it in its unit within half of the last digit they
  keep. They need not be equal: the JSON rule keeps the number as it was sent, the
  column is Numeric(12, 4), and a small threshold becomes 0 there (decide reads
  the rule whenever there is one). The schema still takes slots without a rule:
  columns that a client sends back so are stored as they were, so the threshold
  moves once at most; a column that became 0 is refused (`gt=0`). Numbers are multiples of a quantum;
  the run has `ColumnUnit` = 4 of them per last digit, so 1499 is stored as 1500
  and 1 as 0.
- `AgeingNeverSwitchesOn`, `LateRowsChangeNothing`: neither time alone nor a late
  row makes a device switch.

A measurement without unit under a provider without unit is excluded from the
first three: each condition then reads the number in its own unit, and no
reading is right. An ANY group with unmet and unknown items reports
THRESHOLD_NOT_MET, though the missing data might have made it true; the
properties do not forbid it, as a reading that fails is shown.

### SlotWindows

A scheduler, its devices, and the minutes of a short day. The loop that runs
every minute is external and is modelled from the queries made for it: it asks
for due and end entries page by page (`ReadPage`, with the offset moving while
rows change under it) and enqueues a command for each.

| Definition | Code |
|---|---|
| Entries, IsDue, IsEnd | fetch_due_entries, fetch_end_entries: due from the first minute up to, but not at, the end; end by equality with the minute |
| Page, ByDevice, Listed | ORDER BY device and slot, with limit and offset: entries are a set, `Rank` is the place of one in that order, a page is the entries at certain places, and `Listed` the sequence of a set |
| Enqueue | enqueue_command, idempotent by device, slot, minute and action |
| Claims, Publish | claim_pending_for_dispatch with one place in flight |
| PublishFails, RetryDue | mark_publish_failure: the only way to a retry; the message may be in the stream all the same and then comes a second time ("ECHO") |
| Take, Lose, Settle | the agent takes or misses the message of the row in flight ("TAKEN"), and the row is settled by mark_ack or claim_timeouts, both final at once |
| Timeout | claim_timeouts while the message is still in the stream: the row is settled, its message is carried out later ("GHOST") |
| TakeStray, LoseStray, Answered | messages of rows that are settled, deleted or put back come first, in the order in which they were sent; the answer to one settles the row if it was put back |
| UpdateScheduler, DeleteScheduler, Cascade | update_scheduler (all slots replaced, with new ids), delete_scheduler. Rows go with their slots; a message that was sent stays and is carried out ("GHOST") |
| SetMode, SetEnabled | the mode of a device, the microcontroller's enabled flag |

`disturbed` marks the devices of which a message was lost or refused, a publish
failed, a user changed something, or whose minute the loop missed; `calm` those
undisturbed since the current run began. A timeout alone disturbs nothing: its
message keeps its place before those of later commands. But it stays `Open` in the
stream, where no row tells of it, and until it is taken the device may do what an
earlier minute wanted; the properties wait for that.

- `FollowsWindow`: an undisturbed device is on just inside the slots. In a
  minute in which one slot ends and another is due, both commands are enqueued
  and either may be carried out last; that minute is excepted.
- `HealsWithinMinute`: whatever went wrong before, a run that nothing disturbs
  switches on what should be on. The code sends ON again in each minute of a
  slot; OFF is sent in one minute only, so nothing like it holds after the end.

### DeviceRequests

A request of the HTTP API runs in an event loop that database calls block:
`CanRun` lets no other request of its process step while it computes. It loads
rows and the config column into a session, changes them, tells the agent, awaits
the acknowledgement inside the open transaction and commits.

| Definition | Code |
|---|---|
| Begin, Refuse, Start... | the checks of set_manual_state, create, update, delete_device: existence, max_devices, the device's row, a scheduler for SCHEDULE mode (`Unscheduled`); disable_scheduler_devices as the list of its calls (`DisableCalls`) |
| Load, SeenRow, SeenConfig | the identity map of a session: what was loaded once is not read again |
| Flush, FlushStale | update_for_user flushes before the wait and so locks the row |
| Publish, TakeAck, TakeRejection, Timeout | publish_and_wait_for_ack |
| LockConfig, HasRows | the statements of a commit: UPDATE microcontrollers, if the config has changed, comes before UPDATE devices (parents are flushed first; SessionLocal has autoflush off), so a commit that waits for a device's row holds the microcontroller's |
| Commit, Written | the commit writes the columns that differ from those loaded, but the config document as a whole |
| CommitFails, Deadlocked, Fail, Continue | rollback; disable_scheduler_devices goes on with the next device when switching one off has failed |
| AgentHandles, DropMessage | the agent (external): carries out, rejects or reports another state; answers reach every listener whose predicate accepts them, which is by device id and kind of event |
| SchedulerSwitches, UpdateDeviceState | commands of the queue and update_device_state, which writes a column and not the config |

Entries of the config list that are equal are one entry. Dependency rules and
temperature fields are left out. `alone` holds the requests that nothing has
overlapped since they began.

- `AloneIsExact`: a call that nothing overlapped leaves one config entry for its
  device, equal to its row, takes no other device's entry but one that claims its
  pin, keeps max_devices, and a switched device's row says what the output is,
  whatever failing commits, lost answers and earlier overlaps have
  left behind. For overlapping calls it does not hold: two requests for one
  device take each other's answers, and a config written as a whole restores
  entries another request has removed.
- `AloneDisables`: disable_scheduler_devices releases every device though agents
  do not answer.
- `RequestsEnd`: each request is answered. The exception, `LoopBlocked`, is real: a
  circle of requests, each of which waits for the next one's row or for the event
  loop it blocks, and one of which awaits its acknowledgement: its timeout would
  release the row it has locked, but its event loop is blocked, and the database
  sees no deadlock. Two requests of one process for one device are enough. So are
  three: update_device awaits its acknowledgement with the device's row, the
  commit of a set_manual_state for that device in another process waits for it
  and has the microcontroller's row, and the commit of a third request, in the
  first process, waits for that. No process has blocked itself there. An update
  and a set_manual_state that commit at once lock their two rows in opposite
  orders; this deadlock PostgreSQL breaks (`Deadlocked`).

### PowerProviders

| Definition | Code |
|---|---|
| CreateProvider, UpdateProvider, SetEnabled, DeleteProvider | provider_service; the foreign key of the microcontroller is ON DELETE SET NULL, and the config copy is left alone |
| MayEnable, CapabilityOfRulesOnly, CapabilityChangeIsSafe | the checks of enabling and of taking a battery away |
| ReplaceSlots | rules of slots with or without a battery condition |
| AttachStart, AttachCommit, AttachMismatch | set_power_provider before and after its await, with the agent's report of the previous provider |
| DeviceStart, DeviceCommit | create and update of a device as far as mode, rule and scheduler go |
| CallFails | timeout, rejection, failing commit |

- `RulesKeepProvider`: the checks are spread over three services; the property
  names everything that can still take a battery or a provider from the rules
  that need one. Everything else keeps them.
- `AttachAgrees`: row, config copy and agent agree after an attachment that ran
  alone.
- `CanBeEnabled` is violated, see the findings.

### Microcontrollers

One row with its user, its limit max_devices, its capability rows and its config
document; the agent's files; the command stream. Limit and sensors are kept in
columns, in the config document and in the agent's files.

| Definition | Code |
|---|---|
| Register | register_microcontroller for an existing uuid |
| Update, SetFields, SyncConfig | update_for_user and update by an administrator, which may change different fields, and the copying of columns into the config |
| UpdateConfig | the config document of a client, without uuid and device_max |
| Delete | delete; capability rows go with the row |
| Begin, Flushed, Duplicated | a session has the row loaded; the columns that differ are written, the document as a whole; two sessions that insert the same sensor meet the unique constraint |
| Publish, FilesRead, FilesFromConfig, Acknowledged, AgentRefuses, Timeout | agent commands, and the sync of an update: read the agent's files, set limit and sensors, write them back |
| AgentHandles | the agent (external): carries out or rejects, may lose its answer, answers incompletely in an older version |

A command stays in the stream after its request has timed out and may be carried
out later. Names, descriptions and listing are left out, and so is the deadlock
the database may find between two updates of the sensors (one rolls back as with
the unique constraint). The services that edit entries of the config document act
as UpdateConfig does.

- `CopiesAgree`: while no two sessions overlapped, config and columns agree, and
  every update that ran alone repairs what overlaps have left.
- `SyncIsExact`: an acknowledged sync that ran alone leaves the agent with the
  row's values and all else as read.
- `OkWasCarriedOut`: acknowledgements share one subject and are told apart by
  the command id alone; late ones of timed-out requests are among them.

### NatsConnection

`nats/client.py` and `nats/publisher.py` at the granularity of awaits: between
two awaits a coroutine is not interrupted.

| Definition | Code |
|---|---|
| StartPublish, Recover, CheckDraining, Acquire, PublisherConnects, Published, PublishFails, WakeUp | publish: three attempts under a lock, reconnecting in between |
| StartAsk, Subscribe, AskPublished, Deliver, Answer, EndWait, Unsubscribe | publish_and_wait_for_ack. When its publish raises, the subscription is left behind (`leaked`) |
| StartClose, Drained, EndClose | close of publisher and of client |
| BeginConnect, Connected, Lose, Reconnect, GiveUp | connections: nats-py reconnects by itself or gives up; its callback sets the JetStream context of the client's connection |

- `AnswerIsHeard`: the subscription comes before the publish, so an answer that
  overtakes the confirmation is heard.
- `QuietClose`: a publisher closed at rest stays closed. At rest means that no
  call is at work and that a client which was shut down before has no connection
  left: close of such a client closes nothing, and a connect that was in progress
  when it was shut down may have left it one.
- `NoStrayConnection`: an open connection nobody refers to comes about by an
  overlap of connects only (`strayed` records the overlaps).
- `CallsEnd`: each call returns or raises.

### VendorSessions and ProviderWizard

The factory caches one adapter for each vendor and user name; threads share it.
Its `create` looks into the cache, makes an adapter and puts it there, without a
lock: these are two steps (`FindCached` or `Miss`, and `MakeAdapter`), so of two
threads that miss the later one's adapter takes the place of the first, which
goes on with its own; `ClearCache` empties the cache under calls in progress. An
adapter is therefore an object of its own (`adapter[o]`), to which the cache and
the calls refer. VendorSessions has the login, the relogin after a refused call,
GoodWe's change of host for a login, and the retries; a transport failure stands
for all of a call's attempts. ProviderWizard has the steps of both vendors'
wizards (`Auth`, `HuaweiStation`, `GoodWeStation`, `Make`, `Answered`,
`NotAnswered`, `ProcessLocal`, `Merge`), both session stores (`WriteBack`,
`Delete`, `Expire`), consume_session and create_for_user.

What the code does that the model follows:

- Both adapters require arguments that the shipped vendor definitions do not
  supply, so the factory raises unless a host registers a definition that does
  (`supplied`).
- GoodWe's station step calls a method no adapter has; an adapter it makes is
  cached all the same.
- A session from Redis has its vendor as a string, whose `.value` raises: after
  the first step nothing works with Redis. Sessions in memory never expire.
- A session is stored before the last validation; going back a step after the
  end changes the finished config; a session consumed for a provider that then
  is refused is lost.

Properties:

- `AuthVerifies`: the credentials a session or a provider ends with are those the
  vendor accepts, whichever thread makes, replaces or clears the cached adapter and
  whichever adapter answered. There is one way past the check, which the code
  leaves open: the call found an adapter cached under the user name with the right
  password and does not compare its own. `misled` records the credentials for which
  that happened, when it happens; without this exception TLC finds AuthVerifies
  violated.
- `ConsumedOnce`: a consumed session stays away, unless another call held it.
- `SpeaksToApi`: a data request goes to the API host, unless two calls met: the
  base URL belongs to the adapter, and one thread's login moves it under the
  other's call.

### ProviderTelemetry, EnergyCalculation, DeviceHistory, History

`measurement_repository.py` and `adapters/goodwe.py` are committed with
unresolved merge conflicts. The first is modelled on its upstream side; `guarded`
says which side of the second is built.

| Definition | Code |
|---|---|
| StartPoll, Adapter, CacheKey | create_adapter_for_provider with its cache key |
| Fetch, HuaweiPower, GoodWePower, GoodWeMetrics | the two adapters' readings |
| StartSave, Save, Promoted, Conflicts | save_measurement: definitions made at need, samples, promotion of capabilities from what the session has loaded; two first polls that insert one definition conflict |
| UpdatePolled, DeletePolled | update_provider, set_enabled and delete_provider of the provider (`polled`) beside the pollers |
| ListPowerSamples, LastPowerSampleBefore, LastMeasurement | the sample queries |
| IntegrateIntervals, IntegrateHourly, HourShares, AddHours | energy_calculation_service over integers: its loops as functions of how many samples, or how much of an interval, they have seen |
| Switch, Store, LoseEvent, Audit | device events, stored late or never; scheduler audit |
| Report, SecondsOn, EnergyUnit | list_device_events with its loop |
| ListForDevice, ByTime | list_for_device: filters, ORDER BY and LIMIT; the sample queries are ordered the same way |

Pollers and the hosts that combine queries and integrals are external. Times of
measurements are distinct. Metadata, floating-point conversion (2.01 kW is not
exactly 2010 W), the microsecond at which a day ends and the rounding to minutes
are left out.

- `EnergyIsExact`: the integral by hour and in all is that of the power known at
  each moment, whatever the order of storing, and windows compose.
- `OnTimeIsExact`: a report that lists every switch of its day counts the time on
  exactly; no report counts more than the day has. The code does not look at
  the state a day begins with, so a device on at midnight is excepted.
- `ClearedStaysCleared`: a capability a user cleared comes back only through a
  poll that was under way. This is about the guarded side; the other promotes
  with every reading.

## Runs

| Run | Shows |
|---|---|
| `dispatch_safety` | the safety properties of the queue and the refinement, with two dispatchers, one device, two slots (the second comes with an edit of the scheduler), two minutes, two rows, one retry, one crash, one acknowledgement in transit |
| `dispatch_liveness` | the inflight limit and EveryCommandSettles, with one dispatcher and two devices on one controller with one inflight place, so that one command waits for the other |
| `dispatch_race` | **violated**: with two dispatchers the inflight limit is exceeded |
| `decision_data` | the properties of SchedulerDecision, over rules of up to three conditions on power and charge in two units, flat and nested |
| `slot_windows` | FollowsWindow and HealsWithinMinute, with two devices, five minutes and two changes (what users do, what is lost, what times out late) |
| `device_requests` | AloneIsExact, AloneDisables and, under fairness, RequestsEnd, with three requests of two processes and a command of the scheduler |
| `power_providers` | reference integrity, RulesKeepProvider and AttachAgrees, with three providers and two requests that wait for the agent |
| `provider_lockout` | **violated**: a new provider can never be enabled |
| `microcontrollers` | CopiesAgree, SyncIsExact, OkWasCarriedOut, with three overlapping requests |
| `nats_connection` | AnswerIsHeard, QuietClose, NoStrayConnection and, under fairness, CallsEnd, with two publishes, one request and one close |
| `provider_wizard` | AuthVerifies, ConsumedOnce, SpeaksToApi, for both vendors and both stores, with two threads that make, share and replace the adapters of an account |
| `history` | EnergyIsExact, OnTimeIsExact, ClearedStaysCleared, with two pollers, users and a device |

### Bounds

The bounds are constants and stand in the guards of the actions; the proofs hold
for every value of them.

- *Queue.* `MaxCmds` = 2 rows are enough for two commands to compete for a place
  and for a key to be used again after a cascade; `MaxMinute` gives commands of
  different minutes; one retry makes both branches of mark_publish_failure
  reachable; an acknowledgement timeout of one tick lets deadlines pass before,
  during and after a publish; the limit of a batch is below the number of rows in
  `dispatch_safety`, so that batches are cut off. Dispatchers are symmetric
  there; it checks no liveness.
- *Decision.* The interval is one tick and `MaxAge` two, so a row is from the
  future, fresh, exactly as old as allowed, or stale; a provider may also have no
  interval, or zero, which counts as none. Two rows are enough for a
  late one and for a tie, and for power and charge to come from different rows.
  The values lie on both sides of each threshold and on it; `PowerLevels` and
  `SocLevels` have a value in every region the thresholds separate.
- *Slots.* Pages of one row give two devices two pages, between which the set
  may change; the slots submitted are one, two that touch and two that overlap;
  five minutes hold a slot with a minute before and after it; two disturbances
  include a loss followed by an edit; one retry can overtake the next minute.
- *Device requests.* Two of the three requests share a process (the blocked loop
  needs that), the third interleaves freely. `MaxDevices` = 1 with one device
  that exists and one to be created makes the limit matter; two pin numbers let
  devices claim each other's. One switch by the scheduler falls before, between
  or after the steps of a request.
- *Providers.* Two of three providers come enabled from an earlier version (no
  other provider ever can be), so that one can replace another; the third is
  created by the services. Two edits take a battery away and give it back; three
  calls are an attachment, its replacement and a device that gets a rule.
- *Microcontrollers.* Three requests, each made once with one of a few jobs: two
  overlap and the third repairs, or asks the agent for what a timed-out one has
  left in the stream. Two limits, two sensors and two versions of the rest of the
  document tell old copies from new ones.
- *NATS.* Two connections are one and its replacement; two attempts and one loss
  reach a failed attempt, a recovery and a loss within the recovery.
- *Wizard.* Five calls are a whole Huawei wizard and its consumption, or two
  logins, a replaced adapter and what is made of either; one account with a right
  and a wrong password; two sessions and two stations, for duplicates. Two threads
  and one account never have more than two adapters in memory (a thread that makes
  one uses none, and what is cached was made last), so two `Objects` bound nothing.
- *History.* An hour is two ticks, so intervals lie within an hour and across
  its border; a day is two hours and the horizon is the first tick of the next;
  three happenings are enough for a poll, an edit and a poll, or two switches
  and one more event.

Deadlock is not checked where requests, minutes or happenings are bounded: the
system rightly stops when they are used up. `decision_data` never stops.

### Fairness

- `SchedulerCommands!FairSpec`: weak fairness of each dispatcher's next step, of
  the sweeper and of the clock. Dispatcher and sweeper are loops that poll for
  ever and a publish ends after three attempts with timeouts
  (`nats/publisher.py:32`). Crashes are bounded, and a crashed dispatcher is
  started again. Nothing is assumed of users, agents and network: commands settle
  because of deadlines, not because anyone answers.
- `DeviceRequests!FairSpec`: weak fairness of each request's next step. An event
  loop gives each coroutine its turn, the wait for an acknowledgement has a
  timeout, and the database goes on when a row is free. Nothing is assumed of the
  agent.
- `NatsConnection!FairSpec`: weak fairness of each call's next step. Connecting,
  publishing, draining and waiting have timeouts; the connections themselves may
  be down for ever.
- `PowerProviders!PersistentSpec`: strong fairness of a user's attempts to enable
  and to attach each provider. It is no claim about users: it is the strongest
  help the system could get, and the provider stays disabled all the same.

### Findings

- `dispatch_race`: the comment in claim_pending_for_dispatch
  (`repositories/scheduler_command_repository.py:73-76`) explains that inflight
  filtering uses a separate aggregate query. That query sees what is committed.
  Two dispatchers whose claims overlap lock different PENDING rows of a
  controller, count the same SENT rows, and together send more than
  max_inflight_per_microcontroller. The limit holds with one dispatcher
  (`dispatch_liveness`).
- `provider_lockout`: a provider is created disabled
  (`services/provider_service.py:786`), enabling requires that it is attached
  (`:555`), and attaching requires that it is enabled
  (`services/microcontroller_service.py:655-660`).

## Proofs

Every proof is about all values of the constants; the assumptions named below are
ASSUMEs of the component's module, and TLC evaluates them on the instances it
checks. Each module of proofs has an inductive invariant `IInv` that adds to the
properties what makes them hold, one lemma for each action or group of actions
that shows that it keeps it, and `Invariance: Spec => []IInv`.

### SchedulerCommandsProofs

For any number of rows, dispatchers, devices, slots and for all settings: the type
invariant, TimersMatchStatus, OneCommandPerKey, ExclusiveDispatch, SendsBounded,
NoFalseSuccess and SettledIsFinal. Assumptions: the constants are of the right
kind (`TableAssumption`, `TuningAssumption`, `BoundAssumption`) and NULL is
neither a number nor a key (`NullAssumption`). `IInv` adds:

- `RowsAllocated`: rows at and above nextId are blank. An insert takes a blank
  row.
- `GoneKeysDead`: a removed row refers to a device or slot that is gone, so no
  later insert can have its key. The unique constraint alone would not give
  OneCommandPerKey.
- `ClaimShape`: rows of an open claim are PENDING; rows in hand after the commit
  are not. A row that another dispatcher can lock is PENDING, so it is in
  nobody's hands: ExclusiveDispatch.
- `SendsAccounted`: a send is paid for by an attempt, except the one in progress;
  with `OpenHasRetries` this bounds the sends.
- `NetworkHonest`: a favourable report in transit is about a command that was
  carried out.

`OneDispatcherBounds` proves InflightBounded under the hypothesis that there is
one dispatcher. It is the hypothesis under which the code keeps its limit: the
run `dispatch_race` exceeds it with two. `InflightInv` counts the rows a dispatcher
is about to set SENT with those that are; the choice keeps that count within the
limit because each row chosen comes, with those before it, within the places left.

`ImplementsLifecycle` proves `Spec => LifecycleSpec`: each action maps
to one abstract step or a stutter, using IInv to know the phase a row leaves.

### SchedulerDecisionProofs

All six properties of SchedulerDecision, for rules of every depth and length, any
providers and any number of rows. Assumptions: stored data is what the schemas
leave (`ItemsAssumption`, `SlotsAssumption`, `RowsAssumption`), there are at least
two values the power and the charge may have when nothing is known
(`LevelsAssumption`), None is not one of the reasons (`NoneAssumption`).

- Groups: `AllGroup` and `AnyGroup` say when a group of any length is met, unmet or
  unknown, `LossNeverAdmits` that outcomes turned unknown never make it met.
- Rules: the same for a whole rule, by induction over how deep it nests
  (`RuleInduction`: of the items that fail to have a property one of least depth
  would have only items that have it). `MetNeedsEvidence`: an item that is met holds
  in every world that agrees with the data. `DataDecides`: with data for all its
  conditions, it is met exactly if it holds. `RuleLossNeverAdmits`. The converse of
  the first is false: an ANY group reports unmet although an item without data
  might hold, so only "met" is evidence.
- Recursion: `RuleRecursion` shows that functions defined by recursion over the
  items of a rule exist, so that `Evaluation`, `Holding` and `Conditions` satisfy the
  equations they are defined by (`EvaluationExact`, `HoldingExact`,
  `ConditionsExact`).
- The state: `IInv` says that the slot's columns are those normalize_and_validate
  makes of its rule and that every row is a measurement at some age. With
  `ReadsAreEvaluated` (a condition is evaluated exactly if it reads one possible
  value, and then on that value) the theorems about rules give OnNeedsEvidence,
  CompleteDataDecides and SkipIsExplained. AgeingNeverSwitchesOn follows from
  `NewestAged` (the newest rows stay the newest) and RuleLossNeverAdmits.

### MicrocontrollersProofs

CopiesAgree, SyncIsExact and OkWasCarriedOut, for any number of requests with any
jobs. Assumptions: limits are positive, the jobs ask for users, limits, sensors and
documents that exist (`LimitsArePositive`, `VersionsAssumption`, `JobsAssumption`), NULL
is no row (`NullAssumption`). `IInv` adds:

- `SessionsApart`: without an overlap at most one session has the row loaded to
  change it, and what it has loaded is the row; config and columns agree.
- `AloneHoldsRow`, `AloneHoldsAgent`: a request that had the microcontroller to
  itself holds the row as it is; the stream holds the one command it waits for,
  and once its write is acknowledged the agent has the files it sent.
- `AnswersAreOwn`: a favourable answer in hand is about a command carried out.

### SlotWindowsProofs

FollowsWindow and HealsWithinMinute, for any finite set of devices, any slots that end
after they start, any page size, any number of retries and minutes. Assumptions:
`WindowsAssumption`; the devices are finitely many because the places of the entries in
a query are counted. `IInv` is `Base` and, for each device, `DeviceInv`:

- `Base`: the types, `FreshMinute` (before the run of a minute nothing of it is
  enqueued) and `InCharge` (a device that nothing disturbed is in SCHEDULE mode and
  its microcontroller is enabled, so that its slots are among the entries).
- A device is `Steady` if nothing disturbed it, or nothing has since a run began that
  found no command of it. Only then, its commands are in order (`OldestFirst`: only
  the first of them is in flight, none has gone wrong, and no message in the stream
  comes a second time), which is the theorem `DevicesInOrder`: what the device is in
  the end its last command decides.
- `Covered`: of a steady device, what the pages read so far held is enqueued: the
  entries up to the offset, the whole of a phase that is over, everything once the
  run is complete. This needs that a page moves no entry of a steady device to a
  place that is already read, that is, that the entries do not change under the
  offset unless something disturbs the device.
- `Leads`: where the last row, without a row to be carried out the last message left in
  the stream, and without either the device itself stands (`EndsUp`). In a slot, once anything was enqueued this minute: on. Outside: off,
  in the minute of an end once anything was enqueued. A minute in which one slot ends
  and another is due says nothing. Of a calm minute only the first is claimed: OFF is
  enqueued in one minute only, so a run that sends nothing heals nothing.

FollowsWindow follows when queue and stream have no command of the device: `Covered` says that
something was enqueued wherever the slots ask for it, `Leads` what the device is then.

### ProvidersProofs

Of PowerProviders the type invariant (the attached provider exists, whatever is
deleted meanwhile), RulesKeepProvider and AttachAgrees. Assumptions:
`ProvidersAssumption`, `NullAssumption`. The two services check first and commit
after their wait; `ChecksStillHold` says that for a call that nothing has overlapped
what it checked and prepared is still so, `AgentStillAgrees` that the agent has its
command at most and, once it has accepted, its provider.

Of History the type invariant (with it, that the metric definitions are those of the
samples stored), ClearedStaysCleared, EnergyIsExact and OnTimeIsExact, for any
number of pollers, any answers of the vendor and any edits. Assumptions:
`TelemetryAssumption` (answers are numbers or absent), `AbsenceAssumption`,
`ClockAssumption`. `PastInv` adds, beside `MeasuredOnce` (below):

- `CachedByKey`: an adapter in the cache has the key it was created with, so that
  the adapter a poll gets has the capabilities the provider has at that moment,
  whoever created it.
- `PollInv`: the metrics a poll has measured are of capabilities of its adapter
  (where the adapter is `guarded`); and unless a user's change has overlapped the
  poll, the provider has each capability the adapter has. Other polls that save
  meanwhile only add capabilities. So a save promotes a capability the provider
  lacks only for a poll that was overlapped, even when the capabilities its session
  knows are old.
- `EventsTrue`: every switch and event is of a time before now, no two events, sent
  or stored, have the same time, and an event that knows the pin knows what the device
  was then (`IsTrue`). A later switch does not change what it was (PastIsSettled).

OnTimeIsExact follows from `EventsTrue` in each state, for any length of a day, any
limit and any event type. Assumptions: those above and `HistoryAssumption`.
ListedIsChronological says that a report lists events of its window, later ones
further down: an event's place is the number of those before it, so every place is
taken once (EarlierOnto). LoopCounts says that the loop of list_device_events, with
such a list, returns the number of ticks it counts (`Counted`): those from an event
with the pin set until the next. The loop is a function on the number of events seen,
so it is compared with the size of `Counted` at the least number where the two would
differ, and no induction rule is needed. CountedInWindow bounds it by the window;
CountedIsOn compares both sets tick by tick when the report tells enough: the last
event listed before a tick has the pin of that tick, because a switch between them
would be listed as well.

EnergyIsExact follows from `MeasuredOnce`, also in each state: a measurement, stored
or in the hands of a poll, was made before now, and no two at one time, since a
reading takes time. Assumption of its own: an hour has ticks (`EnergyAssumption`).
The argument:

- Rows in the order of a column are the set of rows, each once, earlier ones first
  (ByTimeIs), so samples enumerate the rows of their window whatever the order of
  storing (SamplesPast), and PowerAt(t) is the value of the sample that t falls to.
- Loops and sums are functions on the number of steps made. Two of them are compared
  at the least step where they would differ (LeastNumber). A share of an hour is exact
  because the energy of an interval is a multiple of its length (no rounding), so each
  loop over the hours of an interval adds the value once for every tick of it
  (SharesAre), and the loop over samples adds up to the sum of PowerAt, in any part of
  the window (WindowSums, AllAddedUp).
- Of a window cut in two the intervals before the cut are those of the first part, and
  the sample before the cut gives the one across it (SamplesCut, PartsIntegrate).

### NatsConnectionProofs

The type invariant, QuietClose, NoStrayConnection and AnswerIsHeard. Assumptions:
`RetriesAssumption`, `ConnectionsAssumption`, `CallsAssumption` (a call is of one kind).
`IInv` adds `Subscribed` (a call subscribes before it publishes, so the agent only has
messages of calls that listen), `ConnectsOnce` (unless it strayed, one call at most
connects, and for a client with no connection that could come back), `StaysQuiet`
(once quiet, no publisher is at work and none connects) and `DrainsShutDown`.

QuietClose was first stated without the condition on a client that was shut down
before. It holds with one close, which is what the run has, and is false with two;
the attempt to prove it showed that.

### ProviderWizardProofs

The type invariant, AuthVerifies, ConsumedOnce and SpeaksToApi. Assumptions: each
account has a password the vendor accepts (`AcceptsAssumption`), the others are
about ids and NULL (`NoAccount`, `SessionsAssumption`, `NoChoice`,
`MaxCallsAssumption`). `IInv` adds:

- `AcceptedOnly`: what a vendor answered, it answered to a password it accepts. It
  speaks of adapters in memory, not of the cache, whose entries may be replaced and
  cleared at any time. `Serves` ties a login step that waits to the adapter it uses:
  one it makes has the account and password of its form, and if one it found is
  accepted, so is the form, or it is in `misled`; a call keeps its adapter
  (`SameAdapter`), and `misled` only grows. With `CredentialsProven` (whatever holds
  credentials, an adapter has answered for them): AuthVerifies.
- `LoneCalls`: no other call is under way on the adapter of a call that met none;
  with it, the base URL a data request uses is the one its own login set.
- `SessionsGo`: only sessions that are gone make providers, and one that went while
  no other call held it is held by the call that deleted it at most.

### DeviceRequestsProofs

AloneIsExact, for any number of devices, requests and processes and any jobs.
Assumptions: devices are numbered (`DevicesAssumption`; disable_scheduler_devices
goes in the order of ids), jobs are calls of the service, a new row has an id of its
own, NULL is no value (`JobsAssumption`, `NewIds`, `NullAssumption`). `IInv` adds
`Prepared` (what a request has loaded and prepared fits the point it is at),
`LocksHeld` (who has flushed an update waits for its acknowledgement or commits)
and `AloneOK`: what a request that nothing overlaps has seen is still so, messages
under way are its own, and after an acknowledgement the relay is as the agent said.

The invariant says nothing of the microcontroller's lock: a commit writes a config
only while it has that row, but what AloneIsExact promises rests on nobody else
being there. `StillInv` is the step that only takes this lock.

`AloneUnschedules` proves of disable_scheduler_devices, for all jobs, that a call that
ran alone and did not raise leaves no device with a scheduler: each device that
still has one is in what is left to do, and the update of the last frees it.
`AloneDisable` proves the whole of AloneDisables, with MANUAL mode too, under
`NoneScheduled`: no update among the jobs asks for SCHEDULE mode. The jobs of
`device_requests` are such. The hypothesis is needed. update_device refuses to leave
a device in SCHEDULE mode without a scheduler, but judges by the row its session
has loaded, and writes the columns that differ from it. Of two overlapping updates,
one that sets the mode and one that removes the scheduler, both pass; TLC finds
that a later disable_scheduler_devices, which lists devices by scheduler_id, leaves
the device in SCHEDULE mode (a device in MANUAL mode that keeps its scheduler, the
two updates and the disabling of another device, each a request).

### Only model-checked

- Liveness under fairness, beyond the prover: EveryCommandSettles, RequestsEnd,
  CallsEnd; and CanBeEnabled, which is violated.

Every safety property of the passing runs is stated by a theorem.

## Not modelled

`PROJECT.json` lists every component with its status. Left out:

- configuration, logging, e-mail templates, migrations, DTO schemas, parsing of
  the vendors' replies beyond the fields the adapters decide by: I/O or layout;
- users and authentication: cryptography and single statements; the race of two
  registrations of an address is settled by a unique constraint;
- the consumer side of NATS (listener, subscriber, module), which calls handlers
  a host registers;
- dependency rules between devices and temperature policies: the services check
  them when they are stored (a target belongs to the same controller and to one
  source, a sensor exists), nothing in this code acts on them afterwards;
- the conversion of slots between time zones;
- a stored rule that no longer validates, which would be read as no rule: no
  operation here stores one;
- the device_schedules table, which is created, listed and deleted without any
  rule;
- floating-point arithmetic.

One hazard in `PROJECT.json` has no property: the mode of a device is checked when its
command is enqueued, not when it is sent. SlotWindows has the behaviour
(SetMode disturbs a device with an open command); the code promises nothing
about it.

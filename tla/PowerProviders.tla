---------------------------- MODULE PowerProviders ----------------------------
(***************************************************************************)
(* The power provider of a microcontroller: providers are created, changed *)
(* enabled and deleted, attached to the microcontroller and detached, in   *)
(* agreement with the agent, while devices and schedulers get rules that   *)
(* need a provider, some of them one with a battery.                       *)
(***************************************************************************)
EXTENDS Naturals, FiniteSets

CONSTANTS
  Providers,  \* ids of providers, used once each
  Inherited,  \* providers enabled by an earlier version
  Devices,    \* devices of the microcontroller
  Calls,      \* concurrent requests that wait for the agent
  Units,      \* power units
  MaxEdits,   \* bound: edits of providers and slots
  MaxCalls,   \* bound: requests that wait for the agent
  None        \* no row, no provider, no rule, not in the payload

VARIABLES
  provider,   \* rows of providers, or None
  unused,     \* ids not yet taken
  attached,   \* power_provider_id of the microcontroller
  copy,       \* config["provider"] of the microcontroller
  device,     \* rows of devices: mode, rule and whether a scheduler is assigned
  slots,      \* whether the slots of the scheduler have a battery rule
  agent,      \* the provider the agent works with
  net,        \* commands stored for the agent
  call,       \* what each request is doing, or None
  edits,      \* how many edits were made
  calls,      \* how many requests waited
  alone       \* history: requests that nothing has overlapped so far

vars == <<provider, unused, attached, copy, device, slots, agent, net, call, edits, calls, alone>>

Modes == {"MANUAL", "AUTO_POWER", "SCHEDULE"}
Rules == {"POWER", "BATTERY"}

Row == [storage : BOOLEAN, unit : Units, enabled : BOOLEAN]
Payload == [id : Providers, storage : BOOLEAN, unit : Units]
DeviceRow == [mode : Modes, rule : Rules \cup {None}, sched : BOOLEAN]

\* What a request that waits for the agent has in hand.
Answer == [ok : BOOLEAN, changed : BOOLEAN, previous : Providers \cup {None}]
AttachCall == [op : {"attach"}, prev : Providers \cup {None}, next : Providers \cup {None},
               payload : Payload \cup {None}, ack : Answer \cup {None}]
DeviceCall == [op : {"device"}, dev : Devices, row : DeviceRow]

ASSUME ProvidersAssumption == Inherited \subseteq Providers /\ Units # {}
ASSUME NullAssumption ==
  None \notin Providers \cup Row \cup Payload \cup Rules \cup Answer \cup AttachCall \cup DeviceCall

Exists(p) == provider[p] # None

\* _provider_config_payload, for no provider too.
PayloadOf(p) ==
  IF p = None THEN None
  ELSE [id |-> p, storage |-> provider[p].storage, unit |-> provider[p].unit]

\* _device_uses_battery_rule: whatever the mode of the device.
UsesBattery(d) == d.rule = "BATTERY" \/ (d.sched /\ slots)

HasStorage(p) == p # None /\ provider[p].storage

\* Edits take no notice of a request in progress.
Overlap == alone' = {}

Edit ==
  /\ Overlap
  /\ edits < MaxEdits /\ edits' = edits + 1
  /\ UNCHANGED calls

-----------------------------------------------------------------------------
Init ==
  /\ provider = [p \in Providers |->
       IF p \in Inherited
       THEN [storage |-> TRUE, unit |-> CHOOSE u \in Units : TRUE, enabled |-> TRUE]
       ELSE None]
  /\ unused = Providers \ Inherited
  /\ attached \in IF Inherited = {} THEN {None} ELSE Inherited
  /\ copy = PayloadOf(attached)
  /\ device = [d \in Devices |-> [mode |-> "MANUAL", rule |-> None, sched |-> FALSE]]
  /\ slots \in BOOLEAN
  /\ agent = attached
  /\ net = {}
  /\ call = [c \in Calls |-> None]
  /\ edits = 0
  /\ calls = 0
  /\ alone = {}

\* _create_provider: every provider starts disabled.
CreateProvider(p, storage, unit) ==
  /\ p \in unused
  /\ unused' = unused \ {p}
  /\ provider' = [provider EXCEPT ![p] = [storage |-> storage, unit |-> unit, enabled |-> FALSE]]
  /\ Edit
  /\ UNCHANGED <<attached, copy, device, slots, agent, net, call>>

\* _is_provider_attached
MayEnable(p, enabled) == enabled => attached = p

\* Mutant: the devices' own rules are looked at, not the slots of their scheduler.
CapabilityOfRulesOnly(p, storage) ==
  storage \/ attached # p \/ \A d \in Devices : device[d].rule # "BATTERY"

\* _ensure_capability_change_is_safe
CapabilityChangeIsSafe(p, storage) ==
  storage \/ attached # p \/ \A d \in Devices : ~UsesBattery(device[d])

\* ProviderService.update; an enabled of None is not in the payload.  The config
\* copy and the agent hear nothing of it.
UpdateProvider(p, storage, unit, enabled) ==
  LET old == provider[p]
      new == [storage |-> storage, unit |-> unit,
              enabled |-> IF enabled = None THEN old.enabled ELSE enabled] IN
  /\ Exists(p) /\ new # old
  /\ CapabilityChangeIsSafe(p, storage)
  /\ enabled # None => MayEnable(p, enabled)
  /\ provider' = [provider EXCEPT ![p] = new]
  /\ Edit
  /\ UNCHANGED <<unused, attached, copy, device, slots, agent, net, call>>

SetEnabled(p, enabled) ==
  /\ Exists(p) /\ provider[p].enabled # enabled /\ MayEnable(p, enabled)
  /\ provider' = [provider EXCEPT ![p].enabled = enabled]
  /\ Overlap
  /\ UNCHANGED <<unused, attached, copy, device, slots, agent, net, call, edits, calls>>

\* Mutant: the rows that refer to the provider are left alone.
KeepReference(p) == attached

\* ON DELETE SET NULL of power_provider_id.
ClearReference(p) == IF attached = p THEN None ELSE attached

\* delete_by_uuid: the foreign key is set to NULL, nothing else is told.
DeleteProvider(p) ==
  /\ Exists(p)
  /\ provider' = [provider EXCEPT ![p] = None]
  /\ attached' = ClearReference(p)
  /\ Edit
  /\ UNCHANGED <<unused, copy, device, slots, agent, net, call>>

\* update_scheduler asks for no capability of a provider.
ReplaceSlots(battery) ==
  /\ battery # slots
  /\ slots' = battery
  /\ Edit
  /\ UNCHANGED <<provider, unused, attached, copy, device, agent, net, call>>

-----------------------------------------------------------------------------
Idle == \A c \in Calls : call[c] = None

Enter(c, new) ==
  /\ call[c] = None
  /\ call' = [call EXCEPT ![c] = new]
  /\ alone' = IF Idle /\ net = {} THEN {c} ELSE {}
  /\ calls < MaxCalls /\ calls' = calls + 1
  /\ UNCHANGED edits

Leave(c) ==
  /\ call' = [call EXCEPT ![c] = None]
  /\ alone' = alone \ {c}
  /\ UNCHANGED <<edits, calls>>

\* set_power_provider up to its publish.  One that is attached already is not
\* sent again, whatever has changed of it.
AttachStart(c, next) ==
  /\ next # attached
  /\ next # None =>
       /\ Exists(next) /\ provider[next].enabled
       /\ provider[next].storage \/ \A d \in Devices : ~UsesBattery(device[d])
  /\ Enter(c, [op |-> "attach", prev |-> attached, next |-> next,
               payload |-> PayloadOf(next), ack |-> None])
  /\ net' = net \cup {[next |-> next, payload |-> PayloadOf(next)]}
  /\ UNCHANGED <<provider, unused, attached, copy, device, slots, agent>>

\* update_device up to its publish.  The rule stays when the payload has none.
\* A device is acknowledged as in DeviceRequests; here it may be at any time.
EffectiveRule(d, rule) == IF rule # None THEN rule ELSE device[d].rule

DeviceStart(c, d, mode, rule, sched) ==
  /\ mode = "AUTO_POWER" => attached # None /\ EffectiveRule(d, rule) # None
  /\ EffectiveRule(d, rule) = "BATTERY" => HasStorage(attached)
  /\ sched /\ slots => HasStorage(attached)
  /\ mode = "SCHEDULE" => sched
  /\ Enter(c, [op |-> "device", dev |-> d,
               row |-> [mode |-> mode, rule |-> EffectiveRule(d, rule), sched |-> sched]])
  /\ UNCHANGED <<provider, unused, attached, copy, device, slots, agent, net>>

DeviceCommit(c) ==
  /\ call[c] # None /\ call[c].op = "device"
  /\ device' = [device EXCEPT ![call[c].dev] = call[c].row]
  /\ Leave(c)
  /\ UNCHANGED <<provider, unused, attached, copy, slots, agent, net>>

\* The agent (external) takes the provider and says from which one it changed,
\* or rejects it; its answer reaches all who wait for just this content, or is lost.
AgentHandles(m) ==
  /\ net' = net \ {m}
  /\ \E ok \in BOOLEAN, heard \in BOOLEAN :
       /\ agent' = IF ok THEN m.next ELSE agent
       /\ call' = [c \in Calls |->
            IF /\ heard /\ call[c] # None /\ call[c].op = "attach"
               /\ call[c].ack = None /\ call[c].payload = m.payload
            THEN [call[c] EXCEPT !.ack =
                    [ok |-> ok, changed |-> agent # m.next, previous |-> agent]]
            ELSE call[c]]
  /\ UNCHANGED <<provider, unused, attached, copy, device, slots, edits, calls, alone>>

\* The checks of _publish_provider_updated on an answer.
PreviousMatches(c) == call[c].ack.changed => call[c].ack.previous = call[c].prev

Answered(c) == call[c] # None /\ call[c].op = "attach" /\ call[c].ack # None

\* Mutant: the copy is taken of the provider the row had.
CopyOfPrevious(c) == PayloadOf(call[c].prev)

\* config["provider"], prepared before the wait.
CopyOfNext(c) == call[c].payload

\* Commit; a provider deleted during the wait fails the foreign key.
AttachCommit(c) ==
  /\ Answered(c) /\ call[c].ack.ok /\ PreviousMatches(c)
  /\ call[c].next # None => Exists(call[c].next)
  /\ attached' = call[c].next
  /\ copy' = CopyOfNext(c)
  /\ Leave(c)
  /\ UNCHANGED <<provider, unused, device, slots, agent, net>>

AttachMismatch(c) ==
  /\ Answered(c) /\ call[c].ack.ok /\ ~PreviousMatches(c)
  /\ Leave(c)
  /\ UNCHANGED <<provider, unused, attached, copy, device, slots, agent, net>>

\* A timeout, a rejection, a failing commit.
CallFails(c) ==
  /\ call[c] # None
  /\ Leave(c)
  /\ UNCHANGED <<provider, unused, attached, copy, device, slots, agent, net>>

-----------------------------------------------------------------------------
Next ==
  \/ \E p \in Providers, storage \in BOOLEAN, unit \in Units :
       \/ CreateProvider(p, storage, unit)
       \/ \E enabled \in BOOLEAN \cup {None} : UpdateProvider(p, storage, unit, enabled)
  \/ \E p \in Providers, enabled \in BOOLEAN : SetEnabled(p, enabled)
  \/ \E p \in Providers : DeleteProvider(p)
  \/ \E battery \in BOOLEAN : ReplaceSlots(battery)
  \/ \E c \in Calls, next \in Providers \cup {None} : AttachStart(c, next)
  \/ \E c \in Calls, d \in Devices, mode \in Modes, rule \in Rules \cup {None}, sched \in BOOLEAN :
       DeviceStart(c, d, mode, rule, sched)
  \/ \E c \in Calls : DeviceCommit(c) \/ AttachCommit(c) \/ AttachMismatch(c) \/ CallFails(c)
  \/ \E m \in net : AgentHandles(m)

Spec == Init /\ [][Next]_vars

\* A user who keeps trying to enable and to attach every provider there is.
Attempts(p) == SetEnabled(p, TRUE) \/ \E c \in Calls : AttachStart(c, p)

PersistentSpec == Spec /\ \A p \in Providers : SF_vars(Attempts(p))

-----------------------------------------------------------------------------
TypeOK ==
  /\ provider \in [Providers -> Row \cup {None}]
  /\ \A p \in unused : provider[p] = None
  /\ attached # None => attached \in Providers /\ Exists(attached)
  /\ copy \in Payload \cup {None}
  /\ device \in [Devices -> DeviceRow]
  /\ agent \in Providers \cup {None}

\* No rule asks an attached provider for a battery it lacks.
Supported ==
  attached # None /\ ~HasStorage(attached) => \A d \in Devices : ~UsesBattery(device[d])

\* A device in AUTO mode has a provider to ask.
Fed == (\E d \in Devices : device[d].mode = "AUTO_POWER") => attached # None

\* What can take their provider away from rules: an edit of the scheduler's
\* slots, a detachment or deletion, and a call that another one has overlapped.
\* Every other path through the services keeps rules and provider together.
StepKeepsProvider ==
  LET overlapped == \E c \in Calls \ alone : call[c] # None /\ call'[c] = None IN
  /\ Supported /\ ~Supported' => slots' # slots \/ overlapped
  /\ Fed /\ ~Fed' => (attached # None /\ attached' = None) \/ overlapped

RulesKeepProvider == [][StepKeepsProvider]_vars

\* An attachment that nothing overlaps leaves row, config copy and agent with
\* the same provider.
CommitAgrees ==
  \A c \in alone : AttachCommit(c) =>
    /\ agent' = attached'
    /\ copy' = IF attached' = None THEN None
               ELSE [id |-> attached', storage |-> provider'[attached'].storage,
                     unit |-> provider'[attached'].unit]

AttachAgrees == [][CommitAgrees]_vars

\* A provider that exists can be enabled by a user who keeps trying.
CanBeEnabled ==
  \A p \in Providers : Exists(p) ~> (~Exists(p) \/ provider[p].enabled)
=============================================================================

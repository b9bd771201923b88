---------------------------- MODULE DeviceHistory ----------------------------
(***************************************************************************)
(* The events of one device and the report of a day that                   *)
(* services/device_event_service.py makes of them.  The agent switches the *)
(* device and sends an event of it with its own time, which the host       *)
(* (external) stores at once, late or never; the scheduler's host adds     *)
(* events of its decisions.  Times are in ticks; that a past day ends a    *)
(* microsecond before midnight is not told apart from midnight.            *)
(***************************************************************************)
EXTENDS Integers, Sequences, SequencesExt, FiniteSetsExt, HistoryClock

CONSTANTS
  DayTicks,    \* ticks of a day
  RatedPower   \* rated_power of the device, or Absent

ASSUME HistoryAssumption ==
  /\ DayTicks \in Nat \ {0} /\ RatedPower \in (Nat \ {0}) \cup {Absent}
  /\ Absent \notin {"Wh", "kWh"}

VARIABLES
  toggles,  \* when the device was switched; it was off before
  unsent,   \* STATE events the host has yet to store
  events    \* device_events in the order of their ids

historyVars == <<toggles, unsent, events>>

EventTypes == {"STATE", "SCHEDULER"}

Events == [created_at : Nat, event_type : EventTypes, pin_state : BOOLEAN \cup {Absent}]

\* Whether the device really was on from tick t to the next.
OnAt(t) == Cardinality({s \in toggles : s <= t}) % 2 = 1

-----------------------------------------------------------------------------
(* Steps. *)

HistoryInit ==
  /\ toggles = {}
  /\ unsent = {}
  /\ events = << >>

\* The agent switches the device and reports it.
Switch ==
  /\ Happens /\ Passes
  /\ toggles' = toggles \cup {now}
  /\ unsent' = unsent \cup
       {[created_at |-> now, event_type |-> "STATE", pin_state |-> ~OnAt(now)]}
  /\ UNCHANGED events

\* DeviceEventRepository.create, for an event of the agent.
Store(e) ==
  /\ events' = Append(events, e)
  /\ unsent' = unsent \ {e}
  /\ UNCHANGED <<now, happened, toggles>>

\* The event does not reach the host.
LoseEvent(e) ==
  /\ unsent' = unsent \ {e}
  /\ UNCHANGED <<now, happened, toggles, events>>

\* SchedulerAuditService.create_event, of a command that was carried out or of
\* one that was skipped, whose pin is not known.
Audit(pin) ==
  /\ Happens /\ Passes
  /\ events' = Append(events,
       [created_at |-> now, event_type |-> "SCHEDULER", pin_state |-> pin])
  /\ UNCHANGED <<toggles, unsent>>

HistoryNext ==
  \/ Switch
  \/ \E e \in unsent : Store(e) \/ LoseEvent(e)
  \/ \E pin \in {OnAt(now), Absent} : Audit(pin)

-----------------------------------------------------------------------------
(* The report of a day. *)

Today == now \div DayTicks

\* _resolve_day_window, and list_for_device's filter for it.
WindowStart(day) == day * DayTicks

WindowEnd(day) == IF day = Today THEN now ELSE (day + 1) * DayTicks

InWindow(day, t) == t >= WindowStart(day) /\ t <= WindowEnd(day) /\ t \div DayTicks = day

\* Mutant: in the order they were stored.
ListAsStoredForDevice(day, type, limit) ==
  LET found == SelectSeq(events, LAMBDA e : InWindow(day, e.created_at)
                                            /\ type \in {Absent, e.event_type})
  IN  SubSeq(found, 1, Min({limit, Len(found)}))

\* list_for_device: the first of the window, of one type or, with Absent, of all.
ListForDevice(day, type, limit) ==
  LET found == {e \in ToSet(events) : InWindow(day, e.created_at)
                                       /\ type \in {Absent, e.event_type}}
  IN  [n \in 1 .. Min({limit, Cardinality(found)}) |-> ByTime(found, "created_at")[n]]

\* Time counts as on from an event with the pin set until the next one, of
\* whatever kind, and from the last one until the end.
SecondsOn(listed, end) ==
  LET next(i)    == IF i < Len(listed) THEN listed[i + 1].created_at ELSE end
      seconds(i) == IF listed[i].pin_state = TRUE
                    THEN Max({0, next(i) - listed[i].created_at}) ELSE 0
      total[i \in 0 .. Len(listed)] == IF i = 0 THEN 0 ELSE total[i - 1] + seconds(i)
  IN  total[Len(listed)]

\* The energy unit of the provider's power unit; Absent for any other.
EnergyUnit(unit) == CASE unit = "W" -> "Wh" [] unit = "kW" -> "kWh" [] OTHER -> Absent

\* list_device_events: the events, the time on and, of that, the energy.
Report(day, type, limit) ==
  LET listed == ListForDevice(day, type, limit)
  IN  [events |-> listed, on |-> SecondsOn(listed, WindowEnd(day))]

RatedEnergy(on, unit) ==
  IF RatedPower # Absent /\ EnergyUnit(unit) # Absent /\ on > 0 THEN RatedPower * on ELSE Absent

-----------------------------------------------------------------------------
(* Properties. *)

HistoryTypeOK ==
  /\ toggles \subseteq Nat
  /\ unsent \subseteq Events
  /\ events \in Seq(Events)

\* A report tells enough when it lists every switch of its window and lists
\* nothing of unknown pin, and the device was off when the day began.
TellsEnough(day, listed) ==
  /\ \A s \in toggles : InWindow(day, s) =>
       \E e \in ToSet(listed) : e.created_at = s /\ e.event_type = "STATE"
  /\ \A e \in ToSet(listed) : e.pin_state # Absent
  /\ OnAt(WindowStart(day)) => WindowStart(day) \in toggles

\* A report that tells enough counts exactly the time the device was on, however
\* late its events were stored, and the energy of that time; no report, whatever it
\* lacks, counts more than the day had so far (list_device_events).
OnTimeIsExact ==
  \A day \in 0 .. Today, type \in EventTypes \cup {Absent}, limit \in 0 .. MaxHappenings :
    LET report == Report(day, type, limit)
        window == WindowStart(day) .. WindowEnd(day) - 1
        really == Cardinality({t \in window : OnAt(t)})
    IN  /\ report.on \in 0 .. Cardinality(window)
        /\ TellsEnough(day, report.events) =>
             /\ report.on = really
             /\ \A unit \in {"W", "kW"} :
                  RatedPower # Absent /\ really > 0 =>
                    RatedEnergy(report.on, unit) = RatedPower * really
=============================================================================

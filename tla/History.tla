------------------------------- MODULE History -------------------------------
(***************************************************************************)
(* What is kept of the past and summed up later: the measurements of a     *)
(* provider and the events of a device, on one clock.                      *)
(***************************************************************************)
EXTENDS ProviderTelemetry, DeviceHistory

ASSUME DayAssumption == DayTicks % HourTicks = 0

pastVars == <<now, happened, telemetryVars, historyVars>>

PastInit == now = 0 /\ happened = 0 /\ TelemetryInit /\ HistoryInit

Tick == Passes /\ UNCHANGED <<happened, telemetryVars, historyVars>>

PastNext ==
  \/ TelemetryNext /\ UNCHANGED historyVars
  \/ HistoryNext /\ UNCHANGED telemetryVars
  \/ Tick

PastSpec == PastInit /\ [][PastNext]_pastVars

PastTypeOK == {now, happened} \subseteq Nat /\ TelemetryTypeOK /\ HistoryTypeOK
=============================================================================

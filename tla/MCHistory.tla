------------------------------ MODULE MCHistory ------------------------------
(***************************************************************************)
(* An inverter with both capabilities or none, disabled, without a power   *)
(* source, with credentials that do not decrypt, or read at its meter.     *)
(***************************************************************************)
EXTENDS History

Inverter(meter, storage) ==
  [enabled |-> TRUE, power_source |-> "inverter", credentials |-> "readable",
   has_power_meter |-> meter, has_energy_storage |-> storage]

MCShapes ==
  {Inverter(TRUE, TRUE), Inverter(FALSE, FALSE),
   [Inverter(TRUE, TRUE) EXCEPT !.enabled = FALSE],
   [Inverter(TRUE, TRUE) EXCEPT !.power_source = Absent],
   [Inverter(TRUE, TRUE) EXCEPT !.credentials = "unreadable"],
   [Inverter(TRUE, FALSE) EXCEPT !.power_source = "meter"]}

MCKpiAnswers == [item : {3, Absent}, row : {0, Absent}]

MCFlowAnswers ==
  {Absent} \cup [pv : {3, Absent}, grid : {2, Absent}, load : {-1, 0, 1}, soc : {50, Absent}]

Symmetry == Permutations(Pollers)
=============================================================================

--------------------------- MODULE MCDeviceRequests ---------------------------
(* A device of a scheduler and one to be created, three requests of which the *)
(* first two share a process.                                                 *)
EXTENDS DeviceRequests

MCProcessOf == [r \in Requests |-> IF r = 3 THEN "p2" ELSE "p1"]

Set(d, s) == [op |-> "set", dev |-> d, state |-> s]
Update(d, change) == [op |-> "update", dev |-> d, change |-> change]

MCJobs ==
  <<{[op |-> "create", dev |-> 2, number |-> 1], [op |-> "disable"]},
    {Update(1, [number |-> 2, state |-> TRUE]), Update(1, [sched |-> FALSE]),
     [op |-> "delete", dev |-> 1]},
    {Set(1, TRUE), [op |-> "delete", dev |-> 1]}>>
=============================================================================

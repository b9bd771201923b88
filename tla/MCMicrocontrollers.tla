-------------------------- MODULE MCMicrocontrollers --------------------------
(***************************************************************************)
(* Three overlapping requests on one microcontroller of two owners, two    *)
(* sensors, limits 1 and 2, two versions of everything else.               *)
(***************************************************************************)
EXTENDS Microcontrollers, TLC

CONSTANTS s1, s2, u1, u2, r1, r2, r3, v1, v2

MCSensors == {s1, s2}
MCUsers == {u1, u2}
MCRequests == {r1, r2, r3}
MCVersions == {v1, v2}

MCJobs ==
  r1 :> {RegisterRequest(u1, 2, <<s1, s2>>),
         RegisterRequest(u1, 1, <<s1, s1>>),
         UpdateRequest("admin", 2, None, None, FALSE),
         UpdateRequest("admin", 1, u2, <<s1>>, TRUE)}
  @@ r2 :> {UpdateRequest(u1, 2, None, <<s2>>, FALSE),
            UpdateRequest(u1, None, None, <<s1, s1>>, FALSE),
            UpdateRequest(u1, None, None, <<s1, s2>>, TRUE),
            ConfigRequest(v2, 2),
            [op |-> "write", by |-> "admin",
             files |-> [max |-> 1, sensors |-> {s2}, rest |-> v2]]}
  @@ r3 :> {UpdateRequest("admin", 2, None, <<s1>>, TRUE),
            [op |-> "delete", by |-> u1],
            [op |-> "read", by |-> "admin"],
            [op |-> "restart", by |-> "admin"]}
=============================================================================

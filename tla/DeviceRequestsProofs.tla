-------------------------- MODULE DeviceRequestsProofs --------------------------
(***************************************************************************)
(* What a request that nothing overlaps leaves behind, for every number of *)
(* devices, requests and processes and every choice of jobs.               *)
(***************************************************************************)
EXTENDS DeviceRequests, FiniteSetTheorems, SequenceTheorems, TLAPS

Messages == [req : Requests, op : {"set"}, dev : Devices, state : BOOLEAN]
              \cup [req : Requests, op : {"create", "delete", "update"}, dev : Devices, state : {None}]
Answers == [req : Requests, ok : BOOLEAN, state : BOOLEAN \cup {None}]
Sessions == [rows : [Devices -> Row \cup {None}], config : (SUBSET Entry) \cup {None}]
Points == {"idle", "start", "flush", "wait", "commit", "done"}
Active(r) == pc[r] \notin {"idle", "done"}

\* The request is at one of these points of a call of this kind.
At(r, op, points) == pc[r] \in points /\ Op(r).op = op

SystemOK ==
  /\ row \in [Devices -> Row \cup {None}] /\ config \subseteq Entry
  /\ lock \in [Devices -> Requests \cup {None}]
  /\ relay \in [Devices -> BOOLEAN]
  /\ net \subseteq Messages
  /\ switched \subseteq [dev : Devices, state : BOOLEAN]
  /\ alone \subseteq Requests

StateOK ==
  /\ job \in [Requests -> {"set", "create", "delete", "update", "disable", None}]
  /\ todo \in [Requests -> Seq(Ops)]
  /\ pc \in [Requests -> Points]
  /\ seen \in [Requests -> Sessions]
  /\ mine \in [Requests -> Row \cup {None}]
  /\ entries \in [Requests -> (SUBSET Entry) \cup {None}]
  /\ inbox \in [Requests -> Answers \cup {None}]
  /\ outcome \in [Requests -> {"ok", "raised", None}]

TypeOK == SystemOK /\ StateOK

\* What a request has loaded and prepared for its current call.
Prepared(r) ==
  LET d == Op(r).dev IN
  /\ At(r, "set", {"wait", "commit"}) =>
       /\ seen[r].rows[d] # None /\ seen[r].config # None
       /\ mine[r] \in Row /\ mine[r].mode = "MANUAL"
       /\ mine[r].sched = seen[r].rows[d].sched
  /\ At(r, "set", {"wait"}) => mine[r].state = Op(r).state
  /\ At(r, "create", {"wait", "commit"}) =>
       /\ seen[r].config # None /\ mine[r] \in Row
       /\ mine[r].mode = "MANUAL"
  /\ At(r, "update", {"flush"}) =>
       /\ seen[r].rows[d] # None /\ seen[r].config # None
       /\ mine[r] = Changed(seen[r].rows[d], Op(r).change)
  /\ At(r, "update", {"wait", "commit"}) =>
       seen[r].rows[d] # None /\ seen[r].config # None /\ mine[r] \in Row
  /\ \/ At(r, "set", {"commit"}) \/ At(r, "create", {"wait", "commit"})
     \/ At(r, "update", {"wait", "commit"})
     => entries[r] = SyncedConfig(seen[r].config, d, mine[r])

DisableChange == [mode |-> "MANUAL", sched |-> FALSE]

RequestOK(r) ==
  /\ Active(r) =>
       /\ todo[r] # <<>> /\ Prepared(r)
       /\ job[r] # "disable" => Len(todo[r]) = 1 /\ todo[r][1] \in Jobs[r]
       /\ job[r] = "disable" => \A i \in 1..Len(todo[r]) :
            \/ todo[r][i].op = "set" /\ ~todo[r][i].state
            \/ todo[r][i].op = "update" /\ todo[r][i].change = DisableChange
       /\ pc[r] = "flush" => Op(r).op = "update"
  /\ pc[r] # "wait" => inbox[r] = None
  /\ pc[r] = "idle" => seen[r] = NothingSeen

\* Who has updated a row waits for its acknowledgement or is about to commit.
LocksHeld ==
  \A d \in Devices : lock[d] # None =>
    At(lock[d], "update", {"wait", "commit"}) /\ Op(lock[d]).dev = d

\* What a request that nothing overlaps has seen is still so.
Fresh(r) ==
  /\ seen[r].config \in {None, config}
  /\ \A d \in Devices : seen[r].rows[d] \in {None, row[d]}

NoSetTo(d) == \A m \in net : ~(m.op = "set" /\ m.dev = d)

AloneOK(r) ==
  /\ \A q \in Requests \ {r} : pc[q] \in {"idle", "done"}
  /\ switched = {}
  /\ \A m \in net :
       /\ m.req = r
       /\ m.op = "set" /\ job[r] = "disable" => m.state = FALSE
       /\ m.op = "set" /\ Active(r) /\ Op(r).op = "set" => m.state = Op(r).state
  /\ Active(r) =>
       LET d == Op(r).dev IN
       /\ Fresh(r)
       /\ At(r, "create", {"wait", "commit"}) => Cardinality(Present) < MaxDevices
       /\ At(r, "update", {"wait", "commit"}) =>
            /\ lock[d] # r => mine[r] = row[d]
            /\ job[r] = "disable" => mine[r].sched = FALSE
       /\ At(r, "set", {"wait"}) /\ inbox[r] # None /\ inbox[r].ok =>
            /\ relay[d] = IF inbox[r].state # None THEN inbox[r].state ELSE Op(r).state
            /\ NoSetTo(d)
       /\ At(r, "set", {"commit"}) => mine[r].state = relay[d] /\ NoSetTo(d)
       /\ job[r] = "disable" => \A x \in Devices : row[x] # None /\ row[x].sched =>
            \E i \in 1..Len(todo[r]) : todo[r][i].op = "update" /\ todo[r][i].dev = x

IInv ==
  /\ TypeOK
  /\ \A r \in Requests : RequestOK(r)
  /\ LocksHeld
  /\ \A r \in alone : AloneOK(r)

\* Requests put no device in SCHEDULE mode.
Takes(change) == "mode" \in DOMAIN change => change["mode"] = "MANUAL"
NoneScheduled == \A r \in Requests : \A j \in Jobs[r] : j.op = "update" => Takes(j.change)

\* A device in SCHEDULE mode has a scheduler: its row, and that which a request
\* has prepared; a session that has seen it in MANUAL mode does not find it in
\* SCHEDULE mode later; a new device has no row before its commit.
Kept(x) == x # None /\ x.mode = "SCHEDULE" => x.sched

ScheduledOnly(r) ==
  LET d == Op(r).dev IN
  /\ \A x \in Devices : seen[r].rows[x] # None /\ seen[r].rows[x].mode = "MANUAL" /\ row[x] # None
       => row[x].mode = "MANUAL"
  /\ Active(r) /\ Op(r).op = "create" => row[d] = None
  /\ At(r, "update", {"flush"}) => Kept(mine[r])
  /\ At(r, "update", {"wait", "commit"}) =>
       /\ Kept(mine[r])
       /\ lock[d] = r => row[d] # None /\ (mine[r].mode = "SCHEDULE" => row[d].mode = "SCHEDULE")
       /\ lock[d] # r /\ mine[r].mode = "MANUAL" /\ row[d] # None => row[d].mode = "MANUAL"

ScheduleInv ==
  /\ \A d \in Devices : Kept(row[d])
  /\ \A r \in Requests : ScheduledOnly(r)

-----------------------------------------------------------------------------
(* Rows, entries and calls. *)

Columns == {"number", "mode", "sched", "state"}

LEMMA RowColumns ==
  /\ \A x \in Row : DOMAIN x = Columns /\ x = [f \in Columns |-> x[f]]
                    /\ x.number = x["number"] /\ x.mode = x["mode"]
                    /\ x.sched = x["sched"] /\ x.state = x["state"]
  /\ \A x \in Row : /\ x["number"] \in Numbers /\ x["mode"] \in {"MANUAL", "SCHEDULE"}
                    /\ x["sched"] \in BOOLEAN /\ x["state"] \in BOOLEAN
BY DEF Row, Columns

LEMMA RowsAre ==
  ASSUME NEW x, x = [f \in Columns |-> x[f]],
         x["number"] \in Numbers, x["mode"] \in {"MANUAL", "SCHEDULE"},
         x["sched"] \in BOOLEAN, x["state"] \in BOOLEAN
  PROVE  x \in Row
<1>1. x = [number |-> x["number"], mode |-> x["mode"], sched |-> x["sched"], state |-> x["state"]]
  BY DEF Columns
<1> QED
  BY <1>1 DEF Row

LEMMA WrittenIs ==
  ASSUME NEW current \in Row, NEW loaded \in Row, NEW new \in Row
  PROVE  /\ Written(current, loaded, new) \in Row
         /\ \A f \in Columns : Written(current, loaded, new)[f] =
              IF new[f] = loaded[f] THEN current[f] ELSE new[f]
         /\ Written(current, loaded, loaded) = current
         /\ Written(current, current, new) = new
<1>1. DOMAIN current = Columns /\ "number" \in Columns /\ "mode" \in Columns
      /\ "sched" \in Columns /\ "state" \in Columns
  BY RowColumns DEF Columns
<1> DEFINE w == [f \in Columns |-> IF new[f] = loaded[f] THEN current[f] ELSE new[f]]
<1>2. Written(current, loaded, new) = w /\ w = [f \in Columns |-> w[f]]
  BY <1>1 DEF Written
<1>3. \A f \in Columns : w[f] = IF new[f] = loaded[f] THEN current[f] ELSE new[f]
  OBVIOUS
<1> HIDE DEF w
<1>4. w \in Row
  <2>1. /\ w["number"] \in Numbers /\ w["mode"] \in {"MANUAL", "SCHEDULE"}
        /\ w["sched"] \in BOOLEAN /\ w["state"] \in BOOLEAN
    BY <1>1, <1>3, RowColumns
  <2> QED
    BY <1>2, <2>1, RowsAre
<1>5. Written(current, loaded, loaded) = current
  BY <1>1, RowColumns DEF Written
<1>6. Written(current, current, new) = new
  BY <1>1, RowColumns DEF Written
<1> QED
  BY <1>2, <1>3, <1>4, <1>5, <1>6

LEMMA ChangedIs ==
  ASSUME NEW old \in Row, NEW change \in Changes
  PROVE  /\ Changed(old, change) \in Row
         /\ \A f \in Columns : Changed(old, change)[f] =
              IF f \in DOMAIN change THEN change[f] ELSE old[f]
<1>1. DOMAIN old = Columns /\ "number" \in Columns /\ "mode" \in Columns
      /\ "sched" \in Columns /\ "state" \in Columns
  BY RowColumns DEF Columns
<1>2. PICK cols \in SUBSET Columns, new \in Row : change = [f \in cols |-> new[f]]
  BY DEF Changes, Columns
<1>3. DOMAIN change = cols /\ \A f \in cols : change[f] = new[f]
  BY <1>2
<1> DEFINE w == [f \in Columns |-> IF f \in DOMAIN change THEN change[f] ELSE old[f]]
<1>4. Changed(old, change) = w /\ w = [f \in Columns |-> w[f]]
  BY <1>1 DEF Changed
<1>5. \A f \in Columns : w[f] = IF f \in DOMAIN change THEN change[f] ELSE old[f]
  OBVIOUS
<1> HIDE DEF w
<1>6. /\ w["number"] \in Numbers /\ w["mode"] \in {"MANUAL", "SCHEDULE"}
      /\ w["sched"] \in BOOLEAN /\ w["state"] \in BOOLEAN
  BY <1>1, <1>3, <1>5, RowColumns
<1> QED
  BY <1>4, <1>5, <1>6, RowsAre

LEMMA SyncedIsConfig ==
  ASSUME NEW cfg \in SUBSET Entry, NEW d \in Devices, NEW x \in Row
  PROVE  SyncedConfig(cfg, d, x) \in SUBSET Entry
<1>1. EntryOf(d, x) \in Entry
  BY DEF EntryOf, Entry, Row
<1> QED
  BY <1>1 DEF SyncedConfig

LEMMA OpIs ==
  ASSUME IInv, NEW r \in Requests, Active(r)
  PROVE  /\ Len(todo[r]) > 0 /\ Op(r) = todo[r][1] /\ Op(r) \in Ops /\ Op(r).dev \in Devices
         /\ Op(r).op \in {"set", "create", "delete", "update"}
         /\ Op(r).op = "set" => Op(r).state \in BOOLEAN
         /\ Op(r).op = "create" => Op(r).number \in Numbers
         /\ Op(r).op = "update" => Op(r).change \in Changes
<1>1. todo[r] \in Seq(Ops) /\ todo[r] # <<>>
  BY DEF IInv, TypeOK, StateOK, RequestOK
<1>2. Len(todo[r]) > 0 /\ Op(r) = todo[r][1] /\ Op(r) \in Ops
  BY <1>1 DEF Op
<1> QED
  BY <1>2 DEF Ops

-----------------------------------------------------------------------------
(* A step of one request. *)

Same(q) ==
  /\ job'[q] = job[q] /\ todo'[q] = todo[q] /\ pc'[q] = pc[q] /\ seen'[q] = seen[q]
  /\ mine'[q] = mine[q] /\ entries'[q] = entries[q] /\ inbox'[q] = inbox[q]

LEMMA SameOK ==
  ASSUME NEW q \in Requests, RequestOK(q), Same(q)
  PROVE  RequestOK(q)'
BY DEF RequestOK, Same, Active, Prepared, At, Op

LEMMA ProceedInv ==
  ASSUME IInv, NEW r \in Requests, Active(r),
         \A q \in Requests \ {r} : Same(q),
         TypeOK', RequestOK(r)',
         \A d \in Devices : \/ lock'[d] = lock[d] /\ lock[d] # r
                            \/ lock'[d] = None
                            \/ lock'[d] = r /\ (At(r, "update", {"wait", "commit"}) /\ Op(r).dev = d)',
         alone' = alone, r \in alone => AloneOK(r)'
  PROVE  IInv'
<1>1. \A q \in Requests : RequestOK(q)'
  BY SameOK DEF IInv
<1>2. LocksHeld'
  <2> SUFFICES ASSUME NEW d \in Devices, lock'[d] # None
               PROVE  (At(lock[d], "update", {"wait", "commit"}) /\ Op(lock[d]).dev = d)'
    BY DEF LocksHeld
  <2>1. CASE lock'[d] = lock[d] /\ lock[d] # r
    <3>1. lock[d] \in Requests \ {r}
      BY <2>1 DEF IInv, TypeOK, SystemOK
    <3>2. At(lock[d], "update", {"wait", "commit"}) /\ Op(lock[d]).dev = d
      BY <2>1 DEF IInv, LocksHeld
    <3>3. Same(lock[d])
      BY <3>1
    <3> QED
      BY <2>1, <3>2, <3>3 DEF Same, At, Op
  <2>2. CASE lock'[d] = r /\ (At(r, "update", {"wait", "commit"}) /\ Op(r).dev = d)'
    BY <2>2 DEF At, Op
  <2> QED
    BY <2>1, <2>2
<1>3. \A a \in alone : a = r
  BY DEF IInv, AloneOK, Active
<1>4. \A a \in alone' : AloneOK(a)'
  BY <1>3
<1> QED
  BY <1>1, <1>2, <1>4 DEF IInv

LEMMA NothingIsTyped == NothingSeen \in Sessions
<1>1. [d \in Devices |-> None] \in [Devices -> Row \cup {None}]
  OBVIOUS
<1> QED
  BY <1>1 DEF NothingSeen, Sessions

\* What a call may do to the row and the config when it ends: nothing, for one
\* that fails.
Ends(r) ==
  /\ row' \in [Devices -> Row \cup {None}] /\ config' \subseteq Entry
  /\ UNCHANGED <<relay, net, switched, switches, alone>>

LEMMA EndInv ==
  ASSUME IInv, NEW r \in Requests, Active(r), NEW how \in {"ok", "raised"}, End(r, how), Ends(r)
  PROVE  IInv'
<1> USE DEF End, Ends, Release
<1>1. \A q \in Requests \ {r} : Same(q)
  BY DEF IInv, TypeOK, StateOK, Same
<1>2. /\ pc'[r] = "done" /\ todo'[r] = <<>> /\ inbox'[r] = None /\ job'[r] = job[r]
      /\ pc' \in [Requests -> Points]
  BY DEF IInv, TypeOK, StateOK, Points
<1>3. NothingSeen \in Sessions
  BY NothingIsTyped
<1>4. <<>> \in Seq(Ops)
  BY EmptySeq, Zenon
<1>5. TypeOK'
  <2>1. SystemOK'
    BY DEF IInv, TypeOK, SystemOK
  <2>2. StateOK'
    BY <1>2, <1>3, <1>4 DEF IInv, TypeOK, StateOK
  <2> QED
    BY <2>1, <2>2 DEF TypeOK
<1>6. RequestOK(r)'
  BY <1>2 DEF RequestOK, Active
<1>7. \A d \in Devices : \/ lock'[d] = lock[d] /\ lock[d] # r
                         \/ lock'[d] = None
  OBVIOUS
<1>8. r \in alone => AloneOK(r)'
  BY <1>1, <1>2 DEF IInv, AloneOK, Active, Same
<1> QED
  BY <1>1, <1>5, <1>6, <1>7, <1>8, ProceedInv

LEMMA TailIs ==
  ASSUME NEW S, NEW s \in Seq(S), s # <<>>, Len(s) # 1
  PROVE  /\ Tail(s) \in Seq(S) /\ Tail(s) # <<>> /\ Len(s) \in Nat
         /\ Len(Tail(s)) \in Nat \ {0} /\ Len(Tail(s)) = Len(s) - 1
         /\ \A i \in 1..Len(Tail(s)) : i + 1 \in 1..Len(s) /\ Tail(s)[i] = s[i + 1]
<1>1. /\ Tail(s) \in Seq(S) /\ Len(Tail(s)) = Len(s) - 1
      /\ \A i \in 1..Len(Tail(s)) : Tail(s)[i] = s[i + 1]
  BY HeadTailProperties
<1>2. Len(s) \in Nat \ {0, 1}
  BY LenProperties, EmptySeq
<1>3. Len(Tail(s)) \in Nat \ {0}
  BY <1>1, <1>2
<1>4. \A i \in 1..Len(Tail(s)) : i + 1 \in 1..Len(s)
  BY <1>1, <1>2
<1>5. Tail(s) # <<>>
  BY <1>1, <1>3, EmptySeq
<1> QED
  BY <1>1, <1>2, <1>3, <1>4, <1>5

\* The next call begins, or the request ends.
LEMMA ContinueInv ==
  ASSUME IInv, NEW r \in Requests, Active(r), NEW session \in Sessions, Continue(r, session),
         Ends(r),
         r \in alone /\ Len(todo[r]) # 1 =>
           /\ session.config \in {None, config'}
           /\ \A d \in Devices : session.rows[d] \in {None, row'[d]}
           /\ \A x \in Devices : row'[x] # None /\ row'[x].sched =>
                row[x] # None /\ row[x].sched /\ ~(Op(r).op = "update" /\ Op(r).dev = x)
  PROVE  IInv'
<1>1. CASE Len(todo[r]) = 1
  BY <1>1, EndInv DEF Continue
<1>2. CASE Len(todo[r]) # 1
  <2>1. /\ pc' = [pc EXCEPT ![r] = "start"]
        /\ todo' = [todo EXCEPT ![r] = Tail(todo[r])]
        /\ seen' = [seen EXCEPT ![r] = session]
        /\ mine' = [mine EXCEPT ![r] = None]
        /\ entries' = [entries EXCEPT ![r] = None]
        /\ inbox' = [inbox EXCEPT ![r] = None]
        /\ lock' = [d \in Devices |-> IF lock[d] = r THEN None ELSE lock[d]]
        /\ UNCHANGED <<job, outcome>>
    BY <1>2 DEF Continue, Release
  <2> USE DEF Ends
  <2>2. todo[r] \in Seq(Ops) /\ todo[r] # <<>> /\ job[r] = "disable"
    BY <1>2 DEF IInv, TypeOK, StateOK, RequestOK
  <2> DEFINE rest == Tail(todo[r])
  <2>3. /\ rest \in Seq(Ops) /\ Len(rest) = Len(todo[r]) - 1 /\ rest # <<>>
        /\ \A i \in 1..Len(rest) : i + 1 \in 1..Len(todo[r]) /\ rest[i] = todo[r][i + 1]
        /\ Len(todo[r]) \in Nat /\ Len(rest) \in Nat \ {0}
    BY <1>2, <2>2, TailIs
  <2> HIDE DEF rest
  <2>4. \A q \in Requests \ {r} : Same(q)
    BY <2>1 DEF IInv, TypeOK, StateOK, Same
  <2>5. /\ pc'[r] = "start" /\ todo'[r] = rest /\ seen'[r] = session
        /\ inbox'[r] = None /\ job'[r] = "disable"
    BY <2>1, <2>2 DEF IInv, TypeOK, StateOK, rest
  <2>6. TypeOK'
    <3>1. SystemOK'
      BY <2>1 DEF IInv, TypeOK, SystemOK
    <3>2. StateOK'
      BY <2>1, <2>3 DEF IInv, TypeOK, StateOK, rest, Points
    <3> QED
      BY <3>1, <3>2 DEF TypeOK
  <2>7. \A i \in 1..Len(rest) : \/ rest[i].op = "set" /\ ~rest[i].state
                                \/ rest[i].op = "update" /\ rest[i].change = DisableChange
    BY <2>2, <2>3 DEF IInv, RequestOK
  <2>8. RequestOK(r)'
    BY <2>3, <2>5, <2>7 DEF RequestOK, Active, Prepared, At
  <2>9. \A d \in Devices : (lock'[d] = lock[d] /\ lock[d] # r) \/ lock'[d] = None
    BY <2>1
  <2>10. ASSUME r \in alone PROVE AloneOK(r)'
    <3>1. AloneOK(r)
      BY <2>10 DEF IInv
    <3>2. /\ \A q \in Requests \ {r} : pc'[q] \in {"idle", "done"}
          /\ switched' = {} /\ \A m \in net' : m.req = r /\ (m.op = "set" => m.state = FALSE)
      BY <2>2, <2>4, <3>1 DEF AloneOK, Same
    <3>3. Fresh(r)'
      BY <1>2, <2>5, <2>10 DEF Fresh
    <3>4. Op(r)' = rest[1] /\ 1 \in 1..Len(rest)
      BY <2>3, <2>5 DEF Op
    <3>5. Op(r)'.op = "set" => Op(r)'.state = FALSE
      <4>1. rest[1] \in Ops
        BY <2>3
      <4>2. rest[1].op = "set" => ~rest[1].state /\ rest[1].state \in BOOLEAN
        BY <2>7, <3>4, <4>1 DEF Ops
      <4> QED
        BY <3>4, <4>2
    <3>6. \A x \in Devices : row'[x] # None /\ row'[x].sched =>
            \E i \in 1..Len(rest) : rest[i].op = "update" /\ rest[i].dev = x
      <4> SUFFICES ASSUME NEW x \in Devices, row'[x] # None, row'[x].sched
                   PROVE  \E i \in 1..Len(rest) : rest[i].op = "update" /\ rest[i].dev = x
        OBVIOUS
      <4>1. row[x] # None /\ row[x].sched /\ ~(Op(r).op = "update" /\ Op(r).dev = x)
        BY <1>2, <2>10
      <4>2. PICK i \in 1..Len(todo[r]) : todo[r][i].op = "update" /\ todo[r][i].dev = x
        BY <2>2, <3>1, <4>1 DEF AloneOK
      <4>3. i # 1
        BY <4>1, <4>2, OpIs
      <4>4. i - 1 \in 1..Len(rest)
        BY <2>3, <4>3
      <4>5. rest[i - 1] = todo[r][i]
        BY <2>3, <4>4
      <4> QED
        BY <4>2, <4>4, <4>5
    <3> QED
      <4>1. \A m \in net' : m.op = "set" /\ Op(r)'.op = "set" => m.state = Op(r)'.state
        BY <3>2, <3>5
      <4>2. \A op : ~At(r, op, {"wait", "commit"})' /\ ~At(r, op, {"wait"})'
                    /\ ~At(r, op, {"commit"})'
        BY <2>5 DEF At
      <4>3. \A x \in Devices : row'[x] # None /\ row'[x].sched =>
              \E i \in 1..Len(todo'[r]) : todo'[r][i].op = "update" /\ todo'[r][i].dev = x
        BY <2>5, <3>6
      <4> QED
        BY <3>2, <3>3, <4>1, <4>2, <4>3 DEF AloneOK
  <2> QED
    BY <2>4, <2>6, <2>8, <2>9, <2>10, ProceedInv
<1> QED
  BY <1>1, <1>2

LEMMA FailInv ==
  ASSUME IInv, NEW r \in Requests, Active(r), Fail(r),
         UNCHANGED <<row, config, relay, net, switched, switches, alone>>
  PROVE  IInv'
<1>1. Ends(r)
  BY DEF Ends, IInv, TypeOK, SystemOK
<1>2. CASE End(r, "raised")
  BY <1>1, <1>2, EndInv
<1>3. CASE Op(r).op = "set" /\ Continue(r, NothingSeen)
  <2>1. NothingSeen.config = None /\ \A d \in Devices : NothingSeen.rows[d] = None
    BY DEF NothingSeen
  <2> QED
    BY <1>1, <1>3, <2>1, NothingIsTyped, ContinueInv
<1> QED
  BY <1>2, <1>3 DEF Fail

LEMMA GivesUpInv ==
  ASSUME IInv, NEW r \in Requests,
         Refuse(r) \/ FlushStale(r) \/ Timeout(r) \/ TakeRejection(r) \/ CommitFails(r)
  PROVE  IInv'
<1>1. Active(r) /\ UNCHANGED <<row, config, relay, net, switched, switches, alone>>
  BY DEF Active, Refuse, FlushStale, Timeout, TakeRejection, CommitFails
<1>2. Ends(r)
  BY <1>1 DEF Ends, IInv, TypeOK, SystemOK
<1>3. CASE Timeout(r) \/ TakeRejection(r)
  BY <1>1, <1>3, FailInv DEF Timeout, TakeRejection
<1>4. CASE Refuse(r) \/ FlushStale(r) \/ CommitFails(r)
  BY <1>1, <1>2, <1>4, EndInv DEF Refuse, FlushStale, CommitFails
<1> QED
  BY <1>3, <1>4

LEMMA LoadIs ==
  ASSUME IInv, NEW r \in Requests, NEW d \in Devices, row[d] # None
  PROVE  /\ Load(r, d) \in Sessions /\ SeenRow(r, d) \in Row
         /\ Load(r, d).rows[d] = SeenRow(r, d) /\ SeenRow(r, d) # None
         /\ Load(r, d).config \in SUBSET Entry /\ Load(r, d).config # None
         /\ r \in alone /\ Active(r) =>
              /\ Load(r, d).config = config /\ SeenRow(r, d) = row[d]
              /\ \A x \in Devices : Load(r, d).rows[x] \in {None, row[x]}
         /\ \A x \in Devices : x # d => Load(r, d).rows[x] = seen[r].rows[x]
<1>1. /\ row \in [Devices -> Row \cup {None}] /\ config \in SUBSET Entry
      /\ seen[r].rows \in [Devices -> Row \cup {None}]
      /\ seen[r].config \in (SUBSET Entry) \cup {None}
  BY DEF IInv, TypeOK, SystemOK, StateOK, Sessions
<1>2. SeenRow(r, d) \in Row /\ SeenRow(r, d) # None
  BY <1>1, NullAssumption DEF SeenRow
<1>3. SeenConfig(r) \in SUBSET Entry /\ SeenConfig(r) # None
  BY <1>1, NullAssumption DEF SeenConfig
<1> DEFINE rows == [seen[r].rows EXCEPT ![d] = SeenRow(r, d)]
<1>4. /\ rows \in [Devices -> Row \cup {None}] /\ rows[d] = SeenRow(r, d)
      /\ \A x \in Devices : x # d => rows[x] = seen[r].rows[x]
  BY <1>1, <1>2
<1>5. Load(r, d) = [rows |-> rows, config |-> SeenConfig(r)]
  BY DEF Load
<1> HIDE DEF rows
<1>6. ASSUME r \in alone, Active(r)
      PROVE  /\ SeenConfig(r) = config /\ SeenRow(r, d) = row[d]
             /\ \A x \in Devices : rows[x] \in {None, row[x]}
  <2>1. Fresh(r)
    BY <1>6 DEF IInv, AloneOK
  <2>2. SeenConfig(r) = config /\ SeenRow(r, d) = row[d]
    BY <2>1 DEF Fresh, SeenConfig, SeenRow
  <2> QED
    BY <1>4, <2>1, <2>2 DEF Fresh
<1> QED
  BY <1>2, <1>3, <1>4, <1>5, <1>6 DEF Sessions

\* The message of a call is typed, and one of a call that nothing overlaps is
\* like every other that sets a device.
LEMMA PublishIs ==
  ASSUME IInv, NEW r \in Requests, Active(r), Publish(r)
  PROVE  /\ net' \subseteq Messages
         /\ r \in alone => \A m \in net' :
              /\ m.req = r
              /\ m.op = "set" /\ job[r] = "disable" => m.state = FALSE
              /\ m.op = "set" /\ Op(r).op = "set" => m.state = Op(r).state
<1> DEFINE new == Message(r, Op(r))
<1>1. /\ new \in Messages /\ new.req = r /\ new.op = Op(r).op
      /\ new.op = "set" => new.state = Op(r).state
  BY OpIs DEF Message, Messages
<1>2. net' = net \cup {new} /\ net \subseteq Messages
  BY DEF Publish, IInv, TypeOK, SystemOK
<1>3. Op(r).op = "set" /\ job[r] = "disable" => Op(r).state = FALSE
  <2>1. Len(todo[r]) > 0 /\ Op(r) = todo[r][1] /\ todo[r] \in Seq(Ops)
        /\ (Op(r).op = "set" => Op(r).state \in BOOLEAN)
    BY OpIs DEF IInv, TypeOK, StateOK
  <2>2. 1 \in 1..Len(todo[r])
    BY <2>1, LenProperties
  <2> QED
    BY <2>1, <2>2 DEF IInv, RequestOK
<1> HIDE DEF new
<1>4. ASSUME r \in alone PROVE \A m \in net :
        /\ m.req = r
        /\ m.op = "set" /\ job[r] = "disable" => m.state = FALSE
        /\ m.op = "set" /\ Op(r).op = "set" => m.state = Op(r).state
  BY <1>4 DEF IInv, AloneOK
<1> QED
  BY <1>1, <1>2, <1>3, <1>4

\* A call goes on: what stays as it is, and what is to be shown of the rest.
LEMMA GoesOnInv ==
  ASSUME IInv, NEW r \in Requests, Active(r), NEW point \in {"flush", "wait", "commit"},
         pc' = [pc EXCEPT ![r] = point],
         \A q \in Requests \ {r} :
           /\ seen'[q] = seen[q] /\ mine'[q] = mine[q] /\ entries'[q] = entries[q]
           /\ inbox'[q] = inbox[q],
         seen' \in [Requests -> Sessions], mine' \in [Requests -> Row \cup {None}],
         entries' \in [Requests -> (SUBSET Entry) \cup {None}],
         inbox' \in [Requests -> Answers \cup {None}],
         inbox'[r] = None,
         lock' \in [Devices -> Requests \cup {None}],
         \A d \in Devices : \/ lock'[d] = lock[d] /\ lock[d] # r
                            \/ lock'[d] = None
                            \/ lock'[d] = r /\ At(r, "update", {"wait", "commit"})' /\ Op(r).dev = d,
         net' \subseteq Messages,
         UNCHANGED <<row, config, relay, switched, switches, job, todo, outcome, alone>>,
         point = "flush" => Op(r).op = "update",
         Prepared(r)',
         r \in alone =>
           /\ \A m \in net' :
                /\ m.req = r
                /\ m.op = "set" /\ job[r] = "disable" => m.state = FALSE
                /\ m.op = "set" /\ Op(r).op = "set" => m.state = Op(r).state
           /\ Fresh(r)'
           /\ Op(r).op = "create" => Cardinality(Present) < MaxDevices
           /\ Op(r).op = "update" /\ point \in {"wait", "commit"} /\ lock'[Op(r).dev] # r
                => mine'[r] = row[Op(r).dev]
           /\ Op(r).op = "update" /\ point \in {"wait", "commit"} /\ job[r] = "disable"
                => mine'[r].sched = FALSE
           /\ Op(r).op = "set" /\ point = "commit" =>
                mine'[r].state = relay[Op(r).dev] /\ net' = net /\ NoSetTo(Op(r).dev)
  PROVE  IInv'
<1>1. \A q \in Requests \ {r} : Same(q)
  BY DEF IInv, TypeOK, StateOK, Same
<1>2. pc'[r] = point /\ pc' \in [Requests -> Points] /\ Op(r)' = Op(r)
  BY DEF IInv, TypeOK, StateOK, Points, Op
<1>3. TypeOK'
  <2>1. SystemOK'
    BY DEF IInv, TypeOK, SystemOK
  <2>2. StateOK'
    BY <1>2 DEF IInv, TypeOK, StateOK
  <2> QED
    BY <2>1, <2>2 DEF TypeOK
<1>4. RequestOK(r)'
  BY <1>2 DEF IInv, RequestOK, Active
<1>5. \A d \in Devices : \/ lock'[d] = lock[d] /\ lock[d] # r
                         \/ lock'[d] = None
                         \/ lock'[d] = r /\ (At(r, "update", {"wait", "commit"}) /\ Op(r).dev = d)'
  BY <1>2
<1>6. ASSUME r \in alone PROVE AloneOK(r)'
  <2>1. AloneOK(r) /\ Present' = Present
    BY <1>6 DEF IInv, Present
  <2>2. \A q \in Requests \ {r} : pc'[q] \in {"idle", "done"}
    BY <1>1, <2>1 DEF AloneOK, Same
  <2>3. /\ \A m \in net' :
             /\ m.req = r
             /\ m.op = "set" /\ job'[r] = "disable" => m.state = FALSE
             /\ m.op = "set" /\ Active(r)' /\ Op(r)'.op = "set" => m.state = Op(r)'.state
        /\ Fresh(r)'
    BY <1>2, <1>6
  <2>4. At(r, "create", {"wait", "commit"})' => Cardinality(Present') < MaxDevices
    BY <1>2, <1>6, <2>1 DEF At
  <2>5. At(r, "update", {"wait", "commit"})' =>
          /\ lock'[Op(r)'.dev] # r => mine'[r] = row'[Op(r)'.dev]
          /\ job'[r] = "disable" => mine'[r].sched = FALSE
    BY <1>2, <1>6 DEF At
  <2>6. At(r, "set", {"commit"})' =>
          mine'[r].state = relay'[Op(r)'.dev] /\ NoSetTo(Op(r).dev)'
    BY <1>2, <1>6 DEF At, NoSetTo
  <2>7. job'[r] = "disable" => \A x \in Devices : row'[x] # None /\ row'[x].sched =>
          \E i \in 1..Len(todo'[r]) : todo'[r][i].op = "update" /\ todo'[r][i].dev = x
    BY <2>1 DEF AloneOK
  <2>8. switched' = {}
    BY <2>1 DEF AloneOK
  <2> QED
    BY <2>2, <2>3, <2>4, <2>5, <2>6, <2>7, <2>8 DEF AloneOK
<1> QED
  BY <1>1, <1>3, <1>4, <1>5, <1>6, ProceedInv

\* A request that has not updated a row has none locked.
LEMMA NotLocking ==
  ASSUME IInv, NEW r \in Requests,
         ~At(r, "update", {"wait", "commit"})
  PROVE  /\ \A d \in Devices : lock[d] # r
         /\ lock \in [Devices -> Requests \cup {None}]
BY NullAssumption DEF IInv, LocksHeld, TypeOK, SystemOK

LEMMA StartSetInv ==
  ASSUME IInv, NEW r \in Requests, StartSet(r)
  PROVE  IInv'
<1> DEFINE d == Op(r).dev
           new == [SeenRow(r, d) EXCEPT !.mode = "MANUAL", !.state = Op(r).state]
<1>1. /\ pc[r] = "start" /\ Op(r).op = "set" /\ row[d] # None /\ Active(r)
      /\ seen' = [seen EXCEPT ![r] = Load(r, d)] /\ mine' = [mine EXCEPT ![r] = new]
      /\ Publish(r) /\ pc' = [pc EXCEPT ![r] = "wait"]
      /\ UNCHANGED <<row, config, lock, relay, switched, switches, job, todo, entries, inbox,
                     outcome, alone>>
  BY DEF StartSet, Refused, Active
<1>2. d \in Devices /\ Op(r).state \in BOOLEAN
  BY <1>1, OpIs
<1>3. /\ Load(r, d) \in Sessions /\ SeenRow(r, d) \in Row
      /\ Load(r, d).rows[d] = SeenRow(r, d) /\ SeenRow(r, d) # None
      /\ Load(r, d).config # None
      /\ r \in alone => /\ Load(r, d).config = config
                        /\ \A x \in Devices : Load(r, d).rows[x] \in {None, row[x]}
  BY <1>1, <1>2, LoadIs
<1>4. new \in Row /\ new.mode = "MANUAL" /\ new.state = Op(r).state
      /\ new.sched = SeenRow(r, d).sched
  BY <1>2, <1>3 DEF Row
<1> HIDE DEF new
<1>5. /\ seen'[r] = Load(r, d) /\ mine'[r] = new /\ inbox'[r] = None /\ Op(r)' = Op(r)
      /\ pc'[r] = "wait"
      /\ seen' \in [Requests -> Sessions] /\ mine' \in [Requests -> Row \cup {None}]
      /\ entries' \in [Requests -> (SUBSET Entry) \cup {None}]
      /\ inbox' \in [Requests -> Answers \cup {None}]
      /\ \A q \in Requests \ {r} :
           /\ seen'[q] = seen[q] /\ mine'[q] = mine[q] /\ entries'[q] = entries[q]
           /\ inbox'[q] = inbox[q]
  BY <1>1, <1>3, <1>4 DEF IInv, TypeOK, StateOK, RequestOK, Op
<1>6. Prepared(r)'
  BY <1>1, <1>3, <1>4, <1>5 DEF Prepared, At
<1>7. r \in alone => Fresh(r)'
  BY <1>1, <1>3, <1>5 DEF Fresh
<1>8. \A x \in Devices : lock'[x] = lock[x] /\ lock[x] # r
  BY <1>1, NotLocking DEF At
<1>9. lock' \in [Devices -> Requests \cup {None}]
  BY <1>1 DEF IInv, TypeOK, SystemOK
<1> HIDE DEF d
<1> QED
  BY <1>1, <1>5, <1>6, <1>7, <1>8, <1>9, PublishIs, GoesOnInv

LEMMA StartCreateInv ==
  ASSUME IInv, NEW r \in Requests, StartCreate(r)
  PROVE  IInv'
<1> DEFINE d == Op(r).dev
           new == [number |-> Op(r).number, mode |-> "MANUAL", sched |-> FALSE, state |-> FALSE]
           session == [seen[r] EXCEPT !.config = config]
<1>1. /\ pc[r] = "start" /\ Op(r).op = "create" /\ ~(Cardinality(Present) >= MaxDevices) /\ Active(r)
      /\ mine' = [mine EXCEPT ![r] = new]
      /\ entries' = [entries EXCEPT ![r] = SyncedConfig(config, d, new)]
      /\ seen' = [seen EXCEPT ![r].config = config]
      /\ Publish(r) /\ pc' = [pc EXCEPT ![r] = "wait"]
      /\ UNCHANGED <<row, config, lock, relay, switched, switches, job, todo, inbox, outcome, alone>>
  BY DEF StartCreate, Refused, Active
<1>2. d \in Devices /\ Op(r).number \in Numbers
  BY <1>1, OpIs
<1>3. new \in Row /\ new.mode = "MANUAL"
  BY <1>2 DEF Row
<1>4. config \in SUBSET Entry /\ config # None
  BY NullAssumption DEF IInv, TypeOK, SystemOK
<1>5. SyncedConfig(config, d, new) \in SUBSET Entry
  BY <1>2, <1>3, <1>4, SyncedIsConfig
<1>6. /\ session \in Sessions /\ session.config = config /\ session.rows = seen[r].rows
      /\ seen' = [seen EXCEPT ![r] = session]
  BY <1>1, <1>4 DEF IInv, TypeOK, StateOK, Sessions
<1> HIDE DEF new, session
<1>7. /\ seen'[r] = session /\ mine'[r] = new /\ entries'[r] = SyncedConfig(config, d, new)
      /\ inbox'[r] = None /\ Op(r)' = Op(r) /\ pc'[r] = "wait"
      /\ seen' \in [Requests -> Sessions] /\ mine' \in [Requests -> Row \cup {None}]
      /\ entries' \in [Requests -> (SUBSET Entry) \cup {None}]
      /\ inbox' \in [Requests -> Answers \cup {None}]
      /\ \A q \in Requests \ {r} :
           /\ seen'[q] = seen[q] /\ mine'[q] = mine[q] /\ entries'[q] = entries[q]
           /\ inbox'[q] = inbox[q]
  BY ZenonT(40), <1>1, <1>3, <1>5, <1>6 DEF IInv, TypeOK, StateOK, RequestOK, Op
<1>8. Prepared(r)'
  BY <1>1, <1>3, <1>4, <1>6, <1>7 DEF Prepared, At
<1>9. r \in alone => Fresh(r)'
  BY <1>1, <1>6, <1>7 DEF Fresh, IInv, AloneOK
<1>10. /\ \A x \in Devices : lock'[x] = lock[x] /\ lock[x] # r
       /\ lock' \in [Devices -> Requests \cup {None}]
  BY <1>1, NotLocking DEF At
<1>11. Cardinality(Present) < MaxDevices
  <2>1. Present \subseteq Devices
    BY DEF Present
  <2>2. Cardinality(Present) \in Nat
    BY <2>1, DevicesAssumption, FS_Subset, FS_CardinalityType
  <2> QED
    BY <1>1, <2>2, DevicesAssumption
<1> HIDE DEF d
<1> QED
  BY <1>1, <1>7, <1>8, <1>9, <1>10, <1>11, PublishIs, GoesOnInv

LEMMA StartDeleteInv ==
  ASSUME IInv, NEW r \in Requests, StartDelete(r)
  PROVE  IInv'
<1>1. /\ pc[r] = "start" /\ Op(r).op = "delete" /\ Active(r)
      /\ Publish(r) /\ pc' = [pc EXCEPT ![r] = "wait"]
      /\ UNCHANGED <<row, config, lock, relay, switched, switches, job, todo, seen, mine, entries,
                     inbox, outcome, alone>>
  BY DEF StartDelete, Active
<1>2. /\ inbox'[r] = None /\ Op(r)' = Op(r) /\ pc'[r] = "wait"
      /\ seen' \in [Requests -> Sessions] /\ mine' \in [Requests -> Row \cup {None}]
      /\ entries' \in [Requests -> (SUBSET Entry) \cup {None}]
      /\ inbox' \in [Requests -> Answers \cup {None}]
  BY <1>1 DEF IInv, TypeOK, StateOK, RequestOK, Op
<1>3. Prepared(r)'
  BY <1>1, <1>2 DEF Prepared, At
<1>4. r \in alone => Fresh(r)'
  BY <1>1 DEF Fresh, IInv, AloneOK
<1>5. /\ \A x \in Devices : lock'[x] = lock[x] /\ lock[x] # r
      /\ lock' \in [Devices -> Requests \cup {None}]
  BY <1>1, NotLocking DEF At
<1> QED
  BY <1>1, <1>2, <1>3, <1>4, <1>5, PublishIs, GoesOnInv

LEMMA StartUpdateInv ==
  ASSUME IInv, NEW r \in Requests, StartUpdate(r)
  PROVE  IInv'
<1> DEFINE d == Op(r).dev
           new == Changed(SeenRow(r, d), Op(r).change)
<1>1. /\ pc[r] = "start" /\ Op(r).op = "update" /\ row[d] # None /\ Active(r)
      /\ seen' = [seen EXCEPT ![r] = Load(r, d)] /\ mine' = [mine EXCEPT ![r] = new]
      /\ pc' = [pc EXCEPT ![r] = "flush"]
      /\ UNCHANGED <<row, config, lock, relay, net, switched, switches, job, todo, entries, inbox,
                     outcome, alone>>
  BY DEF StartUpdate, Refused, Active
<1>2. d \in Devices /\ Op(r).change \in Changes
  BY <1>1, OpIs
<1>3. /\ Load(r, d) \in Sessions /\ SeenRow(r, d) \in Row
      /\ Load(r, d).rows[d] = SeenRow(r, d) /\ SeenRow(r, d) # None
      /\ Load(r, d).config # None
      /\ r \in alone => /\ Load(r, d).config = config
                        /\ \A x \in Devices : Load(r, d).rows[x] \in {None, row[x]}
  BY <1>1, <1>2, LoadIs
<1>4. new \in Row
  BY <1>2, <1>3, ChangedIs
<1> HIDE DEF new
<1>5. /\ seen'[r] = Load(r, d) /\ mine'[r] = new /\ inbox'[r] = None /\ Op(r)' = Op(r)
      /\ pc'[r] = "flush"
      /\ seen' \in [Requests -> Sessions] /\ mine' \in [Requests -> Row \cup {None}]
      /\ entries' \in [Requests -> (SUBSET Entry) \cup {None}]
      /\ inbox' \in [Requests -> Answers \cup {None}]
      /\ \A q \in Requests \ {r} :
           /\ seen'[q] = seen[q] /\ mine'[q] = mine[q] /\ entries'[q] = entries[q]
           /\ inbox'[q] = inbox[q]
  BY <1>1, <1>3, <1>4 DEF IInv, TypeOK, StateOK, RequestOK, Op
<1>6. Prepared(r)'
  BY <1>1, <1>3, <1>5 DEF Prepared, At, new
<1>7. r \in alone => Fresh(r)'
  BY <1>1, <1>3, <1>5 DEF Fresh
<1>8. /\ \A x \in Devices : lock'[x] = lock[x] /\ lock[x] # r
      /\ lock' \in [Devices -> Requests \cup {None}]
  BY <1>1, NotLocking DEF At
<1>9. /\ net' \subseteq Messages
      /\ r \in alone => \A m \in net' :
           /\ m.req = r
           /\ m.op = "set" /\ job[r] = "disable" => m.state = FALSE
           /\ m.op = "set" /\ Op(r).op = "set" => m.state = Op(r).state
  BY <1>1 DEF IInv, TypeOK, SystemOK, AloneOK
<1> HIDE DEF d
<1> QED
  BY <1>1, <1>5, <1>6, <1>7, <1>8, <1>9, GoesOnInv

LEMMA FlushInv ==
  ASSUME IInv, NEW r \in Requests, Flush(r)
  PROVE  IInv'
<1> DEFINE d == Op(r).dev
           loaded == seen[r].rows[d]
           new == Written(row[d], loaded, mine[r])
           list == SyncedConfig(seen[r].config, d, new)
<1>1. /\ pc[r] = "flush" /\ row[d] # None /\ Active(r)
      /\ lock' = IF mine[r] # loaded THEN [lock EXCEPT ![d] = r] ELSE lock
      /\ mine' = [mine EXCEPT ![r] = new]
      /\ entries' = [entries EXCEPT ![r] = list]
      /\ Publish(r) /\ pc' = [pc EXCEPT ![r] = "wait"]
      /\ UNCHANGED <<row, config, relay, switched, switches, job, todo, seen, inbox, outcome, alone>>
  BY DEF Flush, Active
<1>2. /\ Op(r).op = "update" /\ loaded # None /\ seen[r].config # None
      /\ mine[r] = Changed(loaded, Op(r).change)
  BY <1>1 DEF IInv, RequestOK, Prepared, At
<1>3. d \in Devices /\ Op(r).change \in Changes
  BY <1>1, <1>2, OpIs
<1>4. loaded \in Row /\ row[d] \in Row /\ seen[r].config \in SUBSET Entry
  BY <1>1, <1>2, <1>3 DEF IInv, TypeOK, SystemOK, StateOK, Sessions
<1>5. /\ mine[r] \in Row
      /\ Op(r).change = DisableChange => mine[r]["sched"] = FALSE
  <2>1. DisableChange["sched"] = FALSE /\ "sched" \in DOMAIN DisableChange /\ "sched" \in Columns
    BY DEF DisableChange, Columns
  <2> QED
    BY <1>2, <1>3, <1>4, <2>1, ChangedIs
<1>6. /\ new \in Row
      /\ \A f \in Columns : new[f] = IF mine[r][f] = loaded[f] THEN row[d][f] ELSE mine[r][f]
      /\ mine[r] = loaded => new = row[d]
  <2> HIDE DEF loaded
  <2>1. /\ Written(row[d], loaded, mine[r]) \in Row
        /\ \A f \in Columns : Written(row[d], loaded, mine[r])[f] =
             IF mine[r][f] = loaded[f] THEN row[d][f] ELSE mine[r][f]
    <3>1. \A current, seenAs, changed \in Row :
            /\ Written(current, seenAs, changed) \in Row
            /\ \A f \in Columns : Written(current, seenAs, changed)[f] =
                 IF changed[f] = seenAs[f] THEN current[f] ELSE changed[f]
      BY WrittenIs
    <3> QED
      BY <1>4, <1>5, <3>1
  <2>2. Written(row[d], loaded, loaded) = row[d]
    BY <1>4, WrittenIs
  <2> QED
    BY <2>1, <2>2
<1>7. list \in SUBSET Entry
  BY <1>3, <1>4, <1>6, SyncedIsConfig
<1> HIDE DEF new, loaded, list
<1>8. /\ seen'[r] = seen[r] /\ mine'[r] = new /\ entries'[r] = list
      /\ inbox'[r] = None /\ Op(r)' = Op(r) /\ pc'[r] = "wait"
      /\ seen' \in [Requests -> Sessions] /\ mine' \in [Requests -> Row \cup {None}]
      /\ entries' \in [Requests -> (SUBSET Entry) \cup {None}]
      /\ inbox' \in [Requests -> Answers \cup {None}]
      /\ \A q \in Requests \ {r} :
           /\ seen'[q] = seen[q] /\ mine'[q] = mine[q] /\ entries'[q] = entries[q]
           /\ inbox'[q] = inbox[q]
  BY <1>1, <1>6, <1>7 DEF IInv, TypeOK, StateOK, RequestOK, Op
<1>9. Prepared(r)'
  BY <1>1, <1>2, <1>6, <1>8 DEF Prepared, At, list, loaded
<1>10. r \in alone => Fresh(r)'
  BY <1>1 DEF Fresh, IInv, AloneOK
<1>11. /\ lock \in [Devices -> Requests \cup {None}] /\ \A x \in Devices : lock[x] # r
  BY <1>1, NotLocking DEF At
<1>12. /\ lock' \in [Devices -> Requests \cup {None}]
       /\ \A x \in Devices : \/ lock'[x] = lock[x] /\ lock[x] # r
                             \/ lock'[x] = r /\ At(r, "update", {"wait", "commit"})' /\ d = x
       /\ lock'[d] # r => mine[r] = loaded
  BY <1>1, <1>2, <1>3, <1>8, <1>11 DEF At
<1>13. ASSUME r \in alone, job[r] = "disable" PROVE new.sched = FALSE
  <2>1. Op(r) = todo[r][1] /\ 1 \in 1..Len(todo[r])
    <3>1. Op(r) = todo[r][1] /\ Len(todo[r]) > 0 /\ todo[r] \in Seq(Ops)
      BY <1>1, OpIs DEF IInv, TypeOK, StateOK
    <3> QED
      BY <3>1, LenProperties
  <2>2. Op(r).change = DisableChange
    BY <1>1, <1>2, <1>13, <2>1 DEF IInv, RequestOK
  <2>3. row[d] = loaded
    BY <1>1, <1>2, <1>3, <1>13 DEF IInv, AloneOK, Fresh, loaded
  <2>4. new["sched"] = FALSE
    BY <1>5, <1>6, <2>2, <2>3 DEF Columns
  <2> QED
    BY <1>6, <2>4, RowColumns
<1> HIDE DEF d
<1>14. lock'[d] # r => new = row[d]
  BY <1>6, <1>12
<1> QED
  BY <1>1, <1>2, <1>8, <1>9, <1>10, <1>12, <1>13, <1>14, PublishIs, GoesOnInv DEF d

LEMMA TakeAckInv ==
  ASSUME IInv, NEW r \in Requests, TakeAck(r)
  PROVE  IInv'
<1> DEFINE d == Op(r).dev
           takes == Op(r).op \in {"set", "create"}
           new == IF takes /\ inbox[r].state # None
                  THEN [mine[r] EXCEPT !.state = inbox[r].state] ELSE mine[r]
           list == IF takes THEN SyncedConfig(seen[r].config, d, new) ELSE entries[r]
<1>1. /\ pc[r] = "wait" /\ inbox[r] # None /\ inbox[r].ok /\ Active(r)
      /\ mine' = [mine EXCEPT ![r] = new]
      /\ entries' = [entries EXCEPT ![r] = list]
      /\ inbox' = [inbox EXCEPT ![r] = None]
      /\ pc' = [pc EXCEPT ![r] = "commit"]
      /\ UNCHANGED <<row, config, lock, relay, net, switched, switches, job, todo, seen, outcome,
                     alone>>
  BY DEF TakeAck, Active
<1>2. Prepared(r) /\ d \in Devices /\ (Op(r).op = "set" => Op(r).state \in BOOLEAN)
      /\ inbox[r].state \in BOOLEAN \cup {None}
  BY <1>1, OpIs DEF IInv, RequestOK, TypeOK, StateOK, Answers
<1>3. takes => /\ mine[r] \in Row /\ mine[r].mode = "MANUAL" /\ seen[r].config # None
               /\ Op(r).op = "set" => /\ seen[r].rows[d] # None
                                      /\ mine[r].sched = seen[r].rows[d].sched
                                      /\ mine[r].state = Op(r).state
  BY <1>1, <1>2 DEF Prepared, At
<1>4. /\ takes => /\ new \in Row /\ new.mode = "MANUAL" /\ new.sched = mine[r].sched
                  /\ new.state = IF inbox[r].state # None THEN inbox[r].state ELSE mine[r].state
      /\ ~takes => new = mine[r]
      /\ new \in Row \cup {None}
  BY <1>2, <1>3 DEF Row, IInv, TypeOK, StateOK
<1>5. list \in (SUBSET Entry) \cup {None}
  <2>1. ASSUME takes PROVE SyncedConfig(seen[r].config, d, new) \in SUBSET Entry
    <3>1. seen[r].config \in SUBSET Entry
      BY <1>3, <2>1 DEF IInv, TypeOK, StateOK, Sessions
    <3> QED
      BY <1>2, <1>4, <2>1, <3>1, SyncedIsConfig
  <2> QED
    BY <2>1 DEF IInv, TypeOK, StateOK
<1> HIDE DEF new
<1>6. (takes => list = SyncedConfig(seen[r].config, d, new)) /\ (~takes => list = entries[r])
  OBVIOUS
<1> HIDE DEF list
<1>7. /\ seen'[r] = seen[r] /\ mine'[r] = new /\ entries'[r] = list
      /\ inbox'[r] = None /\ Op(r)' = Op(r) /\ pc'[r] = "commit"
      /\ seen' \in [Requests -> Sessions] /\ mine' \in [Requests -> Row \cup {None}]
      /\ entries' \in [Requests -> (SUBSET Entry) \cup {None}]
      /\ inbox' \in [Requests -> Answers \cup {None}]
      /\ \A q \in Requests \ {r} :
           /\ seen'[q] = seen[q] /\ mine'[q] = mine[q] /\ entries'[q] = entries[q]
           /\ inbox'[q] = inbox[q]
  BY <1>1, <1>4, <1>5 DEF IInv, TypeOK, StateOK, Op
<1>8. Prepared(r)'
  BY <1>1, <1>2, <1>3, <1>4, <1>6, <1>7 DEF Prepared, At
<1>9. r \in alone => Fresh(r)'
  BY <1>1 DEF Fresh, IInv, AloneOK
<1>10. /\ lock' \in [Devices -> Requests \cup {None}] /\ net' \subseteq Messages
  BY <1>1 DEF IInv, TypeOK, SystemOK
<1>11. \A x \in Devices : \/ lock'[x] = lock[x] /\ lock[x] # r
                          \/ lock'[x] = r /\ At(r, "update", {"wait", "commit"})' /\ d = x
  BY <1>1, <1>7, NullAssumption DEF IInv, LocksHeld, At
<1>12. r \in alone =>
         /\ \A m \in net' :
              /\ m.req = r
              /\ m.op = "set" /\ job[r] = "disable" => m.state = FALSE
              /\ m.op = "set" /\ Op(r).op = "set" => m.state = Op(r).state
         /\ Op(r).op = "create" => Cardinality(Present) < MaxDevices
         /\ Op(r).op = "update" =>
              /\ lock'[d] # r => mine'[r] = row[d]
              /\ job[r] = "disable" => mine'[r].sched = FALSE
         /\ Op(r).op = "set" => mine'[r].state = relay[d] /\ NoSetTo(d)
  BY <1>1, <1>2, <1>3, <1>4, <1>7 DEF IInv, AloneOK, At
<1> HIDE DEF d, takes
<1> QED
  BY ZenonT(40), <1>1, <1>7, <1>8, <1>9, <1>10, <1>11, <1>12, GoesOnInv DEF d

\* What a commit writes.
LEMMA CommitIs ==
  ASSUME IInv, NEW r \in Requests, Commit(r), NEW d, d = Op(r).dev
  PROVE  /\ Active(r) /\ d \in Devices /\ Op(r).op \in {"set", "create", "delete", "update"}
         /\ row \in [Devices -> Row \cup {None}] /\ CommittedRow(r) \in Row \cup {None}
         /\ \A x \in Devices : row'[x] = IF x = d THEN CommittedRow(r) ELSE row[x]
         /\ Ends(r)
         /\ Op(r).op = "delete" => CommittedRow(r) = None
         /\ Op(r).op = "create" => CommittedRow(r) = mine[r] /\ mine[r] \in Row
         /\ Op(r).op = "update" => /\ CommittedRow(r) = IF lock[d] = r THEN mine[r] ELSE row[d]
                                   /\ mine[r] \in Row /\ row[d] \in Row
         /\ Op(r).op = "set" => /\ CommittedRow(r) = Written(row[d], seen[r].rows[d], mine[r])
                                /\ mine[r] \in Row /\ row[d] \in Row /\ seen[r].rows[d] \in Row
                                /\ mine[r].sched = seen[r].rows[d].sched /\ mine[r].mode = "MANUAL"
<1>1. /\ pc[r] = "commit" /\ ~Stale(r) /\ Active(r)
      /\ row' = [row EXCEPT ![d] = CommittedRow(r)]
      /\ config' = IF entries[r] \in {None, seen[r].config} THEN config ELSE entries[r]
      /\ UNCHANGED <<relay, net, switched, switches, alone>>
  BY DEF Commit, WritesConfig, Active
<1>2. /\ Prepared(r) /\ d \in Devices /\ Op(r).op \in {"set", "create", "delete", "update"}
      /\ row \in [Devices -> Row \cup {None}] /\ mine[r] \in Row \cup {None}
      /\ seen[r].rows \in [Devices -> Row \cup {None}] /\ config \in SUBSET Entry
      /\ entries[r] \in (SUBSET Entry) \cup {None}
  BY <1>1, OpIs DEF IInv, RequestOK, TypeOK, SystemOK, StateOK, Sessions
<1>3. /\ Op(r).op = "delete" => CommittedRow(r) = None
      /\ Op(r).op = "create" => CommittedRow(r) = mine[r] /\ mine[r] \in Row
      /\ Op(r).op = "update" => /\ CommittedRow(r) = IF lock[d] = r THEN mine[r] ELSE row[d]
                                /\ mine[r] \in Row /\ row[d] \in Row
      /\ Op(r).op = "set" => /\ CommittedRow(r) = Written(row[d], seen[r].rows[d], mine[r])
                             /\ mine[r] \in Row /\ row[d] \in Row /\ seen[r].rows[d] \in Row
                             /\ mine[r].sched = seen[r].rows[d].sched /\ mine[r].mode = "MANUAL"
  BY <1>1, <1>2 DEF CommittedRow, Stale, Prepared, At
<1>4. CommittedRow(r) \in Row \cup {None}
  <2>1. CASE Op(r).op = "set"
    <3>1. \A current, loaded, new \in Row : Written(current, loaded, new) \in Row
      BY WrittenIs
    <3> QED
      BY <1>3, <2>1, <3>1
  <2> QED
    BY <1>2, <1>3, <2>1
<1>5. Ends(r) /\ \A x \in Devices : row'[x] = IF x = d THEN CommittedRow(r) ELSE row[x]
  BY <1>1, <1>2, <1>4 DEF Ends
<1> QED
  BY <1>1, <1>2, <1>3, <1>4, <1>5

\* Alone, it writes what the request has prepared.
LEMMA AloneCommitIs ==
  ASSUME IInv, NEW r \in alone, r \in Requests, Commit(r), Op(r).op # "delete"
  PROVE  CommittedRow(r) = mine[r] /\ mine[r] \in Row
<1> DEFINE d == Op(r).dev
<1>1. Fresh(r) /\ AloneOK(r) /\ pc[r] = "commit"
  BY DEF IInv, AloneOK, Active, Commit
<1>2. CASE Op(r).op = "set"
  <2>1. /\ CommittedRow(r) = Written(row[d], seen[r].rows[d], mine[r]) /\ d \in Devices
        /\ mine[r] \in Row /\ row[d] \in Row /\ seen[r].rows[d] \in Row
    BY <1>2, CommitIs
  <2>2. seen[r].rows[d] = row[d]
    BY <1>1, <2>1, NullAssumption DEF Fresh
  <2> QED
    BY <2>1, <2>2, WrittenIs
<1>3. CASE Op(r).op = "update"
  BY <1>1, <1>3, CommitIs DEF AloneOK, At
<1>4. CASE Op(r).op = "create"
  BY <1>4, CommitIs
<1> QED
  BY <1>2, <1>3, <1>4, CommitIs

\* The session that the next call inherits.
NextSession(r) ==
  [rows |-> [seen[r].rows EXCEPT ![Op(r).dev] = mine[r]],
   config |-> IF entries[r] = None THEN seen[r].config ELSE entries[r]]

LEMMA CommitSession ==
  ASSUME IInv, NEW r \in Requests, Active(r)
  PROVE  /\ NextSession(r) \in Sessions /\ NextSession(r).rows[Op(r).dev] = mine[r]
         /\ \A x \in Devices : x # Op(r).dev => NextSession(r).rows[x] = seen[r].rows[x]
         /\ NextSession(r).config = IF entries[r] = None THEN seen[r].config ELSE entries[r]
<1> DEFINE d == Op(r).dev
           rows == [seen[r].rows EXCEPT ![d] = mine[r]]
           list == IF entries[r] = None THEN seen[r].config ELSE entries[r]
<1>1. /\ d \in Devices /\ mine[r] \in Row \cup {None}
      /\ seen[r].rows \in [Devices -> Row \cup {None}]
      /\ list \in (SUBSET Entry) \cup {None}
  BY OpIs DEF IInv, TypeOK, StateOK, Sessions
<1>2. /\ rows \in [Devices -> Row \cup {None}] /\ rows[d] = mine[r]
      /\ \A x \in Devices : x # d => rows[x] = seen[r].rows[x]
  BY <1>1
<1>3. NextSession(r) = [rows |-> rows, config |-> list]
  BY DEF NextSession
<1> HIDE DEF rows, list
<1>4. NextSession(r) \in Sessions /\ NextSession(r).rows = rows /\ NextSession(r).config = list
  BY <1>1, <1>2, <1>3 DEF Sessions
<1> QED
  BY <1>2, <1>4 DEF list

LEMMA CommitInv ==
  ASSUME IInv, NEW r \in Requests, Commit(r)
  PROVE  IInv'
<1> DEFINE d == Op(r).dev
           session == NextSession(r)
<1>1. /\ pc[r] = "commit" /\ Active(r)
      /\ config' = IF entries[r] \in {None, seen[r].config} THEN config ELSE entries[r]
      /\ Continue(r, session)
      /\ UNCHANGED <<relay, net, switched, switches, alone>>
  BY DEF Commit, WritesConfig, Active, NextSession
<1>2. /\ Prepared(r) /\ d \in Devices /\ mine[r] \in Row \cup {None}
      /\ seen[r].rows \in [Devices -> Row \cup {None}]
      /\ seen[r].config \in (SUBSET Entry) \cup {None} /\ config \in SUBSET Entry
      /\ entries[r] \in (SUBSET Entry) \cup {None}
  BY <1>1, OpIs DEF IInv, RequestOK, TypeOK, SystemOK, StateOK, Sessions
<1>3. Ends(r) /\ \A x \in Devices : row'[x] = IF x = d THEN CommittedRow(r) ELSE row[x]
  BY CommitIs
<1>4. /\ session \in Sessions /\ session.rows[d] = mine[r]
      /\ \A x \in Devices : x # d => session.rows[x] = seen[r].rows[x]
      /\ session.config = IF entries[r] = None THEN seen[r].config ELSE entries[r]
  BY <1>1, CommitSession
<1> HIDE DEF session
<1>5. ASSUME r \in alone, Len(todo[r]) # 1
      PROVE  /\ session.config \in {None, config'}
             /\ \A x \in Devices : session.rows[x] \in {None, row'[x]}
             /\ \A x \in Devices : row'[x] # None /\ row'[x].sched =>
                  row[x] # None /\ row[x].sched /\ ~(Op(r).op = "update" /\ d = x)
  <2>1. job[r] = "disable" /\ Op(r).op \in {"set", "update"}
    <3>1. job[r] = "disable" /\ Op(r) = todo[r][1] /\ Len(todo[r]) > 0 /\ todo[r] \in Seq(Ops)
      BY <1>1, <1>5, OpIs DEF IInv, RequestOK, TypeOK, StateOK
    <3>2. 1 \in 1..Len(todo[r])
      BY <3>1, LenProperties
    <3> QED
      BY <1>1, <3>1, <3>2 DEF IInv, RequestOK
  <2>2. Fresh(r) /\ AloneOK(r)
    BY <1>1, <1>5 DEF IInv, AloneOK
  <2>3. session.config \in {None, config'}
    BY <1>1, <1>4, <2>2 DEF Fresh
  <2>4. CommittedRow(r) = mine[r] /\ mine[r] \in Row
    BY <1>5, <2>1, AloneCommitIs
  <2>5. \A x \in Devices : session.rows[x] \in {None, row'[x]}
    BY <1>3, <1>4, <2>2, <2>4 DEF Fresh
  <2>6. /\ Op(r).op = "update" => mine[r].sched = FALSE
        /\ Op(r).op = "set" => row[d] # None /\ mine[r].sched = row[d].sched
    <3>1. Op(r).op = "update" => mine[r].sched = FALSE
      BY <1>1, <2>1, <2>2 DEF AloneOK, At
    <3>2. Op(r).op = "set" => /\ row[d] \in Row /\ seen[r].rows[d] \in Row
                              /\ mine[r].sched = seen[r].rows[d].sched
      BY CommitIs
    <3> QED
      BY <1>2, <2>2, <3>1, <3>2, NullAssumption DEF Fresh
  <2>7. \A x \in Devices : row'[x] # None /\ row'[x].sched =>
          row[x] # None /\ row[x].sched /\ ~(Op(r).op = "update" /\ d = x)
    BY <1>3, <2>1, <2>4, <2>6
  <2> QED
    BY <2>3, <2>5, <2>7
<1> HIDE DEF d
<1> QED
  BY <1>1, <1>3, <1>4, <1>5, ContinueInv DEF d

-----------------------------------------------------------------------------
(* The agent and the scheduler. *)

LEMMA AgentHandlesInv ==
  ASSUME IInv, NEW m \in net, AgentHandles(m)
  PROVE  IInv'
<1>1. PICK ok \in BOOLEAN, done \in BOOLEAN, told \in BOOLEAN, reached \in SUBSET Listeners(m) :
        /\ m.op \notin {"set", "create"} => ~told
        /\ m.op # "set" \/ ~ok => ~done
        /\ m.op = "set" /\ ok /\ ~done => told
        /\ relay' = IF done THEN [relay EXCEPT ![m.dev] = m.state] ELSE relay
        /\ inbox' = [r \in Requests |->
             IF r \in reached
             THEN [req |-> m.req, ok |-> ok, state |-> IF told THEN relay'[m.dev] ELSE None]
             ELSE inbox[r]]
  BY DEF AgentHandles
<1>2. /\ net' = net \ {m}
      /\ UNCHANGED <<row, config, lock, switched, switches, job, todo, pc, seen, mine, entries,
                     outcome, alone>>
  BY DEF AgentHandles
<1>3. m \in Messages /\ m.req \in Requests /\ m.dev \in Devices
      /\ (m.op = "set" => m.state \in BOOLEAN)
  BY DEF IInv, TypeOK, SystemOK, Messages
<1>4. relay' \in [Devices -> BOOLEAN] /\ (done => relay'[m.dev] = m.state)
      /\ \A x \in Devices : x # m.dev \/ ~done => relay'[x] = relay[x]
  BY <1>1, <1>3 DEF IInv, TypeOK, SystemOK
<1> DEFINE answer == [req |-> m.req, ok |-> ok, state |-> IF told THEN relay'[m.dev] ELSE None]
<1>5. /\ answer \in Answers /\ answer.ok = ok
      /\ answer.state = IF told THEN relay'[m.dev] ELSE None
  BY <1>1, <1>3, <1>4 DEF Answers
<1>6. \A r \in Requests :
        \/ r \notin reached /\ inbox'[r] = inbox[r]
        \/ /\ r \in reached /\ inbox'[r] = answer
           /\ pc[r] = "wait" /\ inbox[r] = None /\ Op(r).op = m.op /\ Op(r).dev = m.dev
  BY <1>1 DEF Listeners
<1> HIDE DEF answer
<1>7. inbox' \in [Requests -> Answers \cup {None}]
  <2>1. inbox' = [r \in Requests |-> inbox'[r]]
    BY <1>1
  <2>2. \A r \in Requests : inbox'[r] \in Answers \cup {None}
    BY <1>5, <1>6 DEF IInv, TypeOK, StateOK
  <2> QED
    BY <2>1, <2>2
<1>8. TypeOK'
  <2>1. SystemOK'
    BY <1>2, <1>4 DEF IInv, TypeOK, SystemOK
  <2>2. StateOK'
    BY <1>2, <1>7 DEF IInv, TypeOK, StateOK
  <2> QED
    BY <2>1, <2>2 DEF TypeOK
<1>9. ASSUME NEW r \in Requests PROVE RequestOK(r)' /\ Op(r)' = Op(r)
  BY <1>2, <1>6 DEF IInv, RequestOK, Active, Prepared, At, Op
<1>10. LocksHeld'
  BY <1>2 DEF IInv, LocksHeld, At, Op
<1>11. ASSUME NEW r \in alone PROVE AloneOK(r)'
  <2>1. r \in Requests /\ AloneOK(r) /\ Present' = Present /\ Op(r)' = Op(r)
        /\ pc' = pc /\ job' = job /\ todo' = todo /\ row' = row /\ mine' = mine /\ lock' = lock
    BY <1>2 DEF IInv, TypeOK, SystemOK, Present, Op
  <2>2. Fresh(r) => Fresh(r)'
    BY <1>2 DEF Fresh
  <2>3. \A d : NoSetTo(d) => NoSetTo(d)'
    BY <1>2 DEF NoSetTo
  <2>4. CASE ~(m.op = "set" /\ Op(r).op = "set" /\ Op(r).dev = m.dev)
    <3>1. Active(r) /\ Op(r).op = "set" => relay'[Op(r).dev] = relay[Op(r).dev] /\ inbox'[r] = inbox[r]
      BY <1>1, <1>4, <1>6, <2>1, <2>4, OpIs
    <3> QED
      BY <1>2, <2>1, <2>2, <2>3, <3>1 DEF AloneOK, Active, At
  <2>5. CASE m.op = "set" /\ Op(r).op = "set" /\ Op(r).dev = m.dev /\ Active(r)
    <3>1. m.state = Op(r).state /\ m.req = r
      BY <2>1, <2>5 DEF AloneOK
    <3>2. NoSetTo(m.dev)'
      <4> SUFFICES ASSUME NEW n \in net, n # m, n.op = "set", n.dev = m.dev PROVE FALSE
        BY <1>2 DEF NoSetTo
      <4>1. n.state = Op(r).state /\ n.req = r /\ n \in Messages
        BY <2>1, <2>5 DEF AloneOK, IInv, TypeOK, SystemOK
      <4>2. /\ n = [req |-> n.req, op |-> n.op, dev |-> n.dev, state |-> n.state]
            /\ m = [req |-> m.req, op |-> m.op, dev |-> m.dev, state |-> m.state]
        BY <1>3, <4>1 DEF Messages
      <4> QED
        BY <2>5, <3>1, <4>1, <4>2
    <3>3. ~At(r, "set", {"commit"}) /\ ~(inbox[r] # None /\ inbox[r].ok)
      <4>1. ~NoSetTo(m.dev)
        BY <2>5 DEF NoSetTo
      <4>2. inbox[r] # None => pc[r] = "wait"
        BY <2>1 DEF IInv, RequestOK
      <4> QED
        BY <2>1, <2>5, <4>1, <4>2 DEF AloneOK, At
    <3>4. inbox'[r] # None /\ inbox'[r].ok =>
            relay'[m.dev] = IF inbox'[r].state # None THEN inbox'[r].state ELSE Op(r).state
      <4>1. CASE inbox'[r] = inbox[r]
        BY <3>3, <4>1
      <4>2. CASE inbox'[r] = answer /\ ok
        <5>1. relay'[m.dev] # None
          BY <1>3, <1>4, NullAssumption
        <5>2. done => relay'[m.dev] = Op(r).state
          BY <1>4, <3>1
        <5>3. ~done => told
          BY <1>1, <2>5, <4>2
        <5> QED
          BY <1>5, <4>2, <5>1, <5>2, <5>3
      <4> QED
        BY <1>5, <1>6, <2>1, <4>1, <4>2
    <3> QED
      BY <1>2, <2>1, <2>2, <2>5, <3>2, <3>3, <3>4 DEF AloneOK, Active, At
  <2>6. CASE ~Active(r)
    BY <1>2, <2>1, <2>6 DEF AloneOK, Active
  <2> QED
    BY <2>4, <2>5, <2>6
<1> QED
  BY <1>2, <1>8, <1>9, <1>10, <1>11 DEF IInv

LEMMA DropMessageInv ==
  ASSUME IInv, NEW m \in net, DropMessage(m)
  PROVE  IInv'
<1>1. /\ net' = net \ {m}
      /\ UNCHANGED <<row, config, lock, relay, switched, job, todo, pc, seen, mine, entries, inbox,
                     outcome, alone>>
  BY DEF DropMessage, request
<1>2. TypeOK'
  BY <1>1 DEF IInv, TypeOK, SystemOK, StateOK
<1>3. ASSUME NEW r \in Requests PROVE RequestOK(r)'
  BY <1>1 DEF IInv, RequestOK, Active, Prepared, At, Op
<1>4. LocksHeld'
  BY <1>1 DEF IInv, LocksHeld, At, Op
<1>5. ASSUME NEW r \in alone PROVE AloneOK(r)'
  <2>1. AloneOK(r) /\ Present' = Present /\ Op(r)' = Op(r)
    BY <1>1 DEF IInv, Present, Op
  <2>2. Fresh(r) => Fresh(r)'
    BY <1>1 DEF Fresh
  <2>3. \A d : NoSetTo(d) => NoSetTo(d)'
    BY <1>1 DEF NoSetTo
  <2> QED
    BY <1>1, <2>1, <2>2, <2>3 DEF AloneOK, Active, At
<1> QED
  BY <1>1, <1>2, <1>3, <1>4, <1>5 DEF IInv

LEMMA SchedulerSwitchesInv ==
  ASSUME IInv, NEW d \in Devices, NEW state \in BOOLEAN, SchedulerSwitches(d, state)
  PROVE  IInv'
<1>1. /\ relay' = [relay EXCEPT ![d] = state]
      /\ switched' = switched \cup {[dev |-> d, state |-> state]} /\ alone' = {}
      /\ UNCHANGED <<row, config, lock, net, job, todo, pc, seen, mine, entries, inbox, outcome>>
  BY DEF SchedulerSwitches, request
<1>2. TypeOK'
  BY <1>1 DEF IInv, TypeOK, SystemOK, StateOK
<1>3. ASSUME NEW r \in Requests PROVE RequestOK(r)'
  BY <1>1 DEF IInv, RequestOK, Active, Prepared, At, Op
<1>4. LocksHeld'
  BY <1>1 DEF IInv, LocksHeld, At, Op
<1> QED
  BY <1>1, <1>2, <1>3, <1>4 DEF IInv

LEMMA UpdateDeviceStateInv ==
  ASSUME IInv, NEW s \in switched, UpdateDeviceState(s)
  PROVE  IInv'
<1>1. /\ lock[s.dev] = None /\ switched' = switched \ {s}
      /\ row' = IF row[s.dev] = None THEN row ELSE [row EXCEPT ![s.dev].state = s.state]
      /\ UNCHANGED <<config, lock, relay, net, job, todo, pc, seen, mine, entries, inbox, outcome,
                     alone>>
  BY DEF UpdateDeviceState, request
<1>2. alone = {}
  BY DEF IInv, AloneOK
<1>3. s.dev \in Devices /\ s.state \in BOOLEAN
  BY DEF IInv, TypeOK, SystemOK
<1>4. row' \in [Devices -> Row \cup {None}]
  <2>1. CASE row[s.dev] # None
    <3>1. [row[s.dev] EXCEPT !.state = s.state] \in Row
      BY <1>3, <2>1 DEF IInv, TypeOK, SystemOK, Row
    <3>2. row' = [row EXCEPT ![s.dev] = [row[s.dev] EXCEPT !.state = s.state]]
      BY <1>1, <2>1
    <3> QED
      BY <3>1, <3>2 DEF IInv, TypeOK, SystemOK
  <2> QED
    BY <1>1, <2>1 DEF IInv, TypeOK, SystemOK
<1>5. TypeOK'
  BY <1>1, <1>4 DEF IInv, TypeOK, SystemOK, StateOK
<1>6. ASSUME NEW r \in Requests PROVE RequestOK(r)'
  BY <1>1 DEF IInv, RequestOK, Active, Prepared, At, Op
<1>7. LocksHeld'
  BY <1>1 DEF IInv, LocksHeld, At, Op
<1> QED
  BY <1>1, <1>2, <1>5, <1>6, <1>7 DEF IInv

-----------------------------------------------------------------------------
(* A request begins. *)

\* What disable_scheduler_devices does with the devices it lists.
LEMMA DisableCallsAre ==
  ASSUME NEW n \in Nat, NEW order \in [1..n -> Devices], NEW x \in Row
  PROVE  /\ DisableCalls(order) \in Seq(Ops) /\ Len(DisableCalls(order)) = 2 * n
         /\ \A i \in 1..2 * n :
              LET call == DisableCalls(order)[i] IN
              \/ call.op = "set" /\ ~call.state
              \/ call.op = "update" /\ call.change = DisableChange
         /\ \A k \in 1..n : /\ 2 * k - 1 \in 1..2 * n
                            /\ DisableCalls(order)[2 * k - 1].op = "update"
                            /\ DisableCalls(order)[2 * k - 1].dev = order[k]
<1>1. Len(order) = n
  OBVIOUS
<1>2. DisableChange \in Changes
  <2> DEFINE new == [x EXCEPT !.mode = "MANUAL", !.sched = FALSE]
             cols == {"mode", "sched"}
  <2>1. new \in Row /\ new.mode = "MANUAL" /\ new.sched = FALSE
    BY DEF Row
  <2>2. new["mode"] = "MANUAL" /\ new["sched"] = FALSE
    BY <2>1, RowColumns
  <2> HIDE DEF new
  <2>3. DisableChange = [f \in cols |-> new[f]]
    <3>1. /\ DisableChange = [f \in {"mode", "sched"} |-> DisableChange[f]]
          /\ DisableChange["mode"] = "MANUAL" /\ DisableChange["sched"] = FALSE
      BY DEF DisableChange
    <3>2. \A f \in cols : DisableChange[f] = new[f]
      BY <2>2, <3>1
    <3> HIDE DEF DisableChange
    <3> QED
      BY <3>1, <3>2
  <2>4. cols \in SUBSET {"number", "mode", "sched", "state"}
    OBVIOUS
  <2> HIDE DEF cols
  <2> QED
    BY <2>1, <2>3, <2>4 DEF Changes
<1> DEFINE call(i) == LET d == order[(i + 1) \div 2] IN
                     IF i % 2 = 1
                     THEN [op |-> "update", dev |-> d, change |-> DisableChange]
                     ELSE [op |-> "set", dev |-> d, state |-> FALSE]
<1>3. DisableCalls(order) = [i \in 1..2 * n |-> call(i)]
  BY <1>1 DEF DisableCalls, DisableChange
<1>4. ASSUME NEW i \in 1..2 * n PROVE order[(i + 1) \div 2] \in Devices
  <2>1. (i + 1) \div 2 \in 1..n
    OBVIOUS
  <2> QED
    BY <2>1
<1>5. ASSUME NEW i \in 1..2 * n
      PROVE  /\ call(i) \in Ops
             /\ \/ call(i).op = "set" /\ ~call(i).state
                \/ call(i).op = "update" /\ call(i).change = DisableChange
  <2>1. CASE i % 2 = 1
    BY <1>2, <1>4, <2>1 DEF Ops
  <2>2. CASE i % 2 # 1
    BY <1>4, <2>2 DEF Ops
  <2> QED
    BY <2>1, <2>2
<1>6. ASSUME NEW k \in 1..n
      PROVE  2 * k - 1 \in 1..2 * n /\ call(2 * k - 1).op = "update" /\ call(2 * k - 1).dev = order[k]
  <2>1. 2 * k - 1 \in 1..2 * n /\ (2 * k - 1) % 2 = 1 /\ ((2 * k - 1) + 1) \div 2 = k
    OBVIOUS
  <2> QED
    BY <2>1
<1> HIDE DEF call
<1>7. DisableCalls(order) \in Seq(Ops) /\ Len(DisableCalls(order)) = 2 * n
  BY <1>3, <1>5
<1> QED
  BY <1>3, <1>5, <1>6, <1>7

LEMMA BeginInv ==
  ASSUME IInv, NEW r \in Requests, Begin(r)
  PROVE  IInv'
<1> DEFINE listed == {d \in Present : row[d].sched}
           listing == [rows |-> [d \in Devices |-> IF d \in listed THEN row[d] ELSE None],
                       config |-> config]
<1>1. PICK j \in Jobs[r], order \in [1..Cardinality(listed) -> listed] :
        /\ j.op = "disable" => listed # {}
        /\ InIdOrder(order, listed)
        /\ job' = [job EXCEPT ![r] = j.op]
        /\ todo' = [todo EXCEPT ![r] = IF j.op = "disable" THEN DisableCalls(order) ELSE <<j>>]
        /\ seen' = [seen EXCEPT ![r] = IF j.op = "disable" THEN listing ELSE seen[r]]
  BY DEF Begin
<1>2. /\ pc[r] = "idle" /\ pc' = [pc EXCEPT ![r] = "start"]
      /\ alone' = IF /\ net = {} /\ switched = {}
                     /\ \A q \in Requests : pc[q] \in {"idle", "done"}
                  THEN {r} ELSE {}
      /\ UNCHANGED <<row, config, lock, relay, net, switched, mine, entries, inbox, outcome>>
  BY DEF Begin
<1>3. \/ j.op = "disable"
      \/ j \in Ops /\ j.op \in {"set", "create", "delete", "update"}
  BY JobsAssumption DEF Ops
<1>4. listed \subseteq Devices /\ Cardinality(listed) \in Nat
  <2>1. listed \subseteq Devices
    BY DEF Present
  <2> QED
    BY <2>1, DevicesAssumption, FS_Subset, FS_CardinalityType
<1>5. order \in [1..Cardinality(listed) -> Devices]
  BY <1>1, <1>4
<1>6. j.op = "disable" =>
        /\ DisableCalls(order) \in Seq(Ops) /\ DisableCalls(order) # <<>>
        /\ \A i \in 1..Len(DisableCalls(order)) :
             \/ DisableCalls(order)[i].op = "set" /\ ~DisableCalls(order)[i].state
             \/ DisableCalls(order)[i].op = "update" /\ DisableCalls(order)[i].change = DisableChange
        /\ \A x \in listed : \E i \in 1..Len(DisableCalls(order)) :
             DisableCalls(order)[i].op = "update" /\ DisableCalls(order)[i].dev = x
  <2> SUFFICES ASSUME j.op = "disable"
               PROVE  /\ DisableCalls(order) \in Seq(Ops) /\ DisableCalls(order) # <<>>
                      /\ \A i \in 1..Len(DisableCalls(order)) :
                           \/ DisableCalls(order)[i].op = "set" /\ ~DisableCalls(order)[i].state
                           \/ /\ DisableCalls(order)[i].op = "update"
                              /\ DisableCalls(order)[i].change = DisableChange
                      /\ \A x \in listed : \E i \in 1..Len(DisableCalls(order)) :
                           DisableCalls(order)[i].op = "update" /\ DisableCalls(order)[i].dev = x
    OBVIOUS
  <2> DEFINE n == Cardinality(listed)
             calls == DisableCalls(order)
  <2>1. PICK d \in listed : TRUE
    BY <1>1
  <2>2. row[d] \in Row
    BY <2>1 DEF Present, IInv, TypeOK, SystemOK
  <2> HIDE DEF listed, n, calls
  <2>3. n \in Nat /\ order \in [1..n -> Devices]
    BY <1>4, <1>5 DEF n
  <2>4. /\ calls \in Seq(Ops) /\ Len(calls) = 2 * n
        /\ \A i \in 1..2 * n : (calls[i].op = "set" /\ ~calls[i].state)
                              \/ (calls[i].op = "update" /\ calls[i].change = DisableChange)
        /\ \A k \in 1..n : /\ 2 * k - 1 \in 1..2 * n
                           /\ calls[2 * k - 1].op = "update" /\ calls[2 * k - 1].dev = order[k]
    BY <2>2, <2>3, DisableCallsAre DEF calls
  <2>5. \A x \in listed : \E k \in 1..n : order[k] = x
    BY <1>1, <2>3 DEF InIdOrder
  <2>6. n # 0
    BY <2>1, <2>5
  <2>7. calls # <<>>
    BY <2>3, <2>4, <2>6, EmptySeq
  <2>8. \A x \in listed : \E i \in 1..Len(calls) : calls[i].op = "update" /\ calls[i].dev = x
    <3> SUFFICES ASSUME NEW x \in listed
                 PROVE  \E i \in 1..Len(calls) : calls[i].op = "update" /\ calls[i].dev = x
      OBVIOUS
    <3>1. PICK k \in 1..n : order[k] = x
      BY <2>5
    <3> QED
      BY <2>4, <3>1
  <2> QED
    BY <2>4, <2>7, <2>8 DEF calls
<1>7. ASSUME j.op # "disable" PROVE <<j>> \in Seq(Ops) /\ Len(<<j>>) = 1 /\ <<j>>[1] = j /\ <<j>> # <<>>
  BY <1>3, <1>7
<1> DEFINE calls == IF j.op = "disable" THEN DisableCalls(order) ELSE <<j>>
           session == IF j.op = "disable" THEN listing ELSE seen[r]
<1>8. calls \in Seq(Ops) /\ calls # <<>>
  BY <1>6, <1>7
<1>9. session \in Sessions
  <2>1. [d \in Devices |-> IF d \in listed THEN row[d] ELSE None] \in [Devices -> Row \cup {None}]
    BY DEF IInv, TypeOK, SystemOK
  <2>2. listing \in Sessions
    BY <2>1 DEF Sessions, IInv, TypeOK, SystemOK
  <2> QED
    BY <2>2 DEF IInv, TypeOK, StateOK
<1>10. /\ todo' = [todo EXCEPT ![r] = calls] /\ seen' = [seen EXCEPT ![r] = session]
  BY <1>1
<1>11. /\ j.op # "disable" => Len(calls) = 1 /\ calls[1] = j
       /\ j.op = "disable" => \A i \in 1..Len(calls) :
            \/ calls[i].op = "set" /\ ~calls[i].state
            \/ calls[i].op = "update" /\ calls[i].change = DisableChange
       /\ j.op = "disable" => \A x \in listed :
            \E i \in 1..Len(calls) : calls[i].op = "update" /\ calls[i].dev = x
  BY <1>6, <1>7
<1>12. session.config \in {None, config} /\ \A d \in Devices : session.rows[d] \in {None, row[d]}
  BY <1>2 DEF IInv, RequestOK, NothingSeen
<1> HIDE DEF calls, session
<1>13. /\ job'[r] = j.op /\ todo'[r] = calls /\ seen'[r] = session /\ pc'[r] = "start"
       /\ inbox'[r] = None
       /\ \A q \in Requests \ {r} : Same(q)
  BY <1>1, <1>2, <1>10 DEF IInv, TypeOK, StateOK, Same, RequestOK
<1>14. TypeOK'
  <2>1. SystemOK'
    BY <1>2 DEF IInv, TypeOK, SystemOK
  <2>2. job' \in [Requests -> {"set", "create", "delete", "update", "disable", None}]
    BY <1>1, <1>3 DEF IInv, TypeOK, StateOK
  <2>3. todo' \in [Requests -> Seq(Ops)]
    BY <1>8, <1>10 DEF IInv, TypeOK, StateOK
  <2>4. seen' \in [Requests -> Sessions]
    BY <1>9, <1>10 DEF IInv, TypeOK, StateOK
  <2>5. pc' \in [Requests -> Points]
    BY <1>2 DEF IInv, TypeOK, StateOK, Points
  <2>6. StateOK'
    BY <1>2, <2>2, <2>3, <2>4, <2>5 DEF IInv, TypeOK, StateOK
  <2> QED
    BY <2>1, <2>6 DEF TypeOK
<1>15. RequestOK(r)'
  BY <1>1, <1>8, <1>11, <1>13 DEF RequestOK, Active, Prepared, At
<1>16. \A q \in Requests : RequestOK(q)'
  BY <1>13, <1>15, SameOK DEF IInv
<1>17. LocksHeld'
  <2> SUFFICES ASSUME NEW d \in Devices, lock[d] # None
               PROVE  (At(lock[d], "update", {"wait", "commit"}) /\ Op(lock[d]).dev = d)'
    BY <1>2 DEF LocksHeld
  <2>1. lock[d] \in Requests /\ At(lock[d], "update", {"wait", "commit"}) /\ Op(lock[d]).dev = d
    BY DEF IInv, TypeOK, SystemOK, LocksHeld
  <2>2. Same(lock[d])
    BY <1>2, <1>13, <2>1 DEF At
  <2> QED
    BY <1>2, <2>1, <2>2 DEF Same, At, Op
<1>18. ASSUME alone' = {r}, net = {}, switched = {}, \A q \in Requests : pc[q] \in {"idle", "done"}
       PROVE  AloneOK(r)'
  <2>1. \A q \in Requests \ {r} : pc'[q] \in {"idle", "done"}
    BY <1>13, <1>18 DEF Same
  <2>2. switched' = {} /\ net' = {}
    BY <1>2, <1>18
  <2>3. Fresh(r)'
    BY <1>2, <1>12, <1>13 DEF Fresh
  <2>4. \A op : ~At(r, op, {"wait", "commit"})' /\ ~At(r, op, {"wait"})' /\ ~At(r, op, {"commit"})'
    BY <1>13 DEF At
  <2>5. job'[r] = "disable" => \A x \in Devices : row'[x] # None /\ row'[x].sched =>
          \E i \in 1..Len(todo'[r]) : todo'[r][i].op = "update" /\ todo'[r][i].dev = x
    BY <1>2, <1>11, <1>13 DEF Present
  <2> QED
    BY <2>1, <2>2, <2>3, <2>4, <2>5 DEF AloneOK
<1>19. \A a \in alone' : AloneOK(a)'
  BY <1>2, <1>18
<1> QED
  BY <1>14, <1>16, <1>17, <1>19 DEF IInv

LEMMA InitInv == Init => IInv
<1> SUFFICES ASSUME Init PROVE IInv
  OBVIOUS
<1> USE DEF Init
<1>1. config \subseteq Entry
  <2>1. ASSUME NEW d \in Existing PROVE EntryOf(d, row[d]) \in Entry
    <3> DEFINE new == [number |-> d, mode |-> "SCHEDULE", sched |-> TRUE, state |-> FALSE]
    <3>1. d \in Devices /\ d \in Numbers
      BY <2>1, DevicesAssumption
    <3>2. row[d] = new
      BY <2>1, <3>1
    <3>3. EntryOf(d, new) = [dev |-> d, pin |-> d, mode |-> "SCHEDULE", on |-> FALSE]
      BY DEF EntryOf
    <3>4. [dev |-> d, pin |-> d, mode |-> "SCHEDULE", on |-> FALSE] \in Entry
      BY <3>1 DEF Entry
    <3> QED
      BY <3>2, <3>3, <3>4
  <2>2. config = {EntryOf(d, row[d]) : d \in Existing}
    OBVIOUS
  <2> HIDE DEF Init
  <2> QED
    BY <2>1, <2>2
<1>2. SystemOK
  BY <1>1 DEF SystemOK
<1>3. StateOK
  <2>1. <<>> \in Seq(Ops)
    BY EmptySeq, Zenon
  <2> QED
    BY <2>1, NothingIsTyped DEF StateOK, Points
<1>4. \A r \in Requests : RequestOK(r)
  BY DEF RequestOK, Active
<1> QED
  BY <1>2, <1>3, <1>4 DEF IInv, TypeOK, LocksHeld

\* The lock of the microcontroller's row is all that may change.
Still == UNCHANGED <<row, config, lock, relay, net, switched, switches, request, alone>>

LEMMA StillInv ==
  ASSUME IInv, Still
  PROVE  IInv'
<1>1. UNCHANGED <<row, config, lock, relay, net, switched, job, todo, pc, seen, mine, entries,
                  inbox, outcome, alone>>
  BY DEF Still, request
<1>2. \A r \in Requests : RequestOK(r)'
  BY <1>1, SameOK DEF IInv, Same
<1>3. TypeOK' /\ LocksHeld'
  BY <1>1 DEF IInv, TypeOK, SystemOK, StateOK, LocksHeld, At, Op
<1>4. ASSUME NEW r \in alone PROVE AloneOK(r)'
  <2>1. AloneOK(r) /\ Present' = Present /\ Op(r)' = Op(r)
    BY <1>1 DEF IInv, Present, Op
  <2>2. (Fresh(r) => Fresh(r)') /\ \A d : NoSetTo(d) => NoSetTo(d)'
    BY <1>1 DEF Fresh, NoSetTo
  <2> QED
    BY <1>1, <2>1, <2>2 DEF AloneOK, Active, At
<1> QED
  BY <1>1, <1>2, <1>3, <1>4 DEF IInv

LEMMA LockConfigInv ==
  ASSUME IInv, NEW r \in Requests, LockConfig(r)
  PROVE  IInv'
BY StillInv DEF LockConfig, Still

LEMMA NextInv == IInv /\ [Next]_vars => IInv'
<1> SUFFICES ASSUME IInv, [Next]_vars PROVE IInv'
  OBVIOUS
<1>1. ASSUME NEW r \in Requests, Begin(r) PROVE IInv'
  BY <1>1, BeginInv
<1>2. ASSUME NEW r \in Requests, Proceed(r) PROVE IInv'
  BY <1>2, GivesUpInv, StartSetInv, StartCreateInv, StartDeleteInv, StartUpdateInv, FlushInv,
     TakeAckInv, LockConfigInv, CommitInv DEF Proceed
<1>3. ASSUME NEW m \in net, AgentHandles(m) \/ DropMessage(m) PROVE IInv'
  BY <1>3, AgentHandlesInv, DropMessageInv
<1>4. ASSUME NEW d \in Devices, NEW state \in BOOLEAN, SchedulerSwitches(d, state) PROVE IInv'
  BY <1>4, SchedulerSwitchesInv
<1>5. ASSUME NEW s \in switched, UpdateDeviceState(s) PROVE IInv'
  BY <1>5, UpdateDeviceStateInv
<1>6. CASE UNCHANGED vars
  <2>1. Still
    BY <1>6 DEF vars, request, Still
  <2> QED
    BY <2>1, StillInv
<1> QED
  BY <1>1, <1>2, <1>3, <1>4, <1>5, <1>6 DEF Next

-----------------------------------------------------------------------------
(* The invariant, and a call that nothing overlaps. *)

\* Every reachable state has typed columns, sessions and messages; a request
\* has prepared what its call needs before it waits, a locked row belongs to a
\* request that waits or commits, and a request that nothing has overlapped
\* knows the rows, the config and what the output it has set is.
THEOREM Invariance == Spec => []IInv
<1>1. Init => IInv
  BY InitInv
<1>2. IInv /\ [Next]_vars => IInv'
  BY NextInv
<1> QED
  BY <1>1, <1>2, PTL DEF Spec

LEMMA CommitIsExact ==
  ASSUME IInv, NEW r \in alone, Commit(r)
  PROVE  Exact(r)
<1> DEFINE d == Op(r).dev
           new == mine[r]
<1>1. /\ r \in Requests /\ AloneOK(r) /\ RequestOK(r)
      /\ config \in SUBSET Entry /\ seen[r] \in Sessions
  BY DEF IInv, TypeOK, SystemOK, StateOK
<1>2. /\ Active(r) /\ d \in Devices /\ row \in [Devices -> Row \cup {None}]
      /\ \A x \in Devices : row'[x] = IF x = d THEN CommittedRow(r) ELSE row[x]
      /\ pc[r] = "commit" /\ Prepared(r) /\ Fresh(r)
  BY <1>1, CommitIs DEF Commit, RequestOK, AloneOK
<1>3. Op(r).op # "delete" => row'[d] = new /\ new \in Row
  BY <1>1, <1>2, AloneCommitIs
<1>4. Op(r).op = "set" => row'[d].state = relay[d] /\ row'[d].mode = "MANUAL"
  BY <1>1, <1>2, <1>3 DEF AloneOK, At, Prepared
<1>5. ASSUME Op(r).op \in {"set", "create", "update"}
      PROVE  config' = {e \in config : e.dev # d /\ e.pin # new.number} \cup {EntryOf(d, new)}
  <2>1. seen[r].config = config /\ entries[r] = SyncedConfig(config, d, new)
    BY <1>2, <1>5 DEF Prepared, At, Fresh
  <2>2. entries[r] # None
    BY <1>1, <1>2, <1>3, <1>5, <2>1, SyncedIsConfig, NullAssumption
  <2>3. config' = IF entries[r] \in {None, seen[r].config} THEN config ELSE entries[r]
    BY DEF Commit, WritesConfig
  <2>4. config' = SyncedConfig(config, d, new)
    BY <2>1, <2>2, <2>3
  <2> QED
    BY <2>4 DEF SyncedConfig
<1>6. ASSUME Op(r).op = "create" PROVE Cardinality(Present') <= MaxDevices
  <2>1. Cardinality(Present) < MaxDevices
    BY <1>2, <1>6, <1>1 DEF AloneOK, At
  <2>2. Present \subseteq Devices /\ Present' \subseteq Present \cup {d}
    BY <1>2 DEF Present
  <2>3. IsFiniteSet(Present) /\ Cardinality(Present) \in Nat
    BY <2>2, DevicesAssumption, FS_Subset, FS_CardinalityType
  <2>4. /\ IsFiniteSet(Present \cup {d})
        /\ Cardinality(Present \cup {d}) \in {Cardinality(Present), Cardinality(Present) + 1}
    BY <2>3, FS_AddElement
  <2>5. /\ Cardinality(Present') \in Nat
        /\ Cardinality(Present') <= Cardinality(Present \cup {d})
    BY <2>2, <2>4, FS_Subset, FS_CardinalityType
  <2> QED
    BY <2>1, <2>3, <2>4, <2>5, DevicesAssumption
<1>7. ASSUME Op(r).op \in {"set", "create", "update"}
      PROVE  LET own(cfg) == {e \in cfg : e.dev = d} IN
             /\ own(config') = {EntryOf(d, row'[d])}
             /\ config' \ own(config') = {e \in config \ own(config) : e.pin # row'[d].number}
  <2>1. EntryOf(d, new).dev = d /\ row'[d] = new
    BY <1>3, <1>7 DEF EntryOf
  <2> HIDE DEF d, new
  <2> QED
    BY <1>5, <1>7, <2>1
<1> QED
  BY <1>4, <1>6, <1>7 DEF Exact

\* A call that nothing overlaps commits what the output, the row and the config
\* agree on, whatever failed before it: after the acknowledgement of a
\* set_manual_state the row holds what the output is, the device has the one
\* entry that equals its row, no other entry changes unless it has the same
\* pin, and a creation keeps max_devices (DeviceService).
THEOREM AloneExact == Spec => AloneIsExact
<1>1. IInv /\ [Next]_vars => [StepExact]_vars
  BY CommitIsExact DEF StepExact
<1>2. Spec => []IInv
  BY Invariance
<1>3. Spec => [][Next]_vars
  BY PTL DEF Spec
<1> QED
  BY <1>1, <1>2, <1>3, PTL DEF AloneIsExact

-----------------------------------------------------------------------------
(* Devices in SCHEDULE mode have a scheduler. *)

\* The calls of a request take devices from the scheduler, or leave them to it.
LEMMA UpdatesTake ==
  ASSUME NoneScheduled, IInv, NEW r \in Requests, Active(r), Op(r).op = "update"
  PROVE  Op(r).change \in Changes /\ Takes(Op(r).change)
<1>1. /\ Op(r) = todo[r][1] /\ Op(r).change \in Changes
      /\ todo[r] \in Seq(Ops) /\ Len(todo[r]) > 0
  BY OpIs DEF IInv, TypeOK, StateOK
<1>2. 1 \in 1..Len(todo[r])
  BY <1>1, LenProperties
<1>3. CASE job[r] # "disable"
  <2>1. Op(r) \in Jobs[r]
    BY <1>1, <1>3 DEF IInv, RequestOK
  <2> QED
    BY <1>1, <2>1 DEF NoneScheduled
<1>4. CASE job[r] = "disable"
  <2>1. Op(r).change = DisableChange
    BY <1>1, <1>2, <1>4 DEF IInv, RequestOK
  <2>2. Takes(DisableChange)
    <3>1. DOMAIN DisableChange = {"mode", "sched"} /\ DisableChange["mode"] = "MANUAL"
      BY DEF DisableChange
    <3> QED
      BY <3>1 DEF Takes
  <2> QED
    BY <1>1, <2>1, <2>2
<1> QED
  BY <1>3, <1>4

\* What a flush writes over the row as it is now.
LEMMA FlushKeeps ==
  ASSUME NEW now \in Row, NEW loaded \in Row, NEW change \in Changes, Takes(change),
         Kept(now), loaded.mode = "MANUAL" => now.mode = "MANUAL",
         Kept(Changed(loaded, change)),
         NEW new, new = Written(now, loaded, Changed(loaded, change))
  PROVE  Kept(new) /\ (new.mode = "SCHEDULE" => now.mode = "SCHEDULE")
<1> DEFINE wish == Changed(loaded, change)
<1>1. /\ wish \in Row
      /\ \A f \in Columns : wish[f] = IF f \in DOMAIN change THEN change[f] ELSE loaded[f]
  BY ChangedIs
<1> HIDE DEF wish
<1>2. /\ new \in Row
      /\ \A f \in Columns : new[f] = IF wish[f] = loaded[f] THEN now[f] ELSE wish[f]
  <2>1. \A current, old, x \in Row :
          /\ Written(current, old, x) \in Row
          /\ \A f \in Columns : Written(current, old, x)[f] =
               IF x[f] = old[f] THEN current[f] ELSE x[f]
    BY WrittenIs
  <2> QED
    BY <1>1, <2>1 DEF wish
<1>3. "mode" \in Columns /\ "sched" \in Columns
  BY DEF Columns
<1>4. /\ \A x \in {now, loaded, new, wish} :
           /\ x.mode = x["mode"] /\ x.sched = x["sched"]
           /\ x["mode"] \in {"MANUAL", "SCHEDULE"} /\ x["sched"] \in BOOLEAN
  BY <1>1, <1>2, RowColumns
<1>5. Kept(wish)
  BY DEF wish
<1>6. ASSUME new["mode"] = "SCHEDULE" PROVE now["mode"] = "SCHEDULE" /\ new["sched"] = TRUE
  <2>1. wish["mode"] = loaded["mode"] /\ now["mode"] = "SCHEDULE"
    BY <1>1, <1>2, <1>3, <1>6 DEF Takes
  <2>2. wish["mode"] = "SCHEDULE"
    BY <1>4, <2>1
  <2>3. now["sched"] = TRUE /\ wish["sched"] = TRUE
    BY <1>1, <1>4, <1>5, <2>1, <2>2, NullAssumption DEF Kept
  <2> QED
    BY <1>2, <1>3, <2>1, <2>3
<1> QED
  BY <1>4, <1>6 DEF Kept

\* A request that does not move keeps its part of the invariant.
LEMMA OthersKeep ==
  ASSUME IInv, ScheduleInv, NEW q \in Requests,
         todo'[q] = todo[q], pc'[q] = pc[q], seen'[q] = seen[q], mine'[q] = mine[q],
         \A x \in Devices :
           /\ row'[x] # None /\ row'[x].mode = "SCHEDULE" =>
                row[x] # None /\ row[x].mode = "SCHEDULE"
           /\ lock[x] = q => row'[x] = row[x]
           /\ lock'[x] = q <=> lock[x] = q
           /\ Active(q) /\ Op(q).op = "create" /\ Op(q).dev = x => row'[x] = row[x],
         TypeOK'
  PROVE  ScheduledOnly(q)'
<1>1. Op(q)' = Op(q) /\ (Active(q)' <=> Active(q)) /\ ScheduledOnly(q)
  BY DEF Op, Active, ScheduleInv
<1>2. \A x \in Devices : row'[x] # None => row'[x].mode \in {"MANUAL", "SCHEDULE"}
  BY DEF TypeOK, SystemOK, Row
<1>3. \A op, points : At(q, op, points)' <=> At(q, op, points)
  BY <1>1 DEF At
<1>4. Active(q) => Op(q).dev \in Devices
  BY OpIs
<1>5. \A x \in Devices : seen'[q].rows[x] # None /\ seen'[q].rows[x].mode = "MANUAL" /\ row'[x] # None
        => row'[x].mode = "MANUAL"
  BY <1>1, <1>2 DEF ScheduledOnly
<1>6. Active(q)' /\ Op(q)'.op = "create" => row'[Op(q)'.dev] = None
  BY <1>1, <1>4 DEF ScheduledOnly
<1>7. ASSUME At(q, "update", {"wait", "commit"})
      PROVE  LET d == Op(q).dev IN
             /\ Kept(mine'[q])
             /\ lock'[d] = q => row'[d] # None /\ (mine'[q].mode = "SCHEDULE" => row'[d].mode = "SCHEDULE")
             /\ lock'[d] # q /\ mine'[q].mode = "MANUAL" /\ row'[d] # None => row'[d].mode = "MANUAL"
  <2>1. Active(q) /\ Op(q).dev \in Devices
    BY <1>4, <1>7 DEF At, Active
  <2>2. Kept(mine[q])
    BY <1>1, <1>7 DEF ScheduledOnly
  <2>3. Kept(mine'[q])
    BY <2>2
  <2> QED
    BY <1>1, <1>2, <1>7, <2>1, <2>3 DEF ScheduledOnly
<1>8. (At(q, "update", {"wait", "commit"}) =>
        LET d == Op(q).dev IN
        /\ Kept(mine[q])
        /\ lock[d] = q => row[d] # None /\ (mine[q].mode = "SCHEDULE" => row[d].mode = "SCHEDULE")
        /\ lock[d] # q /\ mine[q].mode = "MANUAL" /\ row[d] # None => row[d].mode = "MANUAL")'
  BY <1>1, <1>3, <1>7
<1>9. (At(q, "update", {"flush"}) => Kept(mine[q]))'
  BY <1>1, <1>3 DEF ScheduledOnly
<1> QED
  BY <1>5, <1>6, <1>8, <1>9 DEF ScheduledOnly

\* A step of a request writes no row that another one has locked, puts none in
\* SCHEDULE mode, and makes a row only for its own new device.
LEMMA StepKeeps ==
  ASSUME IInv, ScheduleInv, TypeOK', NEW r \in Requests, Active(r),
         \A q \in Requests \ {r} : Same(q),
         \A x \in Devices :
           /\ Kept(row'[x])
           /\ row'[x] # None /\ row'[x].mode = "SCHEDULE" =>
                row[x] # None /\ row[x].mode = "SCHEDULE"
           /\ lock[x] \notin {None, r} => row'[x] = row[x]
           /\ row[x] = None /\ row'[x] # None => Op(r).op = "create" /\ Op(r).dev = x
           /\ (lock'[x] = lock[x]) \/ (lock[x] \in {None, r} /\ lock'[x] \in {None, r}),
         ScheduledOnly(r)'
  PROVE  ScheduleInv'
<1>1. ASSUME NEW q \in Requests \ {r} PROVE ScheduledOnly(q)'
  <2>1. /\ todo'[q] = todo[q] /\ pc'[q] = pc[q] /\ seen'[q] = seen[q] /\ mine'[q] = mine[q]
        /\ q # None /\ q # r
    BY <1>1, NullAssumption DEF Same
  <2>2. ASSUME NEW x \in Devices, Active(q), Op(q).op = "create", Op(q).dev = x
        PROVE  row'[x] = row[x]
    <3>1. row[x] = None
      BY <1>1, <2>2 DEF ScheduleInv, ScheduledOnly
    <3>2. ASSUME row'[x] # None PROVE FALSE
      <4>1. Op(r).op = "create" /\ Op(r).dev = x
        BY <3>1, <3>2
      <4>2. \A a \in {q, r} : Op(a) \in Jobs[a]
        <5>1. ASSUME NEW a \in Requests, Active(a), Op(a).op = "create" PROVE Op(a) \in Jobs[a]
          <6>1. /\ Op(a) = todo[a][1] /\ todo[a] \in Seq(Ops) /\ Len(todo[a]) > 0
            BY <5>1, OpIs DEF IInv, TypeOK, StateOK
          <6>2. 1 \in 1..Len(todo[a])
            BY <6>1, LenProperties
          <6> QED
            BY <5>1, <6>1, <6>2 DEF IInv, RequestOK
        <5> QED
          BY <1>1, <2>2, <4>1, <5>1
      <4> QED
        BY <1>1, <2>1, <2>2, <4>1, <4>2, NewIds
    <3> QED
      BY <3>1, <3>2
  <2> QED
    BY <2>1, <2>2, OthersKeep
<1> QED
  BY <1>1 DEF ScheduleInv

\* A step that leaves the rows alone.
LEMMA QuietKeeps ==
  ASSUME IInv, ScheduleInv, TypeOK', NEW r \in Requests, Active(r),
         \A q \in Requests \ {r} : Same(q), row' = row,
         \A x \in Devices : (lock'[x] = lock[x]) \/ (lock[x] \in {None, r} /\ lock'[x] \in {None, r}),
         ScheduledOnly(r)'
  PROVE  ScheduleInv'
BY StepKeeps DEF ScheduleInv

\* The call ends: the request is done, or goes on with what its session holds.
LEMMA EndsKeep ==
  ASSUME IInv, ScheduleInv, IInv', NEW r \in Requests, Active(r),
         NEW session \in Sessions,
         Continue(r, session) \/ (\E how \in {"ok", "raised"} : End(r, how)),
         \A x \in Devices : session.rows[x] # None /\ session.rows[x].mode = "MANUAL" /\ row'[x] # None
           => row'[x].mode = "MANUAL",
         \A x \in Devices :
           /\ Kept(row'[x])
           /\ row'[x] # None /\ row'[x].mode = "SCHEDULE" =>
                row[x] # None /\ row[x].mode = "SCHEDULE"
           /\ lock[x] \notin {None, r} => row'[x] = row[x]
           /\ row[x] = None /\ row'[x] # None => Op(r).op = "create" /\ Op(r).dev = x
  PROVE  ScheduleInv'
<1>1. /\ \A q \in Requests \ {r} : Same(q)
      /\ \A x \in Devices : (lock'[x] = lock[x]) \/ (lock[x] \in {None, r} /\ lock'[x] \in {None, r})
  BY DEF Continue, End, Release, Same, IInv, TypeOK, StateOK
<1>2. ScheduledOnly(r)'
  <2>1. CASE \E how \in {"ok", "raised"} : End(r, how)
    <3>1. pc'[r] = "done" /\ seen'[r].rows = [d \in Devices |-> None]
      BY <2>1 DEF End, IInv, TypeOK, StateOK, NothingSeen
    <3> QED
      BY <3>1 DEF ScheduledOnly, Active, At
  <2>2. CASE Len(todo[r]) # 1 /\ Continue(r, session)
    <3>1. pc'[r] = "start" /\ seen'[r] = session /\ job[r] = "disable" /\ job'[r] = job[r]
      BY <2>2 DEF Continue, IInv, TypeOK, StateOK, RequestOK
    <3>2. Active(r)'
      BY <3>1 DEF Active
    <3>3. Op(r)'.op # "create"
      <4>1. todo'[r] \in Seq(Ops) /\ todo'[r] # <<>>
        BY <3>2 DEF IInv, TypeOK, StateOK, RequestOK
      <4>2. Len(todo'[r]) > 0 /\ Op(r)' = todo'[r][1]
        BY <4>1 DEF Op
      <4>3. 1 \in 1..Len(todo'[r])
        BY <4>1, <4>2, LenProperties
      <4>4. \A i \in 1..Len(todo'[r]) : todo'[r][i].op \in {"set", "update"}
        BY <3>1, <3>2 DEF IInv, RequestOK
      <4> QED
        BY <4>2, <4>3, <4>4
    <3> QED
      BY <3>1, <3>3 DEF ScheduledOnly, Active, At
  <2> QED
    BY <2>1, <2>2 DEF Continue
<1> QED
  BY <1>1, <1>2, StepKeeps DEF IInv

LEMMA GivesUpKeeps ==
  ASSUME IInv, ScheduleInv, IInv', NEW r \in Requests,
         Refuse(r) \/ FlushStale(r) \/ Timeout(r) \/ TakeRejection(r) \/ CommitFails(r)
  PROVE  ScheduleInv'
<1>1. /\ Active(r) /\ row' = row
      /\ Fail(r) \/ End(r, "raised")
  BY DEF Active, Refuse, FlushStale, Timeout, TakeRejection, CommitFails
<1>2. Continue(r, NothingSeen) \/ \E how \in {"ok", "raised"} : End(r, how)
  BY <1>1 DEF Fail
<1>3. /\ NothingSeen \in Sessions
      /\ \A x \in Devices : NothingSeen.rows[x] = None
  BY NothingIsTyped DEF NothingSeen
<1>4. \A x \in Devices : Kept(row'[x])
  BY <1>1 DEF ScheduleInv
<1> QED
  BY <1>1, <1>2, <1>3, <1>4, EndsKeep

\* What StartSet and StartUpdate load.
LEMMA LoadKeeps ==
  ASSUME IInv, ScheduleInv, NEW r \in Requests, NEW d \in Devices, row[d] # None
  PROVE  \A x \in Devices : Load(r, d).rows[x] # None /\ Load(r, d).rows[x].mode = "MANUAL"
           /\ row[x] # None => row[x].mode = "MANUAL"
<1>1. ASSUME NEW x \in Devices PROVE Load(r, d).rows[x] \in {seen[r].rows[x], row[x]}
  BY LoadIs DEF SeenRow
<1> QED
  BY <1>1 DEF ScheduleInv, ScheduledOnly

LEMMA StartsKeep ==
  ASSUME IInv, ScheduleInv, IInv', NEW r \in Requests,
         StartSet(r) \/ StartCreate(r) \/ StartDelete(r) \/ StartUpdate(r)
  PROVE  ScheduleInv'
<1>1. /\ pc[r] = "start" /\ Active(r) /\ row' = row /\ lock' = lock /\ Op(r)' = Op(r)
      /\ \A q \in Requests \ {r} : Same(q)
  BY DEF StartSet, StartCreate, StartDelete, StartUpdate, Active, Same, Op, IInv, TypeOK, StateOK
<1>2. Op(r).dev \in Devices /\ ScheduledOnly(r)
  BY <1>1, OpIs DEF ScheduleInv
<1>3. /\ pc'[r] \in {"wait", "flush"}
      /\ Op(r).op = "update" => pc'[r] = "flush"
  BY DEF StartSet, StartCreate, StartDelete, StartUpdate, IInv, TypeOK, StateOK
<1>4. \A x \in Devices : seen'[r].rows[x] # None /\ seen'[r].rows[x].mode = "MANUAL" /\ row[x] # None
        => row[x].mode = "MANUAL"
  <2>1. CASE StartSet(r) \/ StartUpdate(r)
    <3>1. row[Op(r).dev] # None /\ seen'[r] = Load(r, Op(r).dev)
      BY <2>1 DEF StartSet, StartUpdate, Refused, IInv, TypeOK, StateOK
    <3> QED
      BY <1>2, <3>1, LoadKeeps
  <2>2. CASE StartCreate(r) \/ StartDelete(r)
    <3>1. seen'[r].rows = seen[r].rows
      <4>1. seen[r] \in Sessions /\ seen \in [Requests -> Sessions]
        BY DEF IInv, TypeOK, StateOK
      <4>2. seen' = seen \/ seen' = [seen EXCEPT ![r].config = config]
        BY <2>2 DEF StartCreate, StartDelete
      <4> QED
        BY <4>1, <4>2 DEF Sessions
    <3> QED
      BY <1>2, <3>1 DEF ScheduledOnly
  <2> QED
    BY <2>1, <2>2
<1>5. Op(r).op = "update" => Kept(mine'[r])
  <2> SUFFICES ASSUME StartUpdate(r) PROVE Kept(mine'[r])
    BY DEF StartSet, StartCreate, StartDelete
  <2> DEFINE new == Changed(SeenRow(r, Op(r).dev), Op(r).change)
  <2>1. mine'[r] = new /\ ~Unscheduled(new)
    BY DEF StartUpdate, Refused, IInv, TypeOK, StateOK
  <2> HIDE DEF new
  <2> QED
    BY <2>1 DEF Kept, Unscheduled
<1>6. ScheduledOnly(r)'
  BY <1>1, <1>2, <1>3, <1>4, <1>5 DEF ScheduledOnly, Active, At
<1> QED
  BY <1>1, <1>6, QuietKeeps DEF IInv

LEMMA WaitsKeep ==
  ASSUME NoneScheduled, IInv, ScheduleInv, IInv', NEW r \in Requests, Flush(r) \/ TakeAck(r)
  PROVE  ScheduleInv'
<1> DEFINE d == Op(r).dev
<1>1. /\ Active(r) /\ row' = row /\ Op(r)' = Op(r) /\ seen' = seen
      /\ \A q \in Requests \ {r} : Same(q)
  BY DEF Flush, TakeAck, Active, Same, Op, IInv, TypeOK, StateOK
<1>2. d \in Devices /\ ScheduledOnly(r) /\ RequestOK(r)
  BY <1>1, OpIs DEF ScheduleInv, IInv
<1>3. CASE Flush(r)
  <2> DEFINE loaded == seen[r].rows[d]
             wish == Changed(loaded, Op(r).change)
             new == Written(row[d], loaded, mine[r])
  <2>1. /\ pc[r] = "flush" /\ row[d] # None /\ pc'[r] = "wait"
        /\ mine[r] # loaded => lock[d] \in {None, r}
        /\ lock' = IF mine[r] # loaded THEN [lock EXCEPT ![d] = r] ELSE lock
        /\ mine'[r] = new
    BY <1>3 DEF Flush, Unlocked, IInv, TypeOK, StateOK
  <2>2. Op(r).op = "update" /\ loaded # None /\ mine[r] = wish
    BY <1>1, <1>2, <2>1 DEF RequestOK, Prepared, At
  <2> Kept(wish)
    BY <1>2, <2>1, <2>2 DEF ScheduledOnly, At
  <2>3. Op(r).change \in Changes /\ Takes(Op(r).change)
    BY <1>1, <2>2, UpdatesTake
  <2>4. row[d] \in Row /\ loaded \in Row
    BY <1>2, <2>1, <2>2 DEF IInv, TypeOK, SystemOK, StateOK, Sessions
  <2>5. Kept(row[d]) /\ (loaded.mode = "MANUAL" => row[d].mode = "MANUAL")
    BY <1>2, <2>1, <2>2 DEF ScheduleInv, ScheduledOnly
  <2>6. Kept(new) /\ (new.mode = "SCHEDULE" => row[d].mode = "SCHEDULE")
    <3>1. new = Written(row[d], loaded, wish)
      BY <2>2
    <3> HIDE DEF new, loaded
    <3> QED
      BY <2>3, <2>4, <2>5, <3>1, FlushKeeps
  <2>7. mine[r] = loaded => new = row[d]
    <3>1. \A current, old \in Row : Written(current, old, old) = current
      BY WrittenIs
    <3> QED
      BY <2>4, <3>1
  <2>8. \A x \in Devices : r # lock[x]
    BY <2>1, NotLocking DEF At
  <2>9. /\ lock'[d] = r => row[d] # None /\ (new.mode = "SCHEDULE" => row[d].mode = "SCHEDULE")
        /\ lock'[d] # r => new = row[d]
    <3>1. lock \in [Devices -> Requests \cup {None}]
      BY DEF IInv, TypeOK, SystemOK
    <3> HIDE DEF new, loaded
    <3> QED
      BY <1>2, <2>1, <2>6, <2>7, <3>1
  <2>10. ScheduledOnly(r)'
    <3>1. Kept(mine'[r])
      BY <2>1, <2>6
    <3> HIDE DEF new, loaded
    <3> QED
      BY <1>1, <1>2, <2>1, <2>2, <2>9, <3>1 DEF ScheduledOnly
  <2>11. \A x \in Devices : (lock'[x] = lock[x]) \/ (lock[x] \in {None, r} /\ lock'[x] \in {None, r})
    <3>1. lock \in [Devices -> Requests \cup {None}]
      BY DEF IInv, TypeOK, SystemOK
    <3> HIDE DEF new, loaded
    <3> QED
      BY <1>2, <2>1, <3>1
  <2> QED
    BY <1>1, <2>10, <2>11, QuietKeeps DEF IInv
<1>4. CASE TakeAck(r)
  <2>1. pc[r] = "wait" /\ pc'[r] = "commit" /\ lock' = lock /\ (Op(r).op = "update" => mine'[r] = mine[r])
    BY <1>4 DEF TakeAck, IInv, TypeOK, StateOK
  <2>2. At(r, "update", {"wait", "commit"})' => mine'[r] = mine[r] /\ At(r, "update", {"wait", "commit"})
    BY <1>1, <2>1 DEF At
  <2>3. (At(r, "update", {"wait", "commit"}) =>
           LET x == Op(r).dev IN
           /\ Kept(mine[r])
           /\ lock[x] = r => row[x] # None /\ (mine[r].mode = "SCHEDULE" => row[x].mode = "SCHEDULE")
           /\ lock[x] # r /\ mine[r].mode = "MANUAL" /\ row[x] # None => row[x].mode = "MANUAL")'
    BY <1>1, <1>2, <2>1, <2>2 DEF ScheduledOnly
  <2>4. ~At(r, "update", {"flush"})'
    BY <2>1 DEF At
  <2>5. ScheduledOnly(r)'
    BY <1>1, <1>2, <2>3, <2>4 DEF ScheduledOnly
  <2> QED
    BY <1>1, <2>1, <2>5, QuietKeeps DEF IInv
<1> QED
  BY <1>3, <1>4

LEMMA CommitKeeps ==
  ASSUME IInv, ScheduleInv, IInv', NEW r \in Requests, Commit(r)
  PROVE  ScheduleInv'
<1> DEFINE d == Op(r).dev
           session == NextSession(r)
           new == CommittedRow(r)
<1>1. /\ Active(r) /\ d \in Devices /\ ScheduledOnly(r)
      /\ Op(r).op \in {"set", "create", "delete", "update"} /\ pc[r] = "commit"
      /\ \A x \in Devices : row'[x] = IF x = d THEN new ELSE row[x]
      /\ row \in [Devices -> Row \cup {None}]
  BY CommitIs DEF Commit, ScheduleInv
<1>2. Kept(new) /\ (new # None /\ new.mode = "SCHEDULE" => row[d] # None /\ row[d].mode = "SCHEDULE")
      /\ (mine[r] # None /\ mine[r].mode = "MANUAL" /\ new # None => new.mode = "MANUAL")
  <2>1. CASE Op(r).op = "delete"
    BY <2>1, CommitIs DEF Kept
  <2>2. CASE Op(r).op = "create"
    <3>1. new = mine[r] /\ mine[r].mode = "MANUAL"
      <4>1. Prepared(r)
        BY <1>1 DEF IInv, RequestOK
      <4> QED
        BY <1>1, <2>2, <4>1, CommitIs DEF Prepared, At
    <3> QED
      BY <3>1 DEF Kept
  <2>3. CASE Op(r).op = "update"
    <3>1. new = (IF lock[d] = r THEN mine[r] ELSE row[d]) /\ mine[r] \in Row /\ row[d] \in Row
      BY <2>3, CommitIs
    <3>2. Kept(row[d]) /\ row[d] # None /\ Kept(mine[r])
      BY <1>1, <2>3, <3>1, NullAssumption DEF ScheduleInv, ScheduledOnly, At
    <3>3. /\ lock[d] = r => (mine[r].mode = "SCHEDULE" => row[d].mode = "SCHEDULE")
          /\ lock[d] # r /\ mine[r].mode = "MANUAL" => row[d].mode = "MANUAL"
      BY <1>1, <2>3, <3>2 DEF ScheduledOnly, At
    <3> QED
      BY <3>1, <3>2, <3>3
  <2>4. CASE Op(r).op = "set"
    <3>1. /\ new = Written(row[d], seen[r].rows[d], mine[r])
          /\ mine[r] \in Row /\ row[d] \in Row /\ seen[r].rows[d] \in Row
          /\ mine[r].mode = "MANUAL"
      BY <2>4, CommitIs
    <3>2. seen[r].rows[d].mode = "MANUAL" => row[d].mode = "MANUAL"
      BY <1>1, <3>1, NullAssumption DEF ScheduledOnly
    <3>3. /\ new \in Row
          /\ \A f \in Columns : new[f] = IF mine[r][f] = seen[r].rows[d][f] THEN row[d][f] ELSE mine[r][f]
      <4>1. \A current, old, x \in Row :
              /\ Written(current, old, x) \in Row
              /\ \A f \in Columns : Written(current, old, x)[f] =
                   IF x[f] = old[f] THEN current[f] ELSE x[f]
        BY WrittenIs
      <4> HIDE DEF new
      <4> QED
        BY <3>1, <4>1
    <3>4. "mode" \in Columns
      BY DEF Columns
    <3>5. new.mode = "MANUAL"
      <4>1. \A x \in Row : x.mode = x["mode"]
        BY RowColumns
      <4> HIDE DEF new
      <4> QED
        BY <3>1, <3>2, <3>3, <3>4, <4>1
    <3> QED
      BY <3>5 DEF Kept
  <2> QED
    BY <1>1, <2>1, <2>2, <2>3, <2>4
<1>3. Continue(r, session)
  BY DEF Commit, NextSession
<1>4. /\ session \in Sessions /\ session.rows[d] = mine[r]
      /\ \A x \in Devices : x # d => session.rows[x] = seen[r].rows[x]
  BY <1>1, CommitSession
<1>5. \A x \in Devices : session.rows[x] # None /\ session.rows[x].mode = "MANUAL" /\ row'[x] # None
        => row'[x].mode = "MANUAL"
  <2> HIDE DEF session, new
  <2> QED
    BY <1>1, <1>2, <1>4 DEF ScheduledOnly
<1>6. /\ lock[d] \notin {None, r} => row'[d] = row[d]
      /\ row[d] = None /\ row'[d] # None => Op(r).op = "create"
  <2>1. CASE Op(r).op = "create"
    <3>1. row[d] = None
      BY <1>1, <2>1 DEF ScheduledOnly
    <3>2. ASSUME lock[d] \notin {None, r} PROVE FALSE
      <4>1. lock[d] \in Requests /\ At(lock[d], "update", {"wait", "commit"}) /\ Op(lock[d]).dev = d
        BY <1>1, <3>2 DEF IInv, LocksHeld, TypeOK, SystemOK
      <4>2. ScheduledOnly(lock[d])
        BY <4>1 DEF ScheduleInv
      <4> QED
        BY <3>1, <4>1, <4>2 DEF ScheduledOnly
    <3> QED
      BY <2>1, <3>2
  <2>2. CASE Op(r).op \in {"set", "delete"}
    <3>1. lock[d] \in {None, r}
      BY <2>2 DEF Commit, HasRows, NeedsLock, Unlocked
    <3>2. Op(r).op = "set" => row[d] \in Row
      BY CommitIs
    <3>3. Op(r).op = "delete" => row'[d] = None
      BY <1>1, CommitIs
    <3> QED
      BY <2>2, <3>1, <3>2, <3>3, NullAssumption
  <2>3. CASE Op(r).op = "update"
    <3>1. new = (IF lock[d] = r THEN mine[r] ELSE row[d]) /\ row[d] \in Row
      BY <2>3, CommitIs
    <3> QED
      BY <1>1, <3>1, NullAssumption
  <2> QED
    BY <1>1, <2>1, <2>2, <2>3
<1>7. \A x \in Devices :
        /\ Kept(row'[x])
        /\ row'[x] # None /\ row'[x].mode = "SCHEDULE" => row[x] # None /\ row[x].mode = "SCHEDULE"
        /\ lock[x] \notin {None, r} => row'[x] = row[x]
        /\ row[x] = None /\ row'[x] # None => Op(r).op = "create" /\ Op(r).dev = x
  <2> HIDE DEF session, new
  <2> QED
    BY <1>1, <1>2, <1>6 DEF ScheduleInv
<1> HIDE DEF session
<1> QED
  BY <1>1, <1>3, <1>4, <1>5, <1>7, EndsKeep

LEMMA BeginKeeps ==
  ASSUME IInv, ScheduleInv, IInv', NEW r \in Requests, Begin(r)
  PROVE  ScheduleInv'
<1> DEFINE listed == {d \in Present : row[d].sched}
           listing == [rows |-> [d \in Devices |-> IF d \in listed THEN row[d] ELSE None],
                       config |-> config]
<1>1. PICK j \in Jobs[r], order \in [1..Cardinality(listed) -> listed] :
        /\ j.op = "create" => row[j.dev] = None
        /\ job' = [job EXCEPT ![r] = j.op]
        /\ todo' = [todo EXCEPT ![r] = IF j.op = "disable" THEN DisableCalls(order) ELSE <<j>>]
        /\ seen' = [seen EXCEPT ![r] = IF j.op = "disable" THEN listing ELSE seen[r]]
  BY DEF Begin
<1>2. /\ pc[r] = "idle" /\ pc' = [pc EXCEPT ![r] = "start"]
      /\ UNCHANGED <<row, lock, mine>>
  BY DEF Begin
<1>3. /\ pc'[r] = "start" /\ job'[r] = j.op
      /\ todo'[r] = IF j.op = "disable" THEN DisableCalls(order) ELSE <<j>>
      /\ seen'[r] = IF j.op = "disable" THEN listing ELSE seen[r]
      /\ \A q \in Requests \ {r} : /\ todo'[q] = todo[q] /\ pc'[q] = pc[q]
                                  /\ seen'[q] = seen[q] /\ mine'[q] = mine[q]
  BY <1>1, <1>2 DEF IInv, TypeOK, StateOK
<1>4. \A q \in Requests \ {r} : ScheduledOnly(q)'
  <2>1. TypeOK' /\ row' = row /\ lock' = lock
    BY <1>2 DEF IInv
  <2> QED
    BY <1>3, <2>1, OthersKeep
<1>5. \A x \in Devices : seen'[r].rows[x] # None /\ seen'[r].rows[x].mode = "MANUAL" /\ row[x] # None
        => row[x].mode = "MANUAL"
  BY <1>3 DEF ScheduleInv, ScheduledOnly
<1>6. Active(r)' /\ Op(r)'.op = "create" => row[Op(r)'.dev] = None
  <2>1. CASE j.op = "disable"
    <3>1. Active(r)'
      BY <1>3 DEF Active
    <3>2. todo'[r] \in Seq(Ops) /\ todo'[r] # <<>>
      BY <3>1 DEF IInv, TypeOK, StateOK, RequestOK
    <3>3. Len(todo'[r]) > 0 /\ Op(r)' = todo'[r][1]
      BY <3>2 DEF Op
    <3>4. 1 \in 1..Len(todo'[r])
      BY <3>2, <3>3, LenProperties
    <3>5. \A i \in 1..Len(todo'[r]) : todo'[r][i].op \in {"set", "update"}
      BY <1>3, <2>1, <3>1 DEF IInv, RequestOK
    <3> QED
      BY <3>3, <3>4, <3>5
  <2>2. CASE j.op # "disable"
    <3>1. Op(r)' = j
      BY <1>3, <2>2 DEF Op
    <3> QED
      BY <1>1, <3>1
  <2> QED
    BY <2>1, <2>2
<1>7. ScheduledOnly(r)'
  BY <1>2, <1>3, <1>5, <1>6 DEF ScheduledOnly, At
<1>8. \A x \in Devices : Kept(row'[x])
  BY <1>2 DEF ScheduleInv
<1> QED
  BY <1>4, <1>7, <1>8 DEF ScheduleInv

\* The agent and the scheduler change no mode and no scheduler.
LEMMA OutsideKeeps ==
  ASSUME IInv, ScheduleInv, TypeOK',
         UNCHANGED <<lock, todo, pc, seen, mine>>,
         \A x \in Devices : \/ row'[x] = row[x]
                            \/ /\ lock[x] = None /\ row[x] # None
                               /\ row'[x].mode = row[x].mode /\ row'[x].sched = row[x].sched
  PROVE  ScheduleInv'
<1>1. \A x \in Devices : /\ Kept(row'[x])
                         /\ row'[x] # None /\ row'[x].mode = "SCHEDULE" =>
                              row[x] # None /\ row[x].mode = "SCHEDULE"
  BY DEF ScheduleInv, Kept
<1>2. ASSUME NEW q \in Requests PROVE ScheduledOnly(q)'
  <2>1. \A x \in Devices : /\ lock[x] = q => row'[x] = row[x]
                           /\ lock'[x] = q <=> lock[x] = q
    BY NullAssumption
  <2>2. \A x \in Devices : Active(q) /\ Op(q).op = "create" /\ Op(q).dev = x => row'[x] = row[x]
    BY DEF ScheduleInv, ScheduledOnly
  <2> QED
    BY <1>1, <2>1, <2>2, OthersKeep
<1> QED
  BY <1>1, <1>2 DEF ScheduleInv

LEMMA ScheduleNext ==
  ASSUME NoneScheduled, IInv, ScheduleInv, IInv', [Next]_vars
  PROVE  ScheduleInv'
<1>1. ASSUME NEW r \in Requests, Begin(r) PROVE ScheduleInv'
  BY <1>1, BeginKeeps
<1>2. ASSUME NEW r \in Requests, Proceed(r) PROVE ScheduleInv'
  <2>1. CASE LockConfig(r)
    <3>1. UNCHANGED <<row, lock, todo, pc, seen, mine>>
      BY <2>1 DEF LockConfig, request
    <3> QED
      BY <3>1, OutsideKeeps DEF IInv
  <2> QED
    BY <1>2, <2>1, GivesUpKeeps, StartsKeep, WaitsKeep, CommitKeeps DEF Proceed
<1>3. ASSUME NEW m \in net, AgentHandles(m) \/ DropMessage(m) PROVE ScheduleInv'
  <2>1. UNCHANGED <<row, lock, todo, pc, seen, mine>>
    BY <1>3 DEF AgentHandles, DropMessage, request
  <2> QED
    BY <2>1, OutsideKeeps DEF IInv
<1>4. ASSUME NEW d \in Devices, NEW state \in BOOLEAN, SchedulerSwitches(d, state)
      PROVE  ScheduleInv'
  <2>1. UNCHANGED <<row, lock, todo, pc, seen, mine>>
    BY <1>4 DEF SchedulerSwitches, request
  <2> QED
    BY <2>1, OutsideKeeps DEF IInv
<1>5. ASSUME NEW s \in switched, UpdateDeviceState(s) PROVE ScheduleInv'
  <2>1. /\ UNCHANGED <<lock, todo, pc, seen, mine>> /\ lock[s.dev] = None
        /\ row' = IF row[s.dev] = None THEN row ELSE [row EXCEPT ![s.dev].state = s.state]
    BY <1>5 DEF UpdateDeviceState, request
  <2>2. s.dev \in Devices /\ row \in [Devices -> Row \cup {None}]
    BY DEF IInv, TypeOK, SystemOK
  <2>3. \A x \in Devices : \/ row'[x] = row[x]
                           \/ /\ lock[x] = None /\ row[x] # None
                              /\ row'[x].mode = row[x].mode /\ row'[x].sched = row[x].sched
    <3>1. CASE row[s.dev] # None
      <4>1. row[s.dev] \in Row
        BY <2>2, <3>1
      <4>2. /\ row'[s.dev] = [row[s.dev] EXCEPT !.state = s.state]
            /\ \A x \in Devices : x # s.dev => row'[x] = row[x]
        BY <2>1, <2>2, <3>1
      <4> QED
        BY <2>1, <3>1, <4>1, <4>2 DEF Row
    <3> QED
      BY <2>1, <3>1
  <2> QED
    BY <2>1, <2>3, OutsideKeeps DEF IInv
<1>6. CASE UNCHANGED vars
  <2>1. UNCHANGED <<row, lock, todo, pc, seen, mine>>
    BY <1>6 DEF vars, request
  <2> QED
    BY <2>1, OutsideKeeps DEF IInv
<1> QED
  BY <1>1, <1>2, <1>3, <1>4, <1>5, <1>6 DEF Next

LEMMA ScheduleInit == Init => ScheduleInv
<1> SUFFICES ASSUME Init PROVE ScheduleInv
  OBVIOUS
<1>1. \A d \in Devices :
        row[d] = IF d \in Existing
                 THEN [number |-> d, mode |-> "SCHEDULE", sched |-> TRUE, state |-> FALSE]
                 ELSE None
  BY DEF Init
<1>2. ASSUME NEW d \in Devices PROVE Kept(row[d])
  <2>1. CASE d \in Existing
    <3> DEFINE new == [number |-> d, mode |-> "SCHEDULE", sched |-> TRUE, state |-> FALSE]
    <3>1. row[d] = new
      BY <1>1, <2>1
    <3>2. new.sched
      OBVIOUS
    <3> HIDE DEF new
    <3> QED
      BY <3>1, <3>2 DEF Kept
  <2>2. CASE d \notin Existing
    BY <1>1, <2>2 DEF Kept
  <2> QED
    BY <2>1, <2>2
<1>3. \A r \in Requests : pc[r] = "idle" /\ \A x \in Devices : seen[r].rows[x] = None
  BY DEF Init, NothingSeen
<1> QED
  BY <1>2, <1>3 DEF ScheduleInv, ScheduledOnly, Active, At

-----------------------------------------------------------------------------
(* disable_scheduler_devices. *)

\* The last call of the request ends: no device is listed any more.
LEMMA LastCallDisables ==
  ASSUME IInv, [Next]_vars, NEW r \in alone,
         pc[r] # "done", pc'[r] = "done", job[r] = "disable", outcome'[r] = "ok"
  PROVE  \A d \in Devices : row'[d] # None => ~row'[d].sched
<1>1. /\ r \in Requests /\ AloneOK(r) /\ RequestOK(r)
      /\ pc \in [Requests -> Points] /\ outcome \in [Requests -> {"ok", "raised", None}]
      /\ row \in [Devices -> Row \cup {None}]
  BY DEF IInv, TypeOK, SystemOK, StateOK
<1>2. Proceed(r)
  <2>1. ASSUME NEW q \in Requests, Begin(q) PROVE pc'[r] # "done"
    BY <1>1, <2>1 DEF Begin
  <2>2. ASSUME NEW m \in net, AgentHandles(m) \/ DropMessage(m) PROVE pc' = pc
    BY <2>2 DEF AgentHandles, DropMessage, request
  <2>3. ASSUME NEW d \in Devices, NEW state \in BOOLEAN, SchedulerSwitches(d, state) PROVE pc' = pc
    BY <2>3 DEF SchedulerSwitches, request
  <2>4. ASSUME NEW s \in switched, UpdateDeviceState(s) PROVE pc' = pc
    BY <2>4 DEF UpdateDeviceState, request
  <2>5. ASSUME NEW q \in Requests \ {r}, Proceed(q) PROVE pc'[r] = pc[r]
    BY <1>1, <2>5
    DEF Proceed, Refuse, StartSet, StartCreate, StartDelete, StartUpdate, Flush, FlushStale, Timeout,
        TakeAck, TakeRejection, LockConfig, request, Commit, CommitFails, Fail, Continue, End
  <2> QED
    BY <1>1, <2>1, <2>2, <2>3, <2>4, <2>5 DEF Next, vars, request
<1>3. /\ Active(r) /\ Len(todo[r]) = 1
      /\ \/ Op(r).op = "set" /\ row' = row
         \/ Commit(r)
  <2>1. \A how : End(r, how) => outcome'[r] = how
    BY <1>1 DEF End
  <2>2. ~Refuse(r) /\ ~FlushStale(r) /\ ~CommitFails(r)
    BY <2>1 DEF Refuse, FlushStale, CommitFails
  <2>3. ~StartSet(r) /\ ~StartCreate(r) /\ ~StartDelete(r) /\ ~StartUpdate(r) /\ ~Flush(r) /\ ~TakeAck(r)
        /\ ~LockConfig(r)
    BY <1>1 DEF StartSet, StartCreate, StartDelete, StartUpdate, Flush, TakeAck, LockConfig, request
  <2>4. \A session : Continue(r, session) => Len(todo[r]) = 1
    BY <1>1 DEF Continue
  <2>5. CASE Timeout(r) \/ TakeRejection(r)
    <3>1. Fail(r) /\ row' = row /\ pc[r] = "wait"
      BY <2>5 DEF Timeout, TakeRejection
    <3>2. Op(r).op = "set" /\ Continue(r, NothingSeen)
      BY <2>1, <3>1 DEF Fail
    <3> QED
      BY <2>4, <3>1, <3>2 DEF Active
  <2>6. CASE Commit(r)
    BY <2>4, <2>6 DEF Commit, Active
  <2> QED
    BY <1>2, <2>2, <2>3, <2>5, <2>6 DEF Proceed
<1>4. \A x \in Devices : row[x] # None /\ row[x].sched => Op(r).op = "update" /\ Op(r).dev = x
  <2>1. Op(r) = todo[r][1] /\ todo[r] \in Seq(Ops)
    BY <1>1, <1>3, OpIs DEF IInv, TypeOK, StateOK
  <2> QED
    BY <1>1, <1>3, <2>1 DEF AloneOK
<1>5. CASE Op(r).op = "set" /\ row' = row
  BY <1>4, <1>5
<1>6. CASE Commit(r)
  <2> DEFINE d == Op(r).dev
  <2>1. Op(r).op \in {"set", "update"}
    <3>1. Op(r) = todo[r][1] /\ 1 \in 1..Len(todo[r])
      BY <1>1, <1>3, OpIs
    <3> QED
      BY <1>1, <1>3, <3>1 DEF RequestOK
  <2>2. /\ \A x \in Devices : row'[x] = IF x = d THEN mine[r] ELSE row[x]
        /\ mine[r] \in Row /\ d \in Devices
    BY <1>1, <1>6, <2>1, CommitIs, AloneCommitIs
  <2>3. Op(r).op = "update" => mine[r].sched = FALSE
    BY <1>1, <1>3, <1>6 DEF AloneOK, At, Commit
  <2>4. Op(r).op = "set" => ~mine[r].sched
    <3> SUFFICES ASSUME Op(r).op = "set" PROVE ~mine[r].sched
      OBVIOUS
    <3>1. /\ row[d] \in Row /\ seen[r].rows[d] \in Row
          /\ mine[r].sched = seen[r].rows[d].sched
      BY <1>1, <1>6, CommitIs
    <3>2. seen[r].rows[d] = row[d]
      BY <1>1, <1>3, <2>2, <3>1, NullAssumption DEF AloneOK, Fresh
    <3>3. ~row[d].sched
      BY <1>4, <2>2, <3>1, NullAssumption
    <3> QED
      BY <3>1, <3>2, <3>3
  <2> HIDE DEF d
  <2>5. d = Op(r).dev
    BY DEF d
  <2> QED
    BY <1>4, <2>1, <2>2, <2>3, <2>4, <2>5
<1> QED
  BY <1>3, <1>5, <1>6

\* disable_scheduler_devices that nothing overlaps and that does not raise
\* leaves no device to the scheduler, whatever the requests before it did.
NoneListed ==
  \A r \in alone :
    pc[r] # "done" /\ pc'[r] = "done" /\ job[r] = "disable" /\ outcome'[r] = "ok"
      => \A d \in Present' : ~row'[d].sched

THEOREM AloneUnschedules == Spec => [][NoneListed]_vars
<1>1. IInv /\ [Next]_vars => [NoneListed]_vars
  BY LastCallDisables DEF NoneListed, Present
<1>2. Spec => []IInv
  BY Invariance
<1>3. Spec => [][Next]_vars
  BY PTL DEF Spec
<1> QED
  BY <1>1, <1>2, <1>3, PTL

\* If no update asks for SCHEDULE mode, every device is in MANUAL mode then too
\* (disable_scheduler_devices).  Otherwise an update that sets the mode and one
\* that removes the scheduler, each of columns of its own, can leave a device
\* in SCHEDULE mode where no list for a scheduler finds it.
THEOREM AloneDisable == ASSUME NoneScheduled PROVE Spec => AloneDisables
<1>1. IInv /\ ScheduleInv /\ IInv' /\ [Next]_vars => ScheduleInv'
  BY ScheduleNext
<1>2. IInv /\ ScheduleInv' /\ IInv' /\ [Next]_vars => [StepDisables]_vars
  <2> SUFFICES ASSUME IInv, ScheduleInv', IInv', [Next]_vars, NEW r \in alone,
                      pc[r] # "done", pc'[r] = "done", job[r] = "disable", outcome'[r] = "ok",
                      NEW d \in Present'
               PROVE  ~row'[d].sched /\ row'[d].mode = "MANUAL"
    BY DEF StepDisables
  <2>1. d \in Devices /\ row'[d] # None /\ ~row'[d].sched
    BY LastCallDisables DEF Present
  <2>2. Kept(row'[d]) /\ row'[d] \in Row
    BY <2>1 DEF ScheduleInv, IInv, TypeOK, SystemOK
  <2> QED
    BY <2>1, <2>2 DEF Kept, Row
<1>3. Init => ScheduleInv
  BY ScheduleInit
<1>4. Spec => []IInv
  BY Invariance
<1> QED
  BY <1>1, <1>2, <1>3, <1>4, PTL DEF AloneDisables, Spec
=============================================================================

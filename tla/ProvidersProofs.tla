---------------------------- MODULE ProvidersProofs ----------------------------
(***************************************************************************)
(* Providers: their rules and the agreement of an attachment, for every    *)
(* set of providers, devices and concurrent requests (PowerProviders); the *)
(* capabilities of a provider that is polled and the time that a device is *)
(* reported to have been on (History).                                     *)
(***************************************************************************)
EXTENDS PowerProviders, History, FiniteSetTheorems, NaturalsInduction, TLAPS

Commands == [next : Providers \cup {None}, payload : Payload \cup {None}]

\* What else has a type, and that of the calls in progress.
Shape ==
  /\ TypeOK
  /\ unused \subseteq Providers
  /\ slots \in BOOLEAN
  /\ net \subseteq Commands
  /\ call \in [Calls -> AttachCall \cup DeviceCall \cup {None}]

\* A call that nothing has overlapped is the only one, and no edit was made
\* since: what it checked and what it prepared are still true.
ChecksStillHold ==
  \A c \in alone :
    /\ c \in Calls /\ alone = {c} /\ call[c] # None
    /\ \A b \in Calls \ {c} : call[b] = None
    /\ call[c].op = "attach" =>
         /\ call[c].next # None =>
              /\ Exists(call[c].next)
              /\ HasStorage(call[c].next) \/ \A d \in Devices : ~UsesBattery(device[d])
         /\ call[c].payload = PayloadOf(call[c].next)
    /\ call[c].op = "device" =>
         /\ call[c].row.mode = "AUTO_POWER" => attached # None
         /\ UsesBattery(call[c].row) => HasStorage(attached)

\* The agent has its command at most, and has the provider it has accepted.
AgentStillAgrees ==
  \A c \in alone : call[c].op = "attach" =>
    /\ net \subseteq {[next |-> call[c].next, payload |-> call[c].payload]}
    /\ call[c].ack # None => net = {} /\ (call[c].ack.ok => agent = call[c].next)

IInv == Shape /\ ChecksStillHold /\ AgentStillAgrees

-----------------------------------------------------------------------------
LEMMA PayloadIsTyped ==
  ASSUME Shape, NEW p \in Providers \cup {None}, p # None => Exists(p)
  PROVE  PayloadOf(p) \in Payload \cup {None}
BY DEF Shape, TypeOK, PayloadOf, Payload, Exists, Row

LEMMA InitInv == Init => IInv
<1> SUFFICES ASSUME Init PROVE IInv
  OBVIOUS
<1> USE DEF Init
<1>1. (CHOOSE u \in Units : TRUE) \in Units
  BY ProvidersAssumption
<1>2. /\ provider \in [Providers -> Row \cup {None}]
      /\ \A p \in Inherited : provider[p] \in Row
      /\ unused \subseteq Providers /\ \A p \in unused : provider[p] = None
  BY <1>1, ProvidersAssumption DEF Row
<1>3. attached # None => attached \in Inherited /\ attached \in Providers /\ Exists(attached)
  BY <1>2, NullAssumption, ProvidersAssumption DEF Exists
<1>4. copy \in Payload \cup {None}
  BY <1>2, <1>3 DEF PayloadOf, Payload, Row
<1>5. device \in [Devices -> DeviceRow]
  BY DEF DeviceRow, Modes
<1>6. Shape
  BY <1>2, <1>3, <1>4, <1>5 DEF Shape, TypeOK
<1> QED
  BY <1>6 DEF IInv, ChecksStillHold, AgentStillAgrees

(* The edits: each overlaps whatever is in progress. *)

LEMMA OverlapInv ==
  ASSUME IInv, Overlap, Shape'
  PROVE  IInv'
BY DEF IInv, Overlap, ChecksStillHold, AgentStillAgrees

LEMMA CreateProviderInv ==
  ASSUME IInv, NEW p \in Providers, NEW storage \in BOOLEAN, NEW unit \in Units,
         CreateProvider(p, storage, unit)
  PROVE  IInv' /\ StepKeepsProvider
<1>1. /\ Overlap /\ p \in unused /\ unused' = unused \ {p}
      /\ provider' = [provider EXCEPT ![p] = [storage |-> storage, unit |-> unit, enabled |-> FALSE]]
      /\ UNCHANGED <<attached, copy, device, slots, agent, net, call>>
  BY DEF CreateProvider, Edit
<1>2. provider[p] = None
  BY <1>1 DEF IInv, Shape, TypeOK
<1>3. [storage |-> storage, unit |-> unit, enabled |-> FALSE] \in Row
  BY DEF Row
<1>4. Shape'
  BY <1>1, <1>2, <1>3, NullAssumption DEF IInv, Shape, TypeOK, Exists
<1>5. StepKeepsProvider
  BY <1>1, <1>2 DEF StepKeepsProvider, Supported, Fed, HasStorage, UsesBattery, IInv, Shape, TypeOK, Exists
<1> QED
  BY <1>1, <1>4, <1>5, OverlapInv

LEMMA UpdateProviderInv ==
  ASSUME IInv, NEW p \in Providers, NEW storage \in BOOLEAN, NEW unit \in Units,
         NEW enabled \in BOOLEAN \cup {None}, UpdateProvider(p, storage, unit, enabled)
  PROVE  IInv' /\ StepKeepsProvider
<1> DEFINE new == [storage |-> storage, unit |-> unit,
                   enabled |-> IF enabled = None THEN provider[p].enabled ELSE enabled]
<1>1. /\ Overlap /\ Exists(p) /\ CapabilityChangeIsSafe(p, storage)
      /\ provider' = [provider EXCEPT ![p] = new]
      /\ UNCHANGED <<unused, attached, copy, device, slots, agent, net, call>>
  BY DEF UpdateProvider, Edit
<1>2. new \in Row /\ new.storage = storage
  BY <1>1 DEF IInv, Shape, TypeOK, Exists, Row
<1> HIDE DEF new
<1>3. Shape'
  BY <1>1, <1>2, NullAssumption DEF IInv, Shape, TypeOK, Exists
<1>4. StepKeepsProvider
  BY <1>1, <1>2 DEF StepKeepsProvider, Supported, Fed, HasStorage, UsesBattery,
                    CapabilityChangeIsSafe, IInv, Shape, TypeOK
<1> QED
  BY <1>1, <1>3, <1>4, OverlapInv

LEMMA SetEnabledInv ==
  ASSUME IInv, NEW p \in Providers, NEW enabled \in BOOLEAN, SetEnabled(p, enabled)
  PROVE  IInv' /\ StepKeepsProvider
<1>1. /\ Overlap /\ Exists(p) /\ provider' = [provider EXCEPT ![p].enabled = enabled]
      /\ UNCHANGED <<unused, attached, copy, device, slots, agent, net, call>>
  BY DEF SetEnabled
<1>2. /\ provider'[p] \in Row /\ provider'[p].storage = provider[p].storage
      /\ provider' = [provider EXCEPT ![p] = provider'[p]]
  BY <1>1 DEF IInv, Shape, TypeOK, Exists, Row
<1>3. Shape'
  BY <1>1, <1>2, NullAssumption DEF IInv, Shape, TypeOK, Exists
<1>4. StepKeepsProvider
  BY <1>1, <1>2 DEF StepKeepsProvider, Supported, Fed, HasStorage, UsesBattery, IInv, Shape, TypeOK
<1> QED
  BY <1>1, <1>3, <1>4, OverlapInv

LEMMA DeleteProviderInv ==
  ASSUME IInv, NEW p \in Providers, DeleteProvider(p)
  PROVE  IInv' /\ StepKeepsProvider
<1>1. /\ Overlap /\ Exists(p) /\ provider' = [provider EXCEPT ![p] = None]
      /\ attached' = (IF attached = p THEN None ELSE attached)
      /\ UNCHANGED <<unused, copy, device, slots, agent, net, call>>
  BY DEF DeleteProvider, Edit, ClearReference
<1>2. p # None
  BY NullAssumption
<1>3. Shape'
  BY <1>1 DEF IInv, Shape, TypeOK, Exists
<1>4. StepKeepsProvider
  BY <1>1, <1>2 DEF StepKeepsProvider, Supported, Fed, HasStorage, UsesBattery, IInv, Shape, TypeOK
<1> QED
  BY <1>1, <1>3, <1>4, OverlapInv

LEMMA ReplaceSlotsInv ==
  ASSUME IInv, NEW battery \in BOOLEAN, ReplaceSlots(battery)
  PROVE  IInv' /\ StepKeepsProvider
<1>1. /\ Overlap /\ slots' = battery /\ slots' # slots
      /\ UNCHANGED <<provider, unused, attached, copy, device, agent, net, call>>
  BY DEF ReplaceSlots, Edit
<1>2. Shape'
  BY <1>1 DEF IInv, Shape, TypeOK, Exists
<1>3. StepKeepsProvider
  BY <1>1 DEF StepKeepsProvider, Fed
<1> QED
  BY <1>1, <1>2, <1>3, OverlapInv

(* The calls that wait for the agent. *)

\* A call that begins has no other beside it, or is not alone.
LEMMA EnterAlone ==
  ASSUME IInv, NEW c \in Calls, NEW new, new # None, Enter(c, new)
  PROVE  /\ alone' # {} => net = {}
         /\ \A b \in alone' : b = c /\ alone' = {c} /\ call'[c] = new
                              /\ \A a \in Calls \ {c} : call'[a] = None
BY DEF Enter, Idle, IInv, Shape

LEMMA AttachStartInv ==
  ASSUME IInv, NEW c \in Calls, NEW next \in Providers \cup {None}, AttachStart(c, next)
  PROVE  IInv' /\ StepKeepsProvider
<1> DEFINE new == [op |-> "attach", prev |-> attached, next |-> next,
                   payload |-> PayloadOf(next), ack |-> None]
           m == [next |-> next, payload |-> PayloadOf(next)]
<1>1. /\ next # None => Exists(next)
      /\ next # None => HasStorage(next) \/ \A d \in Devices : ~UsesBattery(device[d])
      /\ Enter(c, new) /\ net' = net \cup {m}
      /\ UNCHANGED <<provider, unused, attached, copy, device, slots, agent>>
  BY DEF AttachStart, HasStorage
<1>2. PayloadOf(next) \in Payload \cup {None} /\ PayloadOf(next)' = PayloadOf(next)
  BY <1>1, PayloadIsTyped DEF IInv, PayloadOf
<1>3. new \in AttachCall /\ m \in Commands
  BY <1>2 DEF AttachCall, Commands, IInv, Shape, TypeOK
<1>4. /\ new.op = "attach" /\ new.next = next /\ new.payload = PayloadOf(next) /\ new.ack = None
      /\ m = [next |-> new.next, payload |-> new.payload]
  OBVIOUS
<1> HIDE DEF new, m
<1>5. new # None
  BY <1>3, NullAssumption
<1>6. call' = [call EXCEPT ![c] = new]
  BY <1>1 DEF Enter
<1>7. Shape'
  BY <1>1, <1>3, <1>6 DEF IInv, Shape, TypeOK, Exists
<1>8. ChecksStillHold'
  BY <1>1, <1>2, <1>4, <1>5, EnterAlone DEF ChecksStillHold, Exists, HasStorage, UsesBattery
<1>9. AgentStillAgrees'
  BY <1>1, <1>4, <1>5, EnterAlone DEF AgentStillAgrees
<1>10. StepKeepsProvider
  BY <1>1 DEF StepKeepsProvider, Supported, Fed, HasStorage, UsesBattery
<1> QED
  BY <1>7, <1>8, <1>9, <1>10 DEF IInv

LEMMA DeviceStartInv ==
  ASSUME IInv, NEW c \in Calls, NEW d \in Devices, NEW mode \in Modes,
         NEW rule \in Rules \cup {None}, NEW sched \in BOOLEAN,
         DeviceStart(c, d, mode, rule, sched)
  PROVE  IInv' /\ StepKeepsProvider
<1> DEFINE w == [mode |-> mode, rule |-> EffectiveRule(d, rule), sched |-> sched]
           new == [op |-> "device", dev |-> d, row |-> w]
<1>1. /\ mode = "AUTO_POWER" => attached # None
      /\ EffectiveRule(d, rule) = "BATTERY" => HasStorage(attached)
      /\ sched /\ slots => HasStorage(attached)
      /\ Enter(c, new)
      /\ UNCHANGED <<provider, unused, attached, copy, device, slots, agent, net>>
  BY DEF DeviceStart
<1>2. w \in DeviceRow
  BY DEF EffectiveRule, DeviceRow, IInv, Shape, TypeOK
<1>3. w.mode = "AUTO_POWER" => attached # None
  BY <1>1
<1>4. UsesBattery(w) => HasStorage(attached)
  BY <1>1 DEF UsesBattery
<1> HIDE DEF w
<1>5. new \in DeviceCall
  BY <1>2 DEF DeviceCall
<1>6. new.op = "device" /\ new.row = w
  OBVIOUS
<1> HIDE DEF new
<1>7. new # None
  BY <1>5, NullAssumption
<1>8. call' = [call EXCEPT ![c] = new]
  BY <1>1 DEF Enter
<1>9. Shape'
  BY <1>1, <1>5, <1>8 DEF IInv, Shape, TypeOK, Exists
<1>10. ChecksStillHold'
  BY <1>1, <1>3, <1>4, <1>6, <1>7, EnterAlone DEF ChecksStillHold, HasStorage, UsesBattery
<1>11. AgentStillAgrees'
  BY <1>1, <1>6, <1>7, EnterAlone DEF AgentStillAgrees
<1>12. StepKeepsProvider
  BY <1>1 DEF StepKeepsProvider, Supported, Fed, HasStorage, UsesBattery
<1> QED
  BY <1>9, <1>10, <1>11, <1>12 DEF IInv

\* A call that ends.
LEMMA LeaveInv ==
  ASSUME IInv, NEW c \in Calls, call[c] # None, Leave(c), Shape',
         UNCHANGED net
  PROVE  IInv'
<1>1. alone' = {} \/ c \notin alone
  BY DEF Leave, IInv, ChecksStillHold
<1>2. ASSUME NEW b \in alone PROVE b = c
  BY DEF IInv, ChecksStillHold
<1>3. alone' = {}
  BY <1>2 DEF Leave
<1> QED
  BY <1>3 DEF IInv, ChecksStillHold, AgentStillAgrees

LEMMA DeviceCommitInv ==
  ASSUME IInv, NEW c \in Calls, DeviceCommit(c)
  PROVE  IInv' /\ StepKeepsProvider
<1>1. /\ call[c] # None /\ call[c].op = "device" /\ Leave(c)
      /\ device' = [device EXCEPT ![call[c].dev] = call[c].row]
      /\ call' = [call EXCEPT ![c] = None]
      /\ UNCHANGED <<provider, unused, attached, copy, slots, agent, net>>
  BY DEF DeviceCommit, Leave
<1>2. call[c].dev \in Devices /\ call[c].row \in DeviceRow
  BY <1>1 DEF IInv, Shape, AttachCall, DeviceCall
<1>3. Shape'
  BY <1>1, <1>2 DEF IInv, Shape, TypeOK, Exists
<1>4. c \in Calls \ alone => \E b \in Calls \ alone : call[b] # None /\ call'[b] = None
  BY <1>1 DEF IInv, Shape
<1>5. ASSUME c \in alone
      PROVE  (Supported => Supported') /\ (attached = None /\ Fed /\ ~Fed' => FALSE) /\ (Fed => Fed')
  <2>1. /\ call[c].row.mode = "AUTO_POWER" => attached # None
        /\ UsesBattery(call[c].row) => HasStorage(attached)
    BY <1>1, <1>5 DEF IInv, ChecksStillHold
  <2>2. \A d \in Devices : device'[d] = IF d = call[c].dev THEN call[c].row ELSE device[d]
    BY <1>1, <1>2 DEF IInv, Shape, TypeOK
  <2> QED
    BY <1>1, <2>1, <2>2 DEF Supported, Fed, HasStorage, UsesBattery
<1>6. StepKeepsProvider
  BY <1>4, <1>5 DEF StepKeepsProvider
<1> QED
  BY <1>1, <1>3, <1>6, LeaveInv

LEMMA AttachCommitInv ==
  ASSUME IInv, NEW c \in Calls, AttachCommit(c)
  PROVE  IInv' /\ StepKeepsProvider
<1>1. /\ call[c] # None /\ call[c].op = "attach" /\ Leave(c)
      /\ call[c].next # None => Exists(call[c].next)
      /\ attached' = call[c].next /\ copy' = call[c].payload
      /\ call' = [call EXCEPT ![c] = None]
      /\ UNCHANGED <<provider, unused, device, slots, agent, net>>
  BY DEF AttachCommit, Answered, Leave, CopyOfNext
<1>2. call[c].next \in Providers \cup {None} /\ call[c].payload \in Payload \cup {None}
  BY <1>1 DEF IInv, Shape, AttachCall, DeviceCall
<1>3. Shape'
  BY <1>1, <1>2 DEF IInv, Shape, TypeOK, Exists
<1>4. c \in Calls \ alone => \E b \in Calls \ alone : call[b] # None /\ call'[b] = None
  BY <1>1 DEF IInv, Shape
<1>5. c \in alone => Supported'
  BY <1>1 DEF IInv, ChecksStillHold, Supported, HasStorage, UsesBattery
<1>6. Fed /\ ~Fed' => attached # None /\ attached' = None
  BY <1>1 DEF Fed
<1>7. StepKeepsProvider
  BY <1>4, <1>5, <1>6 DEF StepKeepsProvider
<1> QED
  BY <1>1, <1>3, <1>7, LeaveInv

LEMMA CallEndsInv ==
  ASSUME IInv, NEW c \in Calls, AttachMismatch(c) \/ CallFails(c)
  PROVE  IInv' /\ StepKeepsProvider
<1>1. /\ call[c] # None /\ Leave(c) /\ call' = [call EXCEPT ![c] = None]
      /\ UNCHANGED <<provider, unused, attached, copy, device, slots, agent, net>>
  BY DEF AttachMismatch, CallFails, Answered, Leave
<1>2. Shape'
  BY <1>1 DEF IInv, Shape, TypeOK, Exists
<1>3. StepKeepsProvider
  BY <1>1 DEF StepKeepsProvider, Supported, Fed, HasStorage, UsesBattery
<1> QED
  BY <1>1, <1>2, <1>3, LeaveInv

LEMMA AgentHandlesInv ==
  ASSUME IInv, NEW m \in net, AgentHandles(m)
  PROVE  IInv' /\ StepKeepsProvider
<1>1. PICK ok \in BOOLEAN, heard \in BOOLEAN :
        /\ agent' = IF ok THEN m.next ELSE agent
        /\ call' = [c \in Calls |->
             IF /\ heard /\ call[c] # None /\ call[c].op = "attach"
                /\ call[c].ack = None /\ call[c].payload = m.payload
             THEN [call[c] EXCEPT !.ack =
                     [ok |-> ok, changed |-> agent # m.next, previous |-> agent]]
             ELSE call[c]]
  BY DEF AgentHandles
<1> DEFINE answer == [ok |-> ok, changed |-> agent # m.next, previous |-> agent]
<1>2. /\ net' = net \ {m}
      /\ UNCHANGED <<provider, unused, attached, copy, device, slots, alone>>
  BY DEF AgentHandles
<1>3. m \in Commands
  BY DEF IInv, Shape
<1>4. answer \in Answer /\ answer.ok = ok
  BY DEF Answer, IInv, Shape, TypeOK
<1> HIDE DEF answer
<1>5. \A c \in Calls :
        \/ call'[c] = call[c]
        \/ /\ call[c] \in AttachCall /\ call[c].ack = None
           /\ call'[c] = [call[c] EXCEPT !.ack = answer]
  <2> SUFFICES ASSUME NEW c \in Calls, call'[c] # call[c]
               PROVE  /\ call[c] \in AttachCall /\ call[c].ack = None
                      /\ call'[c] = [call[c] EXCEPT !.ack = answer]
    OBVIOUS
  <2>1. call[c] # None /\ call[c].op = "attach" /\ call[c].ack = None
    BY <1>1
  <2>2. call[c] \in AttachCall
    BY <2>1 DEF IInv, Shape, DeviceCall
  <2> QED
    BY <1>1, <2>1, <2>2 DEF answer
<1>6. \A c \in Calls :
        \/ call'[c] = call[c]
        \/ /\ call[c] # None /\ call[c].op = "attach" /\ call[c].ack = None
           /\ call'[c] \in AttachCall /\ call'[c] # None
           /\ call'[c].op = "attach" /\ call'[c].next = call[c].next
           /\ call'[c].payload = call[c].payload /\ call'[c].ack = answer
  <2>1. ASSUME NEW c \in Calls, call[c] \in AttachCall, call'[c] = [call[c] EXCEPT !.ack = answer]
        PROVE  /\ call[c].op = "attach" /\ call'[c] \in AttachCall /\ call'[c].op = "attach"
               /\ call'[c].next = call[c].next /\ call'[c].payload = call[c].payload
               /\ call'[c].ack = answer
    BY <1>4, <2>1 DEF AttachCall
  <2>2. None \notin AttachCall
    BY NullAssumption
  <2> QED
    BY <1>5, <2>1, <2>2
<1>7. call' \in [Calls -> AttachCall \cup DeviceCall \cup {None}]
  <2>1. call' = [c \in Calls |-> call'[c]]
    BY <1>1
  <2>2. \A c \in Calls : call'[c] \in AttachCall \cup DeviceCall \cup {None}
    BY <1>6 DEF IInv, Shape
  <2> QED
    BY <2>1, <2>2
<1>8. Shape'
  BY <1>1, <1>2, <1>3, <1>7 DEF IInv, Shape, TypeOK, Exists, Commands
<1>9. ChecksStillHold'
  <2> SUFFICES ASSUME NEW c \in alone
               PROVE  /\ c \in Calls /\ alone = {c} /\ call'[c] # None
                      /\ \A b \in Calls \ {c} : call'[b] = None
                      /\ \/ call'[c] = call[c]
                         \/ /\ call'[c].op = "attach" /\ call[c].op = "attach"
                            /\ call'[c].next = call[c].next /\ call'[c].payload = call[c].payload
    BY <1>2 DEF IInv, ChecksStillHold, Exists, HasStorage, UsesBattery, PayloadOf
  <2> QED
    BY <1>6 DEF IInv, ChecksStillHold
<1>10. AgentStillAgrees'
  <2> SUFFICES ASSUME NEW c \in alone, call'[c].op = "attach"
               PROVE  /\ net' \subseteq {[next |-> call'[c].next, payload |-> call'[c].payload]}
                      /\ call'[c].ack # None => net' = {} /\ (call'[c].ack.ok => agent' = call'[c].next)
    BY <1>2 DEF AgentStillAgrees
  <2>1. c \in Calls /\ call[c].op = "attach" /\ call'[c].next = call[c].next
        /\ call'[c].payload = call[c].payload
    BY <1>6 DEF IInv, ChecksStillHold
  <2>2. net \subseteq {[next |-> call[c].next, payload |-> call[c].payload]}
    BY <2>1 DEF IInv, AgentStillAgrees
  <2>3. m.next = call[c].next /\ net' = {}
    BY <1>2, <2>2
  <2>4. call[c].ack = None
    BY <2>1 DEF IInv, AgentStillAgrees
  <2>5. call'[c].ack # None => call'[c].ack = answer
    BY <1>6, <2>1, <2>4
  <2> QED
    BY <1>1, <1>4, <2>1, <2>3, <2>5
<1>11. StepKeepsProvider
  BY <1>2 DEF StepKeepsProvider, Supported, Fed, HasStorage, UsesBattery
<1> QED
  BY <1>8, <1>9, <1>10, <1>11 DEF IInv

-----------------------------------------------------------------------------
LEMMA StutterInv == IInv /\ UNCHANGED vars => IInv'
BY DEF vars, IInv, Shape, TypeOK, ChecksStillHold, AgentStillAgrees, Exists, HasStorage,
       UsesBattery, PayloadOf

\* Every step keeps the invariant and takes no provider away from rules unless
\* it is one of the steps that may.
LEMMA StepInv == IInv /\ Next => IInv' /\ StepKeepsProvider
<1> SUFFICES ASSUME IInv, Next PROVE IInv' /\ StepKeepsProvider
  OBVIOUS
<1>1. ASSUME NEW p \in Providers, NEW storage \in BOOLEAN, NEW unit \in Units,
             \/ CreateProvider(p, storage, unit)
             \/ \E enabled \in BOOLEAN \cup {None} : UpdateProvider(p, storage, unit, enabled)
      PROVE  IInv' /\ StepKeepsProvider
  BY <1>1, CreateProviderInv, UpdateProviderInv
<1>2. ASSUME NEW p \in Providers, NEW enabled \in BOOLEAN, SetEnabled(p, enabled)
      PROVE  IInv' /\ StepKeepsProvider
  BY <1>2, SetEnabledInv
<1>3. ASSUME NEW p \in Providers, DeleteProvider(p) PROVE IInv' /\ StepKeepsProvider
  BY <1>3, DeleteProviderInv
<1>4. ASSUME NEW battery \in BOOLEAN, ReplaceSlots(battery) PROVE IInv' /\ StepKeepsProvider
  BY <1>4, ReplaceSlotsInv
<1>5. ASSUME NEW c \in Calls, NEW next \in Providers \cup {None}, AttachStart(c, next)
      PROVE  IInv' /\ StepKeepsProvider
  BY <1>5, AttachStartInv
<1>6. ASSUME NEW c \in Calls, NEW d \in Devices, NEW mode \in Modes,
             NEW rule \in Rules \cup {None}, NEW sched \in BOOLEAN,
             DeviceStart(c, d, mode, rule, sched)
      PROVE  IInv' /\ StepKeepsProvider
  BY <1>6, DeviceStartInv
<1>7. ASSUME NEW c \in Calls, DeviceCommit(c) \/ AttachCommit(c) \/ AttachMismatch(c) \/ CallFails(c)
      PROVE  IInv' /\ StepKeepsProvider
  BY <1>7, DeviceCommitInv, AttachCommitInv, CallEndsInv
<1>8. ASSUME NEW m \in net, AgentHandles(m) PROVE IInv' /\ StepKeepsProvider
  BY <1>8, AgentHandlesInv
<1> QED
  BY <1>1, <1>2, <1>3, <1>4, <1>5, <1>6, <1>7, <1>8 DEF Next

\* What a request checked before it waited for the agent is still so when it
\* ends, unless something has overlapped it.
THEOREM Invariance == Spec => []IInv
<1>1. IInv /\ [Next]_vars => IInv'
  BY StepInv, StutterInv
<1> QED
  BY <1>1, InitInv, PTL DEF Spec

\* The rows refer to one another as the foreign keys say, the stored provider of
\* a microcontroller exists, and the config copy is a provider's payload.
THEOREM TypeCorrect == Spec => []TypeOK
<1>1. IInv => TypeOK
  BY DEF IInv, Shape
<1> QED
  BY <1>1, Invariance, PTL

\* Rules lose the provider they need only to an edit of slots, a detachment, a
\* deletion, or a call that something has overlapped.
THEOREM RulesKeep == Spec => RulesKeepProvider
<1>1. IInv /\ [Next]_vars => [StepKeepsProvider]_vars
  BY StepInv
<1> QED
  BY <1>1, Invariance, PTL DEF Spec, RulesKeepProvider

\* An undisturbed attachment ends with row, config copy and agent in agreement.
THEOREM AttachmentAgrees == Spec => AttachAgrees
<1>1. IInv => CommitAgrees
  <2> SUFFICES ASSUME IInv, NEW c \in alone, AttachCommit(c)
               PROVE  /\ agent' = attached'
                      /\ copy' = IF attached' = None THEN None
                                 ELSE [id |-> attached', storage |-> provider'[attached'].storage,
                                       unit |-> provider'[attached'].unit]
    BY DEF CommitAgrees
  <2>1. /\ call[c].op = "attach" /\ call[c].ack # None /\ call[c].ack.ok
        /\ attached' = call[c].next /\ copy' = call[c].payload
        /\ UNCHANGED <<provider, agent>>
    BY DEF AttachCommit, Answered, CopyOfNext
  <2>2. agent = call[c].next
    BY <2>1 DEF IInv, AgentStillAgrees
  <2>3. call[c].payload = PayloadOf(call[c].next)
    BY <2>1 DEF IInv, ChecksStillHold
  <2> QED
    BY <2>1, <2>2, <2>3 DEF PayloadOf
<1> QED
  BY <1>1, Invariance, PTL DEF Spec, AttachAgrees

-----------------------------------------------------------------------------
(* The measurements of one provider.                                           *)

\* An adapter is kept under the key it was created with.
CachedByKey == \A key \in DOMAIN cache : CacheKey(cache[key]) = key

\* A save comes after a measurement, whose metrics the adapter has the capability
\* for; and unless a user has changed the provider meanwhile, the adapter has no
\* capability that the provider does not have.
PollInv(w) ==
  polls[w] # Absent =>
    /\ polls[w].seen # Absent => polls[w].measurement # Absent
    /\ guarded /\ polls[w].measurement # Absent =>
         \A key \in polls[w].measurement.metrics :
           polls[w].adapter[CapabilityTag[key]]
    /\ ~polls[w].overlapped =>
         /\ polled # Absent
         /\ \A c \in Capabilities : polls[w].adapter[c] => polled[c]

\* Events were sent before now, each at a time of its own, and those that know
\* the pin know the one the device had.
IsTrue(e) ==
  /\ e.created_at < now
  /\ e.pin_state # Absent => e.pin_state = OnAt(e.created_at)

EventsTrue ==
  /\ \A s \in toggles : s < now
  /\ \A e \in unsent \cup ToSet(events) : IsTrue(e)
  /\ \A i, j \in DOMAIN events : i # j => events[i].created_at # events[j].created_at
  /\ \A a, b \in unsent : a.created_at = b.created_at => a = b
  /\ \A a \in unsent, b \in ToSet(events) : a.created_at # b.created_at

\* Measurements were made before now, each at a time of its own.
InHand(w) == polls[w] # Absent /\ polls[w].measurement # Absent

MeasuredOnce ==
  /\ now <= Horizon
  /\ \A r \in ToSet(rows) : r.at < now
  /\ \A a, b \in ToSet(rows) : a.at = b.at => a = b
  /\ \A w \in Pollers : InHand(w) =>
       /\ polls[w].measurement.at < now
       /\ \A r \in ToSet(rows) : r.at # polls[w].measurement.at
  /\ \A v, w \in Pollers : v # w /\ InHand(v) /\ InHand(w) =>
       polls[v].measurement.at # polls[w].measurement.at

\* With the types, what a poll has in hand is enough for the next step.
PastInv ==
  /\ PastTypeOK
  /\ CachedByKey
  /\ \A w \in Pollers : PollInv(w)
  /\ EventsTrue
  /\ MeasuredOnce

LEMMA CapabilitiesTyped ==
  ASSUME NEW p \in ProviderColumns
  PROVE  /\ \A c \in Capabilities : p[c] \in BOOLEAN
         /\ CapabilitiesOf(p) \in [Capabilities -> BOOLEAN]
         /\ DOMAIN p = {"enabled", "power_source", "credentials", "has_power_meter", "has_energy_storage"}
BY DEF ProviderColumns, Capabilities, CapabilitiesOf

LEMMA AdapterTyped ==
  ASSUME PastTypeOK, CachedByKey, NEW p \in ProviderColumns
  PROVE  /\ Adapter(p) \in ProviderColumns
         /\ CacheKey(Adapter(p)) = CacheKey(p)
         /\ \A c \in Capabilities : Adapter(p)[c] = p[c]
<1>1. /\ Settings(p) \in ProviderColumns
      /\ CacheKey(Settings(p)) = CacheKey(p)
  BY DEF Settings, ProviderColumns, CacheKey
<1>2. Adapter(p) \in ProviderColumns /\ CacheKey(Adapter(p)) = CacheKey(p)
  BY <1>1 DEF Adapter, CachedByKey, PastTypeOK, TelemetryTypeOK
<1> DEFINE a == Adapter(p)
<1> HIDE DEF a
<1>3. a.has_power_meter = p.has_power_meter /\ a.has_energy_storage = p.has_energy_storage
  BY <1>2 DEF CacheKey, a
<1> QED
  BY <1>2, <1>3 DEF Capabilities, a

LEMMA FetchedTyped ==
  ASSUME now \in Nat, NEW a \in ProviderColumns,
         NEW m \in Fetched(a)
  PROVE  /\ m \in Measurements
         /\ guarded => \A key \in m.metrics : a[CapabilityTag[key]]
<1>1. CASE vendor = "huawei"
  <2>1. PICK answer \in KpiAnswers : \E v \in {HuaweiPower(answer)} \ {Absent} :
          m = [at |-> now, value |-> v, metrics |-> {}]
    BY <1>1 DEF Fetched
  <2>2. HuaweiPower(answer) \in Int \cup {Absent}
    BY TelemetryAssumption DEF HuaweiPower
  <2> QED
    BY <2>1, <2>2 DEF Measurements
<1>2. CASE vendor # "huawei"
  <2>1. PICK answer \in FlowAnswers \ {Absent} : \E v \in {GoodWePower(a, answer)} \ {Absent} :
          m = [at |-> now, value |-> v, metrics |-> GoodWeMetrics(a, answer)]
    BY <1>2 DEF Fetched
  <2>2. {answer.pv, answer.grid} \subseteq Int \cup {Absent}
    BY TelemetryAssumption
  <2>3. SignedGridPower(answer) \in Int \cup {Absent}
    BY <2>2 DEF SignedGridPower
  <2>4. GoodWePower(a, answer) \in Int \cup {Absent}
    BY <2>2, <2>3 DEF GoodWePower
  <2>5. /\ GoodWeMetrics(a, answer) \subseteq MetricKeys
        /\ guarded => \A key \in GoodWeMetrics(a, answer) : a[CapabilityTag[key]]
    BY DEF GoodWeMetrics
  <2> QED
    BY <2>1, <2>4, <2>5 DEF Measurements
<1> QED
  BY <1>1, <1>2

(* The steps of a poll. *)

LEMMA StartPollInv ==
  ASSUME PastInv, NEW w \in Pollers, NEW own \in BOOLEAN,
         StartPoll(w, own)
  PROVE  TelemetryTypeOK' /\ CachedByKey' /\ \A v \in Pollers : PollInv(v)'
<1> DEFINE a == Adapter(polled)
           k == CacheKey(polled)
           poll == [adapter |-> a,
                    known |-> IF own THEN CapabilitiesOf(polled) ELSE Absent,
                    measurement |-> Absent, seen |-> Absent, overlapped |-> FALSE]
<1>1. /\ PastTypeOK /\ TelemetryTypeOK /\ CachedByKey
      /\ \A v \in Pollers : PollInv(v)
  BY DEF PastInv, PastTypeOK
<1>2. /\ polled # Absent
      /\ cache' = [key \in DOMAIN cache \cup {k} |-> IF key = k THEN a ELSE cache[key]]
      /\ polls' = [polls EXCEPT ![w] = poll]
      /\ UNCHANGED <<guarded, vendor, polled, rows, definitions>>
  BY DEF StartPoll
<1>3. polled \in ProviderColumns
  BY <1>1, <1>2 DEF TelemetryTypeOK
<1>4. /\ a \in ProviderColumns /\ CacheKey(a) = k
      /\ \A c \in Capabilities : a[c] = polled[c]
  BY <1>1, <1>3, AdapterTyped
<1>5. poll \in Polls
  BY <1>3, <1>4, CapabilitiesTyped DEF Polls
<1> HIDE DEF a, k
<1>6. TelemetryTypeOK'
  BY <1>1, <1>2, <1>4, <1>5 DEF TelemetryTypeOK
<1>7. CachedByKey'
  BY <1>1, <1>2, <1>4 DEF CachedByKey
<1>8. ASSUME NEW v \in Pollers PROVE PollInv(v)'
  BY <1>1, <1>2, <1>4 DEF PollInv, TelemetryTypeOK
<1> QED
  BY <1>6, <1>7, <1>8

LEMMA FetchInv ==
  ASSUME PastInv, NEW w \in Pollers,
         Fetch(w)
  PROVE  TelemetryTypeOK' /\ CachedByKey' /\ \A v \in Pollers : PollInv(v)'
<1>1. /\ TelemetryTypeOK /\ CachedByKey /\ now \in Nat
      /\ \A v \in Pollers : PollInv(v)
  BY DEF PastInv, PastTypeOK
<1>2. /\ polls[w] # Absent /\ polls[w].measurement = Absent
      /\ UNCHANGED <<guarded, vendor, polled, cache, rows, definitions>>
  BY DEF Fetch
<1>3. PICK m \in Fetched(polls[w].adapter) : polls' = [polls EXCEPT ![w].measurement = m]
  BY DEF Fetch
<1>4. polls[w] \in Polls /\ polls[w].adapter \in ProviderColumns
  BY <1>1, <1>2 DEF TelemetryTypeOK, Polls
<1>5. /\ m \in Measurements
      /\ guarded => \A key \in m.metrics : polls[w].adapter[CapabilityTag[key]]
  BY <1>1, <1>3, <1>4, FetchedTyped
<1>6. [polls[w] EXCEPT !.measurement = m] \in Polls
  BY <1>4, <1>5 DEF Polls
<1>7. TelemetryTypeOK'
  BY <1>1, <1>2, <1>3, <1>6 DEF TelemetryTypeOK
<1>8. CachedByKey'
  BY <1>1, <1>2 DEF CachedByKey
<1>9. ASSUME NEW v \in Pollers PROVE PollInv(v)'
  <2>1. CASE v # w
    BY <1>1, <1>2, <1>3, <2>1 DEF PollInv, TelemetryTypeOK
  <2>2. CASE v = w
    <3>1. /\ polls'[w].measurement = m /\ polls'[w].adapter = polls[w].adapter
          /\ polls'[w].overlapped = polls[w].overlapped /\ m # Absent
      BY <1>1, <1>3, <1>4, <1>5, AbsenceAssumption DEF TelemetryTypeOK, Polls
    <3> QED
      BY <1>1, <1>2, <1>5, <2>2, <3>1 DEF PollInv
  <2> QED
    BY <2>1, <2>2
<1> QED
  BY <1>7, <1>8, <1>9

LEMMA AbandonPollInv ==
  ASSUME PastInv, NEW w \in Pollers, AbandonPoll(w)
  PROVE  TelemetryTypeOK' /\ CachedByKey' /\ \A v \in Pollers : PollInv(v)'
BY DEF PastInv, PastTypeOK, TelemetryTypeOK, AbandonPoll, CachedByKey, PollInv

LEMMA StartSaveInv ==
  ASSUME PastInv, NEW w \in Pollers, StartSave(w)
  PROVE  TelemetryTypeOK' /\ CachedByKey' /\ \A v \in Pollers : PollInv(v)'
<1>1. /\ TelemetryTypeOK /\ CachedByKey
      /\ \A v \in Pollers : PollInv(v)
  BY DEF PastInv, PastTypeOK
<1>2. /\ polls[w] # Absent /\ polls[w].measurement # Absent /\ polled # Absent
      /\ polls' = [polls EXCEPT
           ![w].known = IF @ = Absent THEN CapabilitiesOf(polled) ELSE @,
           ![w].seen = definitions]
      /\ UNCHANGED <<guarded, vendor, polled, cache, rows, definitions>>
  BY DEF StartSave
<1>3. polls[w] \in Polls /\ polled \in ProviderColumns
  BY <1>1, <1>2 DEF TelemetryTypeOK
<1>4. definitions \in SUBSET MetricKeys
  <2>1. \A r \in ToSet(rows) : r \in Measurements
    BY <1>1 DEF TelemetryTypeOK, ToSet
  <2>2. \A r \in ToSet(rows) : r.metrics \subseteq MetricKeys
    BY <2>1 DEF Measurements
  <2> QED
    BY <1>1, <2>2 DEF TelemetryTypeOK
<1>5. PICK known \in [Capabilities -> BOOLEAN] :
        polls' = [polls EXCEPT ![w] = [polls[w] EXCEPT !.known = known, !.seen = definitions]]
  <2>1. (IF polls[w].known = Absent THEN CapabilitiesOf(polled) ELSE polls[w].known)
          \in [Capabilities -> BOOLEAN]
    BY <1>3, CapabilitiesTyped DEF Polls
  <2> QED
    BY <1>1, <1>2, <1>3, <2>1 DEF TelemetryTypeOK
<1>6. [polls[w] EXCEPT !.known = known, !.seen = definitions] \in Polls
  BY <1>3, <1>4, <1>5 DEF Polls
<1>7. TelemetryTypeOK'
  BY <1>1, <1>2, <1>5, <1>6 DEF TelemetryTypeOK
<1>8. CachedByKey'
  BY <1>1, <1>2 DEF CachedByKey
<1>9. ASSUME NEW v \in Pollers PROVE PollInv(v)'
  <2>1. CASE v # w
    BY <1>1, <1>2, <1>5, <2>1 DEF PollInv, TelemetryTypeOK
  <2>2. CASE v = w
    <3>1. /\ polls'[w].measurement = polls[w].measurement
          /\ polls'[w].adapter = polls[w].adapter
          /\ polls'[w].overlapped = polls[w].overlapped
      BY <1>1, <1>3, <1>5 DEF TelemetryTypeOK, Polls
    <3> QED
      BY <1>1, <1>2, <2>2, <3>1 DEF PollInv
  <2> QED
    BY <2>1, <2>2
<1> QED
  BY <1>7, <1>8, <1>9

LEMMA SaveInv ==
  ASSUME PastInv, NEW w \in Pollers, Save(w)
  PROVE  /\ TelemetryTypeOK' /\ CachedByKey' /\ \A v \in Pollers : PollInv(v)'
         /\ guarded /\ ~polls[w].overlapped =>
              \A c \in Capabilities : polled'[c] => polled[c]
<1> DEFINE m == polls[w].measurement
           raised == Promoted(polls[w].known, m.metrics)
<1>1. /\ TelemetryTypeOK /\ CachedByKey
      /\ \A v \in Pollers : PollInv(v)
  BY DEF PastInv, PastTypeOK
<1>2. /\ polls[w] # Absent /\ polls[w].seen # Absent /\ polled # Absent
      /\ rows' = Append(rows, m)
      /\ definitions' = definitions \cup m.metrics
      /\ polled' = [c \in DOMAIN polled |-> IF c \in raised THEN TRUE ELSE polled[c]]
      /\ polls' = [polls EXCEPT ![w] = Absent]
      /\ UNCHANGED <<guarded, vendor, cache>>
  BY DEF Save
<1>3. polls[w] \in Polls /\ polled \in ProviderColumns /\ m \in Measurements
  BY <1>1, <1>2 DEF TelemetryTypeOK, Polls, PollInv
<1>4. raised \subseteq Capabilities
      /\ \A c \in raised : \E key \in m.metrics : CapabilityTag[key] = c
  BY DEF Promoted
<1> HIDE DEF m, raised
<1>5. /\ polled' \in ProviderColumns
      /\ \A c \in Capabilities : polled'[c] = (polled[c] \/ c \in raised)
  BY <1>2, <1>3, <1>4, CapabilitiesTyped DEF ProviderColumns, Capabilities
<1>6. /\ rows' \in Seq(Measurements)
      /\ definitions' = UNION {r.metrics : r \in ToSet(rows')}
  <2>1. rows \in Seq(Measurements)
        /\ definitions = UNION {r.metrics : r \in ToSet(rows)}
    BY <1>1 DEF TelemetryTypeOK
  <2>2. rows' \in Seq(Measurements)
    BY <1>2, <1>3, <2>1
  <2>3. ToSet(rows') = ToSet(rows) \cup {m}
    BY <1>2, <1>3, <2>1 DEF ToSet
  <2> QED
    BY <1>2, <2>1, <2>2, <2>3
<1>7. TelemetryTypeOK'
  BY <1>1, <1>2, <1>5, <1>6 DEF TelemetryTypeOK
<1>8. CachedByKey'
  BY <1>1, <1>2 DEF CachedByKey
<1>9. ASSUME NEW v \in Pollers PROVE PollInv(v)'
  <2>1. polls' \in [Pollers -> Polls \cup {Absent}] /\ polls'[v] \in {polls[v], Absent}
    BY <1>1, <1>2 DEF TelemetryTypeOK
  <2>2. polled' # Absent
    BY <1>5, AbsenceAssumption
  <2> QED
    BY <1>1, <1>2, <1>5, <2>1, <2>2 DEF PollInv
<1>10. ASSUME guarded, ~polls[w].overlapped, NEW c \in Capabilities, polled'[c]
       PROVE  polled[c]
  <2>1. CASE c \in raised
    <3>1. PICK key \in m.metrics : CapabilityTag[key] = c
      BY <1>4, <2>1
    <3>2. m # Absent
      BY <1>3, AbsenceAssumption
    <3> QED
      BY <1>1, <1>2, <1>10, <3>1, <3>2 DEF PollInv, m
  <2> QED
    BY <1>5, <1>10, <2>1
<1> QED
  BY <1>7, <1>8, <1>9, <1>10

(* The edits of users: each overlaps the polls under way. *)

LEMMA OverlappedInv ==
  ASSUME PastInv, polls' = Overlapped, UNCHANGED <<guarded, cache>>
  PROVE  /\ polls' \in [Pollers -> Polls \cup {Absent}]
         /\ CachedByKey' /\ \A v \in Pollers : PollInv(v)'
<1>1. /\ polls \in [Pollers -> Polls \cup {Absent}] /\ CachedByKey
      /\ \A v \in Pollers : PollInv(v)
  BY DEF PastInv, PastTypeOK, TelemetryTypeOK
<1>2. \A v \in Pollers :
        polls'[v] = IF polls[v] = Absent THEN Absent ELSE [polls[v] EXCEPT !.overlapped = TRUE]
  BY DEF Overlapped
<1>3. \A v \in Pollers : polls[v] # Absent =>
        /\ polls[v] \in Polls
        /\ [polls[v] EXCEPT !.overlapped = TRUE] \in Polls
  BY <1>1 DEF Polls
<1>4. polls' \in [Pollers -> Polls \cup {Absent}]
  BY <1>2, <1>3 DEF Overlapped
<1>5. CachedByKey'
  BY <1>1 DEF CachedByKey
<1>6. ASSUME NEW v \in Pollers, polls'[v] # Absent
      PROVE  /\ polls[v] # Absent /\ polls'[v].overlapped
             /\ polls'[v].seen = polls[v].seen /\ polls'[v].adapter = polls[v].adapter
             /\ polls'[v].measurement = polls[v].measurement
  BY <1>2, <1>3, <1>6 DEF Polls
<1>7. ASSUME NEW v \in Pollers PROVE PollInv(v)'
  BY <1>1, <1>6 DEF PollInv
<1> QED
  BY <1>4, <1>5, <1>7

LEMMA PolledUpdatedInv ==
  ASSUME PastInv, NEW p \in Shapes, UpdatePolled(p)
  PROVE  TelemetryTypeOK' /\ CachedByKey' /\ \A v \in Pollers : PollInv(v)'
<1>1. /\ polled' = p /\ p \in ProviderColumns /\ polls' = Overlapped
      /\ UNCHANGED <<guarded, vendor, cache, rows, definitions>>
  BY TelemetryAssumption DEF UpdatePolled
<1> QED
  BY <1>1, OverlappedInv DEF PastInv, PastTypeOK, TelemetryTypeOK

LEMMA PolledDeletedInv ==
  ASSUME PastInv, DeletePolled
  PROVE  TelemetryTypeOK' /\ CachedByKey' /\ \A v \in Pollers : PollInv(v)'
<1>1. /\ polled' = Absent /\ polls' = Overlapped /\ rows' = << >> /\ definitions' = {}
      /\ UNCHANGED <<guarded, vendor, cache>>
  BY DEF DeletePolled
<1>2. rows' \in Seq(Measurements) /\ ToSet(rows') = {}
  BY <1>1 DEF ToSet
<1> QED
  BY <1>1, <1>2, OverlappedInv DEF PastInv, PastTypeOK, TelemetryTypeOK

(* The events of a device. *)

LEMMA OnAtIsBoolean ==
  ASSUME NEW t
  PROVE  OnAt(t) \in BOOLEAN /\ OnAt(t)' \in BOOLEAN /\ (~OnAt(t)) \in BOOLEAN
<1>1. OnAt(t) \in BOOLEAN /\ OnAt(t)' \in BOOLEAN
  BY Zenon DEF OnAt
<1>2. (~OnAt(t)) \in BOOLEAN
  BY <1>1
<1> QED
  BY <1>1, <1>2

LEMMA HistoryTyped ==
  ASSUME PastInv, HistoryNext
  PROVE  {now, happened}' \subseteq Nat /\ HistoryTypeOK'
<1>1. now \in Nat /\ happened \in Nat /\ HistoryTypeOK
  BY DEF PastInv, PastTypeOK
<1>2. CASE Switch
  <2>1. [created_at |-> now, event_type |-> "STATE", pin_state |-> ~OnAt(now)] \in Events
    <3>1. (~OnAt(now)) \in BOOLEAN
      BY OnAtIsBoolean
    <3> QED
      BY <1>1, <3>1 DEF Events, EventTypes
  <2>2. {now, happened}' \subseteq Nat
    BY <1>1, <1>2 DEF Switch, Happens, Passes
  <2>3. toggles' \subseteq Nat
    BY <1>1, <1>2 DEF Switch, HistoryTypeOK
  <2>4. unsent' \subseteq Events /\ events' \in Seq(Events)
    BY <1>1, <1>2, <2>1 DEF Switch, HistoryTypeOK
  <2> QED
    BY <2>2, <2>3, <2>4 DEF HistoryTypeOK
<1>3. ASSUME NEW e \in unsent, Store(e) \/ LoseEvent(e)
      PROVE  {now, happened}' \subseteq Nat /\ HistoryTypeOK'
  <2>1. e \in Events /\ unsent' \subseteq Events /\ toggles' = toggles
        /\ now' = now /\ happened' = happened
    BY <1>1, <1>3 DEF Store, LoseEvent, HistoryTypeOK
  <2>2. events' \in Seq(Events)
    BY <1>1, <1>3, <2>1 DEF Store, LoseEvent, HistoryTypeOK
  <2> QED
    BY <1>1, <2>1, <2>2 DEF HistoryTypeOK
<1>4. ASSUME NEW pin \in {OnAt(now), Absent}, Audit(pin)
      PROVE  {now, happened}' \subseteq Nat /\ HistoryTypeOK'
  <2>1. [created_at |-> now, event_type |-> "SCHEDULER", pin_state |-> pin] \in Events
    <3>1. pin \in BOOLEAN \cup {Absent}
      BY OnAtIsBoolean
    <3> QED
      BY <1>1, <3>1 DEF Events, EventTypes
  <2> QED
    BY <1>1, <1>4, <2>1 DEF Audit, Happens, Passes, HistoryTypeOK
<1> QED
  BY <1>2, <1>3, <1>4 DEF HistoryNext

\* What one more event makes of the stored ones.
LEMMA EventsAppended ==
  ASSUME HistoryTypeOK, NEW e \in Events, events' = Append(events, e)
  PROVE  /\ ToSet(events') = ToSet(events) \cup {e}
         /\ (/\ \A i, j \in DOMAIN events : i # j => events[i].created_at # events[j].created_at
             /\ \A b \in ToSet(events) : e.created_at # b.created_at)
            => \A i, j \in DOMAIN events' : i # j => events'[i].created_at # events'[j].created_at
<1>1. /\ Len(events) \in Nat /\ DOMAIN events = 1 .. Len(events)
      /\ DOMAIN events' = 1 .. Len(events) + 1
      /\ \A i \in DOMAIN events : events'[i] = events[i]
      /\ events'[Len(events) + 1] = e
  BY DEF HistoryTypeOK
<1>2. \A i \in DOMAIN events' : i \in DOMAIN events \/ i = Len(events) + 1
  BY <1>1
<1>3. DOMAIN events \subseteq DOMAIN events' /\ Len(events) + 1 \in DOMAIN events'
  BY <1>1
<1>4. ToSet(events') = ToSet(events) \cup {e}
  BY <1>1, <1>2, <1>3 DEF ToSet
<1>5. ASSUME /\ \A i, j \in DOMAIN events : i # j => events[i].created_at # events[j].created_at
             /\ \A b \in ToSet(events) : e.created_at # b.created_at,
             NEW i \in DOMAIN events', NEW j \in DOMAIN events', i # j
      PROVE  events'[i].created_at # events'[j].created_at
  <2>1. \A k \in DOMAIN events : events[k] \in ToSet(events)
    BY DEF ToSet
  <2> QED
    BY <1>1, <1>2, <1>5, <2>1
<1> QED
  BY <1>4, <1>5

\* What the device was is not changed by what it does now.
LEMMA PastIsSettled ==
  ASSUME HistoryTypeOK, now \in Nat, toggles' \subseteq toggles \cup {now},
         toggles \subseteq toggles', NEW t \in Nat, t < now
  PROVE  OnAt(t)' = OnAt(t)
<1>1. \A s \in toggles' : s <= t => s \in toggles
  OBVIOUS
<1>2. {s \in toggles' : s <= t} = {s \in toggles : s <= t}
  BY <1>1
<1> QED
  BY <1>2 DEF OnAt


LEMMA StaysTrue ==
  ASSUME HistoryTypeOK, EventsTrue, now \in Nat, now' \in Nat, now <= now',
         toggles \subseteq toggles', toggles' \subseteq toggles \cup {now},
         NEW e \in unsent \cup ToSet(events)
  PROVE  IsTrue(e)'
<1>1. e.created_at \in Nat
  <2>1. e \in Events
    BY DEF HistoryTypeOK, ToSet
  <2> QED
    BY <2>1 DEF Events
<1>2. e.created_at < now /\ (e.pin_state # Absent => e.pin_state = OnAt(e.created_at))
  BY DEF EventsTrue, IsTrue
<1>3. PICK t \in Nat : t = e.created_at
  BY <1>1
<1>4. OnAt(t)' = OnAt(t)
  BY <1>2, <1>3, PastIsSettled
<1>5. OnAt(e.created_at)' = OnAt(e.created_at)
  BY <1>3, <1>4 DEF OnAt
<1> QED
  BY <1>1, <1>2, <1>5 DEF IsTrue

\* Switched now, the device is what it was not.
LEMMA SwitchIs ==
  ASSUME HistoryTypeOK, EventsTrue, now \in Nat, toggles' = toggles \cup {now},
         NEW t, t = now
  PROVE  OnAt(t)' <=> ~OnAt(t)
<1> DEFINE k == Cardinality(toggles)
<1>1. \A s \in toggles : s \in Nat /\ s < now
  BY DEF EventsTrue, HistoryTypeOK
<1>2. IsFiniteSet(toggles) /\ k \in Nat
  <2>1. toggles \in SUBSET Nat /\ \A s \in toggles : s <= now
    BY <1>1
  <2> QED
    BY <2>1, FS_BoundedSetOfNaturals, FS_CardinalityType
<1>3. Cardinality(toggles') = k + 1
  <2>1. now \notin toggles
    BY <1>1
  <2> QED
    BY <1>2, <2>1, FS_AddElement
<1>4. {s \in toggles : s <= t} = toggles /\ {s \in toggles' : s <= t} = toggles'
  <2>1. \A s \in toggles : s <= t
    BY <1>1
  <2>2. \A s \in toggles' : s <= t
    BY <2>1
  <2> QED
    BY <2>1, <2>2
<1>5. OnAt(t) <=> k % 2 = 1
  <2>1. Cardinality({s \in toggles : s <= t}) = k
    BY <1>4
  <2> QED
    BY <2>1, Zenon DEF OnAt
<1>6. OnAt(t)' <=> Cardinality(toggles') % 2 = 1
  <2>1. Cardinality({s \in toggles' : s <= t}) = Cardinality(toggles')
    BY <1>4
  <2> QED
    BY <2>1, Zenon DEF OnAt
<1>7. k % 2 = 1 <=> ~((k + 1) % 2 = 1)
  BY <1>2
<1> HIDE DEF k
<1>8. OnAt(t)' <=> (k + 1) % 2 = 1
  BY <1>3, <1>6, Zenon
<1> QED
  BY <1>5, <1>7, <1>8, Zenon

LEMMA SwitchTrue ==
  ASSUME HistoryTypeOK, EventsTrue, now \in Nat, Switch
  PROVE  EventsTrue'
<1>1. PICK t : t = now
  OBVIOUS
<1>2. PICK pin : pin = ~OnAt(t)
  OBVIOUS
<1>3. PICK e : e = [created_at |-> t, event_type |-> "STATE", pin_state |-> pin]
  OBVIOUS
<1>4. /\ now' = now + 1 /\ toggles' = toggles \cup {now}
      /\ unsent' = unsent \cup {e} /\ events' = events
  BY <1>1, <1>2, <1>3 DEF Switch, Passes
<1>5. e.created_at = t /\ e.pin_state = pin
  BY <1>3
<1>6. OnAt(t)' = pin
  <2>1. OnAt(t)' <=> ~OnAt(t)
    BY <1>1, <1>4, SwitchIs
  <2>2. pin \in BOOLEAN /\ OnAt(t)' \in BOOLEAN
    BY <1>2, OnAtIsBoolean
  <2> QED
    BY <2>1, <2>2, <1>2
<1>7. IsTrue(e)'
  <2>1. OnAt(e.created_at)' = e.pin_state
    BY <1>5, <1>6 DEF OnAt
  <2> QED
    BY <2>1, <1>1, <1>4, <1>5 DEF IsTrue
<1>8. \A a \in unsent \cup ToSet(events) : IsTrue(a)' /\ a.created_at # e.created_at
  <2> SUFFICES ASSUME NEW a \in unsent \cup ToSet(events)
               PROVE  IsTrue(a)' /\ a.created_at # e.created_at
    OBVIOUS
  <2>1. IsTrue(a)'
    BY <1>4, StaysTrue
  <2>2. a.created_at < now
    BY DEF EventsTrue, IsTrue
  <2>3. a.created_at \in Nat
    <3>1. a \in Events
      BY DEF HistoryTypeOK, ToSet
    <3> QED
      BY <3>1 DEF Events
  <2> QED
    BY <2>1, <2>2, <2>3, <1>1, <1>5
<1>9. \A s \in toggles' : s < now'
  BY <1>4 DEF EventsTrue, HistoryTypeOK
<1>10. ToSet(events)' = ToSet(events)
  BY <1>4 DEF ToSet
<1>11. \A a \in unsent' \cup ToSet(events)' : IsTrue(a)'
  BY <1>4, <1>7, <1>8, <1>10
<1>12. \A a, b \in unsent' : a.created_at = b.created_at => a = b
  BY <1>4, <1>8 DEF EventsTrue
<1>13. \A a \in unsent', b \in ToSet(events)' : a.created_at # b.created_at
  BY <1>4, <1>8, <1>10 DEF EventsTrue
<1>14. \A i, j \in DOMAIN events' : i # j => events'[i].created_at # events'[j].created_at
  BY <1>4 DEF EventsTrue
<1> QED
  BY <1>9, <1>11, <1>12, <1>13, <1>14 DEF EventsTrue

LEMMA StoreTrue ==
  ASSUME HistoryTypeOK, EventsTrue, now \in Nat, NEW e \in unsent, Store(e) \/ LoseEvent(e)
  PROVE  EventsTrue'
<1>1. now' = now /\ toggles' = toggles /\ unsent' = unsent \ {e}
  BY DEF Store, LoseEvent
<1>2. e \in Events
  BY DEF HistoryTypeOK
<1>3. \A a \in unsent \cup ToSet(events) : IsTrue(a)'
  BY <1>1, StaysTrue
<1>4. /\ \A a \in unsent' : a.created_at # e.created_at /\ a \in unsent
      /\ \A b \in ToSet(events) : e.created_at # b.created_at
  BY <1>1 DEF EventsTrue
<1>5. /\ ToSet(events)' \subseteq ToSet(events) \cup {e}
      /\ \A i, j \in DOMAIN events' : i # j => events'[i].created_at # events'[j].created_at
  <2>1. CASE Store(e)
    <3>1. events' = Append(events, e)
      BY <2>1 DEF Store
    <3>2. ToSet(events') = ToSet(events) \cup {e}
      BY <1>2, <3>1, EventsAppended
    <3>3. \A i, j \in DOMAIN events : i # j => events[i].created_at # events[j].created_at
      BY DEF EventsTrue
    <3>4. \A i, j \in DOMAIN events' : i # j => events'[i].created_at # events'[j].created_at
      BY <1>2, <1>4, <3>1, <3>3, EventsAppended
    <3> QED
      BY <3>2, <3>4
  <2>2. CASE LoseEvent(e)
    <3>1. events' = events
      BY <2>2 DEF LoseEvent
    <3> QED
      BY <3>1 DEF EventsTrue, ToSet
  <2> QED
    BY <2>1, <2>2
<1>6. \A a \in unsent' \cup ToSet(events)' : IsTrue(a)'
  BY <1>1, <1>3, <1>5
<1>7. \A s \in toggles' : s < now'
  BY <1>1 DEF EventsTrue
<1>8. \A a, b \in unsent' : a.created_at = b.created_at => a = b
  BY <1>4 DEF EventsTrue
<1>9. \A a \in unsent', b \in ToSet(events)' : a.created_at # b.created_at
  BY <1>4, <1>5 DEF EventsTrue
<1> QED
  BY <1>5, <1>6, <1>7, <1>8, <1>9 DEF EventsTrue

LEMMA AuditTrue ==
  ASSUME HistoryTypeOK, EventsTrue, now \in Nat,
         NEW pin \in {OnAt(now), Absent}, Audit(pin)
  PROVE  EventsTrue'
<1>1. PICK t : t = now
  OBVIOUS
<1>2. PICK e : e = [created_at |-> t, event_type |-> "SCHEDULER", pin_state |-> pin]
  OBVIOUS
<1>3. /\ now' = now + 1 /\ toggles' = toggles /\ unsent' = unsent
      /\ events' = Append(events, e)
  BY <1>1, <1>2 DEF Audit, Passes
<1>4. e.created_at = t /\ e.pin_state = pin
  BY <1>2
<1>5. e \in Events
  <2>1. pin \in BOOLEAN \cup {Absent}
    BY OnAtIsBoolean
  <2> QED
    BY <1>1, <1>2, <2>1 DEF Events, EventTypes
<1>6. OnAt(t)' = OnAt(t)
  BY <1>3 DEF OnAt
<1>7. IsTrue(e)'
  <2>1. OnAt(e.created_at)' = OnAt(now)
    BY <1>1, <1>4, <1>6 DEF OnAt
  <2> QED
    BY <2>1, <1>1, <1>3, <1>4 DEF IsTrue
<1>8. \A a \in unsent \cup ToSet(events) : IsTrue(a)' /\ e.created_at # a.created_at
  <2> SUFFICES ASSUME NEW a \in unsent \cup ToSet(events)
               PROVE  IsTrue(a)' /\ e.created_at # a.created_at
    OBVIOUS
  <2>1. IsTrue(a)'
    BY <1>3, StaysTrue
  <2>2. a.created_at < now
    BY DEF EventsTrue, IsTrue
  <2>3. a.created_at \in Nat
    <3>1. a \in Events
      BY DEF HistoryTypeOK, ToSet
    <3> QED
      BY <3>1 DEF Events
  <2> QED
    BY <2>1, <2>2, <2>3, <1>1, <1>4
<1>9. ToSet(events)' = ToSet(events) \cup {e}
  BY <1>3, <1>5, EventsAppended
<1>10. \A i, j \in DOMAIN events' : i # j => events'[i].created_at # events'[j].created_at
  <2>1. \A i, j \in DOMAIN events : i # j => events[i].created_at # events[j].created_at
    BY DEF EventsTrue
  <2>2. \A b \in ToSet(events) : e.created_at # b.created_at
    BY <1>8
  <2> QED
    BY <1>3, <1>5, <2>1, <2>2, EventsAppended
<1>11. \A s \in toggles' : s < now'
  BY <1>3 DEF EventsTrue, HistoryTypeOK
<1>12. \A a \in unsent' \cup ToSet(events)' : IsTrue(a)'
  BY <1>3, <1>7, <1>8, <1>9
<1>13. \A a, b \in unsent' : a.created_at = b.created_at => a = b
  BY <1>3 DEF EventsTrue
<1>14. \A a \in unsent', b \in ToSet(events)' : a.created_at # b.created_at
  BY <1>3, <1>8, <1>9 DEF EventsTrue
<1> QED
  BY <1>10, <1>11, <1>12, <1>13, <1>14 DEF EventsTrue

\* Time that passes changes nothing of it.
LEMMA WaitTrue ==
  ASSUME HistoryTypeOK, EventsTrue, now \in Nat, now' \in Nat, now <= now',
         UNCHANGED historyVars
  PROVE  EventsTrue'
<1>1. toggles' = toggles /\ unsent' = unsent /\ events' = events
  BY DEF historyVars
<1>2. ToSet(events)' = ToSet(events)
  BY <1>1 DEF ToSet
<1>3. \A a \in unsent' \cup ToSet(events)' : IsTrue(a)'
  BY <1>1, <1>2, StaysTrue
<1>4. \A s \in toggles' : s < now'
  BY <1>1 DEF EventsTrue, HistoryTypeOK
<1> QED
  BY <1>1, <1>2, <1>3, <1>4 DEF EventsTrue

LEMMA HistoryTrue ==
  ASSUME HistoryTypeOK, EventsTrue, now \in Nat, HistoryNext
  PROVE  EventsTrue'
BY SwitchTrue, StoreTrue, AuditTrue DEF HistoryNext

(* The times of measurements. *)

LEMMA FetchedNow ==
  ASSUME NEW a, NEW m \in Fetched(a)
  PROVE  m.at = now
BY DEF Fetched

LEMMA TimesTyped ==
  ASSUME TelemetryTypeOK
  PROVE  /\ \A r \in ToSet(rows) : r.at \in Nat
         /\ \A w \in Pollers : InHand(w) =>
              polls[w].measurement \in Measurements /\ polls[w].measurement.at \in Nat
<1>1. ASSUME NEW r \in ToSet(rows) PROVE r.at \in Nat
  <2>1. \A i \in DOMAIN rows : rows[i] \in Measurements
    BY DEF TelemetryTypeOK
  <2>2. r \in Measurements
    BY <2>1 DEF ToSet
  <2> QED
    BY <2>2 DEF Measurements
<1>2. ASSUME NEW w \in Pollers, InHand(w)
      PROVE  polls[w].measurement \in Measurements /\ polls[w].measurement.at \in Nat
  <2>1. polls[w].measurement \in Measurements
    BY <1>2 DEF InHand, TelemetryTypeOK, Polls
  <2> QED
    BY <2>1 DEF Measurements
<1> QED
  BY <1>1, <1>2

\* A step that measures and stores nothing.
LEMMA MeasuredKept ==
  ASSUME TelemetryTypeOK, MeasuredOnce, now \in Nat, now' \in Nat, now <= now', now' <= Horizon,
         ToSet(rows') \subseteq ToSet(rows),
         \A w \in Pollers : InHand(w)' =>
           InHand(w) /\ polls'[w].measurement = polls[w].measurement
  PROVE  MeasuredOnce'
<1>1. \A r \in ToSet(rows') : r \in ToSet(rows) /\ r.at \in Nat /\ r.at < now'
  BY TimesTyped DEF MeasuredOnce
<1>2. \A a, b \in ToSet(rows') : a.at = b.at => a = b
  BY DEF MeasuredOnce
<1>3. ASSUME NEW w \in Pollers, InHand(w)'
      PROVE  /\ polls'[w].measurement.at < now'
             /\ \A r \in ToSet(rows') : r.at # polls'[w].measurement.at
  <2>1. InHand(w) /\ polls'[w].measurement = polls[w].measurement
    BY <1>3
  <2>2. polls[w].measurement.at \in Nat /\ polls[w].measurement.at < now
    BY <2>1, TimesTyped DEF MeasuredOnce
  <2>3. \A r \in ToSet(rows) : r.at # polls[w].measurement.at
    BY <2>1 DEF MeasuredOnce
  <2> QED
    BY <1>1, <2>1, <2>2, <2>3
<1>4. ASSUME NEW v \in Pollers, NEW w \in Pollers, v # w, InHand(v)', InHand(w)'
      PROVE  polls'[v].measurement.at # polls'[w].measurement.at
  <2>1. InHand(v) /\ InHand(w) /\ polls'[v].measurement = polls[v].measurement
        /\ polls'[w].measurement = polls[w].measurement
    BY <1>4
  <2>2. polls[v].measurement.at # polls[w].measurement.at
    BY <1>4, <2>1 DEF MeasuredOnce
  <2> QED
    BY <2>1, <2>2
<1>5. now' <= Horizon
  OBVIOUS
<1> QED
  BY <1>1, <1>2, <1>3, <1>4, <1>5 DEF MeasuredOnce

LEMMA FetchMeasured ==
  ASSUME TelemetryTypeOK, MeasuredOnce, now \in Nat, NEW w \in Pollers, Fetch(w)
  PROVE  MeasuredOnce'
<1>1. /\ polls[w] # Absent /\ polls[w].measurement = Absent
      /\ now < Horizon /\ now' = now + 1 /\ rows' = rows
  BY DEF Fetch, Passes
<1>2. PICK m \in Fetched(polls[w].adapter) : polls' = [polls EXCEPT ![w].measurement = m]
  BY DEF Fetch
<1>3. polls \in [Pollers -> Polls \cup {Absent}] /\ polls[w] \in Polls
  BY <1>1 DEF TelemetryTypeOK
<1>4. polls'[w].measurement = m /\ \A v \in Pollers : v # w => polls'[v] = polls[v]
  BY <1>2, <1>3 DEF Polls
<1>5. m.at = now
  BY FetchedNow
<1>6. PICK t \in Nat : t = now
  OBVIOUS
<1>7. /\ \A r \in ToSet(rows) : r.at \in Nat /\ r.at < t
      /\ \A v \in Pollers : InHand(v) =>
           polls[v].measurement.at \in Nat /\ polls[v].measurement.at < t
  BY <1>6, TimesTyped DEF MeasuredOnce
<1>8. now' <= Horizon /\ now' = t + 1 /\ m.at = t
  <2>1. Horizon \in Nat
    BY ClockAssumption
  <2> QED
    BY <1>1, <1>5, <1>6, <2>1
<1>9. \A v \in Pollers : v # w /\ InHand(v)' =>
        InHand(v) /\ polls'[v].measurement = polls[v].measurement
  BY <1>4 DEF InHand
<1>10. \A a, b \in ToSet(rows) : a.at = b.at => a = b
  BY DEF MeasuredOnce
<1>11. ASSUME NEW v \in Pollers, InHand(v)'
       PROVE  /\ polls'[v].measurement.at < now'
              /\ \A r \in ToSet(rows) : r.at # polls'[v].measurement.at
  <2>1. CASE v = w
    BY <1>4, <1>7, <1>8, <2>1
  <2>2. CASE v # w
    <3>1. InHand(v) /\ polls'[v].measurement = polls[v].measurement
      BY <1>9, <1>11, <2>2
    <3>2. \A r \in ToSet(rows) : r.at # polls[v].measurement.at
      BY <3>1 DEF MeasuredOnce
    <3>3. polls[v].measurement.at \in Nat /\ polls[v].measurement.at < t
      BY <1>7, <3>1
    <3> QED
      BY <1>8, <3>1, <3>2, <3>3
  <2> QED
    BY <2>1, <2>2
<1>12. ASSUME NEW u \in Pollers, NEW v \in Pollers, u # v, InHand(u)', InHand(v)'
       PROVE  polls'[u].measurement.at # polls'[v].measurement.at
  <2>1. ASSUME NEW x \in Pollers, x # w, InHand(x)'
        PROVE  polls'[x].measurement.at # polls'[w].measurement.at
    <3>1. InHand(x) /\ polls'[x].measurement = polls[x].measurement
      BY <1>9, <2>1
    <3> QED
      BY <1>4, <1>7, <1>8, <3>1
  <2>2. CASE u # w /\ v # w
    <3>1. /\ InHand(u) /\ polls'[u].measurement = polls[u].measurement
          /\ InHand(v) /\ polls'[v].measurement = polls[v].measurement
      BY <1>9, <1>12, <2>2
    <3>2. polls[u].measurement.at # polls[v].measurement.at
      BY <1>12, <3>1 DEF MeasuredOnce
    <3> QED
      BY <3>1, <3>2
  <2> QED
    BY <1>12, <2>1, <2>2
<1>13. \A r \in ToSet(rows) : r.at < now'
  BY <1>7, <1>8
<1> QED
  BY <1>1, <1>8, <1>10, <1>11, <1>12, <1>13 DEF MeasuredOnce

LEMMA SaveMeasured ==
  ASSUME TelemetryTypeOK, MeasuredOnce, now \in Nat, NEW w \in Pollers, PollInv(w), Save(w)
  PROVE  MeasuredOnce'
<1> DEFINE m == polls[w].measurement
<1>1. /\ polls[w] # Absent /\ polls[w].seen # Absent
      /\ rows' = Append(rows, m)
      /\ polls' = [polls EXCEPT ![w] = Absent]
      /\ now' = now
  BY DEF Save
<1>2. InHand(w)
  BY <1>1 DEF PollInv, InHand
<1>3. m \in Measurements /\ m.at \in Nat
  BY <1>2, TimesTyped
<1>4. ToSet(rows') = ToSet(rows) \cup {m}
  <2>1. rows \in Seq(Measurements)
    BY DEF TelemetryTypeOK
  <2> HIDE DEF m
  <2> QED
    BY <1>1, <1>3, <2>1 DEF ToSet
<1>5. /\ m.at < now /\ \A r \in ToSet(rows) : r.at # m.at
      /\ \A v \in Pollers : v # w /\ InHand(v) => polls[v].measurement.at # m.at
  BY <1>2 DEF MeasuredOnce
<1>6. \A v \in Pollers : InHand(v)' => v # w /\ InHand(v) /\ polls'[v] = polls[v]
  BY <1>1 DEF InHand, TelemetryTypeOK
<1> HIDE DEF m
<1>7. now' <= Horizon /\ \A r \in ToSet(rows') : r.at < now'
  BY <1>1, <1>4, <1>5 DEF MeasuredOnce
<1>8. \A a, b \in ToSet(rows') : a.at = b.at => a = b
  BY <1>4, <1>5 DEF MeasuredOnce
<1>9. ASSUME NEW v \in Pollers, InHand(v)'
      PROVE  /\ polls'[v].measurement.at < now'
             /\ \A r \in ToSet(rows') : r.at # polls'[v].measurement.at
  <2>1. v # w /\ InHand(v) /\ polls'[v] = polls[v]
    BY <1>6, <1>9
  <2>2. polls[v].measurement.at < now /\ \A r \in ToSet(rows) : r.at # polls[v].measurement.at
    BY <2>1 DEF MeasuredOnce
  <2> QED
    BY <1>1, <1>4, <1>5, <2>1, <2>2
<1>10. ASSUME NEW u \in Pollers, NEW v \in Pollers, u # v, InHand(u)', InHand(v)'
       PROVE  polls'[u].measurement.at # polls'[v].measurement.at
  <2>1. InHand(u) /\ polls'[u] = polls[u] /\ InHand(v) /\ polls'[v] = polls[v]
    BY <1>6, <1>10
  <2>2. polls[u].measurement.at # polls[v].measurement.at
    BY <1>10, <2>1 DEF MeasuredOnce
  <2> QED
    BY <2>1, <2>2
<1> QED
  BY <1>7, <1>8, <1>9, <1>10 DEF MeasuredOnce

LEMMA TelemetryMeasured ==
  ASSUME PastInv, TelemetryNext
  PROVE  MeasuredOnce'
<1>1. /\ TelemetryTypeOK /\ MeasuredOnce /\ now \in Nat /\ now <= Horizon
      /\ polls \in [Pollers -> Polls \cup {Absent}]
      /\ \A w \in Pollers : PollInv(w)
  BY DEF PastInv, PastTypeOK, TelemetryTypeOK, MeasuredOnce
<1>2. ASSUME NEW w \in Pollers, NEW own \in BOOLEAN, StartPoll(w, own) PROVE MeasuredOnce'
  <2>1. now' = now /\ rows' = rows
    BY <1>2 DEF StartPoll
  <2>2. \A v \in Pollers : InHand(v)' =>
          InHand(v) /\ polls'[v].measurement = polls[v].measurement
    BY <1>1, <1>2 DEF StartPoll, InHand
  <2> QED
    BY <1>1, <2>1, <2>2, MeasuredKept
<1>3. ASSUME NEW w \in Pollers, AbandonPoll(w) PROVE MeasuredOnce'
  <2>1. now' = now /\ rows' = rows
    BY <1>3 DEF AbandonPoll
  <2>2. \A v \in Pollers : InHand(v)' =>
          InHand(v) /\ polls'[v].measurement = polls[v].measurement
    BY <1>1, <1>3 DEF AbandonPoll, InHand
  <2> QED
    BY <1>1, <2>1, <2>2, MeasuredKept
<1>4. ASSUME NEW w \in Pollers, StartSave(w) PROVE MeasuredOnce'
  <2>1. now' = now /\ rows' = rows
    BY <1>4 DEF StartSave
  <2>2. PICK known : polls' = [polls EXCEPT ![w].known = known, ![w].seen = definitions]
    BY <1>4 DEF StartSave
  <2>3. polls[w] \in Polls
    BY <1>1, <1>4 DEF StartSave
  <2>4. \A v \in Pollers : InHand(v)' =>
          InHand(v) /\ polls'[v].measurement = polls[v].measurement
    <3>1. \A v \in Pollers : v # w => polls'[v] = polls[v]
      BY <1>1, <2>2
    <3>2. polls'[w].measurement = polls[w].measurement /\ InHand(w)
      BY <1>1, <1>4, <2>2, <2>3 DEF Polls, StartSave, InHand
    <3> QED
      BY <3>1, <3>2 DEF InHand
  <2> QED
    BY <1>1, <2>1, <2>4, MeasuredKept
<1>5. ASSUME polls' = Overlapped
      PROVE  \A v \in Pollers : InHand(v)' =>
               InHand(v) /\ polls'[v].measurement = polls[v].measurement
  <2> SUFFICES ASSUME NEW v \in Pollers, InHand(v)'
               PROVE  InHand(v) /\ polls'[v].measurement = polls[v].measurement
    OBVIOUS
  <2>1. polls'[v] = IF polls[v] = Absent THEN Absent ELSE [polls[v] EXCEPT !.overlapped = TRUE]
    BY <1>5 DEF Overlapped
  <2>2. polls[v] # Absent /\ polls[v] \in Polls /\ polls'[v] = [polls[v] EXCEPT !.overlapped = TRUE]
    BY <1>1, <2>1 DEF InHand
  <2>3. polls'[v].measurement = polls[v].measurement
    BY <2>2 DEF Polls
  <2> QED
    BY <2>2, <2>3 DEF InHand
<1>6. ASSUME NEW p \in Shapes, UpdatePolled(p) PROVE MeasuredOnce'
  <2>1. now' = now /\ rows' = rows /\ polls' = Overlapped
    BY <1>6 DEF UpdatePolled
  <2> QED
    BY <1>1, <1>5, <2>1, MeasuredKept
<1>7. ASSUME DeletePolled PROVE MeasuredOnce'
  <2>1. now' = now /\ ToSet(rows') = {} /\ polls' = Overlapped
    BY <1>7 DEF DeletePolled, ToSet
  <2> QED
    BY <1>1, <1>5, <2>1, MeasuredKept
<1> QED
  BY <1>1, <1>2, <1>3, <1>4, <1>6, <1>7, FetchMeasured, SaveMeasured DEF TelemetryNext

\* Nothing of the measurements changes while time passes.
LEMMA MeasuredWait ==
  ASSUME PastInv, UNCHANGED telemetryVars, now' = now \/ Passes
  PROVE  MeasuredOnce'
<1>1. TelemetryTypeOK /\ MeasuredOnce /\ now \in Nat /\ now <= Horizon
  BY DEF PastInv, PastTypeOK, MeasuredOnce
<1>2. Horizon \in Nat
  BY ClockAssumption
<1>3. now' \in Nat /\ now <= now' /\ now' <= Horizon
  BY <1>1, <1>2 DEF Passes
<1>4. rows' = rows /\ polls' = polls
  BY DEF telemetryVars
<1>5. \A w \in Pollers : InHand(w)' => InHand(w) /\ polls'[w].measurement = polls[w].measurement
  BY <1>4 DEF InHand
<1> QED
  BY <1>1, <1>3, <1>4, <1>5, MeasuredKept

LEMMA ClockTyped ==
  ASSUME PastInv, TelemetryNext
  PROVE  {now, happened}' \subseteq Nat /\ now <= now'
<1>1. ASSUME NEW w \in Pollers
      PROVE  /\ \A own \in BOOLEAN : StartPoll(w, own) => now' = now /\ Happens
             /\ Fetch(w) => Passes /\ happened' = happened
             /\ AbandonPoll(w) \/ StartSave(w) \/ Save(w) =>
                  now' = now /\ happened' = happened
  BY DEF StartPoll, Fetch, AbandonPoll, StartSave, Save
<1>2. DeletePolled \/ (\E p \in Shapes : UpdatePolled(p)) =>
        now' = now /\ Happens
  BY DEF UpdatePolled, DeletePolled
<1>3. now' = now \/ Passes
  BY <1>1, <1>2 DEF TelemetryNext
<1>4. happened' = happened \/ Happens
  BY <1>1, <1>2 DEF TelemetryNext
<1> QED
  BY <1>3, <1>4 DEF PastInv, PastTypeOK, Happens, Passes

LEMMA PastInitInv ==
  ASSUME PastInit
  PROVE  PastInv
<1>1. {now, happened} \subseteq Nat /\ HistoryTypeOK
  BY DEF PastInit, HistoryInit, HistoryTypeOK
<1>2. TelemetryTypeOK
  <2>1. rows \in Seq(Measurements) /\ ToSet(rows) = {} /\ DOMAIN cache = {}
    BY DEF PastInit, TelemetryInit, ToSet
  <2> QED
    BY <2>1, TelemetryAssumption DEF PastInit, TelemetryInit, TelemetryTypeOK
<1>3. CachedByKey /\ \A w \in Pollers : PollInv(w)
  BY DEF PastInit, TelemetryInit, CachedByKey, PollInv
<1>4. EventsTrue
  BY DEF PastInit, HistoryInit, EventsTrue, ToSet
<1>5. MeasuredOnce
  <2>1. ToSet(rows) = {} /\ now = 0 /\ Horizon \in Nat /\ \A w \in Pollers : polls[w] = Absent
    BY ClockAssumption DEF PastInit, TelemetryInit, ToSet
  <2> QED
    BY <2>1 DEF MeasuredOnce, InHand
<1> QED
  BY <1>1, <1>2, <1>3, <1>4, <1>5 DEF PastInv, PastTypeOK

\* A capability comes back only as ClearedStaysCleared says.
StaysCleared ==
  guarded /\ polled # Absent /\ polled' # Absent =>
    \A c \in Capabilities : ~polled[c] /\ polled'[c] =>
      \/ happened' # happened
      \/ \E w \in Pollers : /\ polls[w] # Absent /\ polls'[w] = Absent
                            /\ polls[w].overlapped

LEMMA TelemetryStep ==
  ASSUME PastInv, TelemetryNext
  PROVE  /\ TelemetryTypeOK' /\ CachedByKey' /\ \A v \in Pollers : PollInv(v)'
         /\ StaysCleared
<1>1. ASSUME NEW w \in Pollers, NEW own \in BOOLEAN, StartPoll(w, own)
      PROVE  /\ TelemetryTypeOK' /\ CachedByKey' /\ \A v \in Pollers : PollInv(v)'
             /\ StaysCleared
  BY <1>1, StartPollInv DEF StartPoll, StaysCleared
<1>2. ASSUME NEW w \in Pollers, Fetch(w)
      PROVE  /\ TelemetryTypeOK' /\ CachedByKey' /\ \A v \in Pollers : PollInv(v)'
             /\ StaysCleared
  BY <1>2, FetchInv DEF Fetch, StaysCleared
<1>3. ASSUME NEW w \in Pollers, AbandonPoll(w)
      PROVE  /\ TelemetryTypeOK' /\ CachedByKey' /\ \A v \in Pollers : PollInv(v)'
             /\ StaysCleared
  BY <1>3, AbandonPollInv DEF AbandonPoll, StaysCleared
<1>4. ASSUME NEW w \in Pollers, StartSave(w)
      PROVE  /\ TelemetryTypeOK' /\ CachedByKey' /\ \A v \in Pollers : PollInv(v)'
             /\ StaysCleared
  BY <1>4, StartSaveInv DEF StartSave, StaysCleared
<1>5. ASSUME NEW w \in Pollers, Save(w)
      PROVE  /\ TelemetryTypeOK' /\ CachedByKey' /\ \A v \in Pollers : PollInv(v)'
             /\ StaysCleared
  <2>1. polls[w] # Absent /\ polls'[w] = Absent
    BY <1>5 DEF Save, PastInv, PastTypeOK, TelemetryTypeOK
  <2> QED
    BY <1>5, <2>1, SaveInv DEF StaysCleared
<1>6. ASSUME NEW p \in Shapes, UpdatePolled(p)
      PROVE  /\ TelemetryTypeOK' /\ CachedByKey' /\ \A v \in Pollers : PollInv(v)'
             /\ StaysCleared
  <2>1. happened' # happened
    BY <1>6 DEF UpdatePolled, Happens, PastInv, PastTypeOK
  <2> QED
    BY <1>6, <2>1, PolledUpdatedInv DEF StaysCleared
<1>7. ASSUME DeletePolled
      PROVE  /\ TelemetryTypeOK' /\ CachedByKey' /\ \A v \in Pollers : PollInv(v)'
             /\ StaysCleared
  BY <1>7, PolledDeletedInv DEF DeletePolled, StaysCleared
<1> QED
  BY <1>1, <1>2, <1>3, <1>4, <1>5, <1>6, <1>7 DEF TelemetryNext

LEMMA PastStep ==
  ASSUME PastInv, [PastNext]_pastVars
  PROVE  PastInv' /\ [StaysCleared]_<<now, happened, telemetryVars>>
<1>1. CASE TelemetryNext /\ UNCHANGED historyVars
  <2>1. HistoryTypeOK'
    BY <1>1 DEF historyVars, PastInv, PastTypeOK, HistoryTypeOK
  <2>2. now \in Nat /\ HistoryTypeOK /\ EventsTrue
    BY DEF PastInv, PastTypeOK
  <2>3. {now, happened}' \subseteq Nat /\ now <= now'
    BY <1>1, ClockTyped
  <2>4. EventsTrue'
    BY <1>1, <2>2, <2>3, WaitTrue
  <2>5. MeasuredOnce'
    BY <1>1, TelemetryMeasured
  <2> QED
    BY <1>1, <2>1, <2>3, <2>4, <2>5, TelemetryStep DEF PastInv, PastTypeOK
<1>2. CASE /\ UNCHANGED telemetryVars /\ (now' = now \/ Passes)
           /\ {now, happened}' \subseteq Nat /\ HistoryTypeOK' /\ EventsTrue'
  <2>1. TelemetryTypeOK' /\ CachedByKey' /\ \A v \in Pollers : PollInv(v)'
    BY <1>2 DEF telemetryVars, PastInv, PastTypeOK, TelemetryTypeOK, CachedByKey, PollInv,
                ToSet
  <2>2. StaysCleared
    BY <1>2 DEF telemetryVars, StaysCleared
  <2>3. MeasuredOnce'
    BY <1>2, MeasuredWait
  <2> QED
    BY <1>2, <2>1, <2>2, <2>3 DEF PastInv, PastTypeOK
<1>3. CASE HistoryNext /\ UNCHANGED telemetryVars
  <2>1. EventsTrue'
    BY <1>3, HistoryTrue DEF PastInv, PastTypeOK
  <2>2. now' = now \/ Passes
    BY <1>3 DEF HistoryNext, Switch, Store, LoseEvent, Audit
  <2> QED
    BY <1>2, <1>3, <2>1, <2>2, HistoryTyped
<1>4. CASE Tick \/ UNCHANGED pastVars
  <2>1. /\ UNCHANGED <<happened, historyVars, telemetryVars>>
        /\ now' = now \/ Passes
    BY <1>4 DEF Tick, pastVars
  <2>2. now \in Nat /\ now' \in Nat /\ now <= now' /\ HistoryTypeOK /\ EventsTrue
    BY <2>1 DEF PastInv, PastTypeOK, Passes
  <2>3. EventsTrue'
    BY <2>1, <2>2, WaitTrue
  <2>4. /\ UNCHANGED telemetryVars
        /\ {now, happened}' \subseteq Nat
    BY <1>4, <2>1, <2>2 DEF Tick, pastVars, PastInv, PastTypeOK
  <2>5. HistoryTypeOK'
    BY <2>1, <2>2 DEF historyVars, HistoryTypeOK
  <2> QED
    BY <1>2, <2>1, <2>3, <2>4, <2>5
<1> QED
  BY <1>1, <1>3, <1>4 DEF PastNext

\* Adapters are cached under the key they were created with, and a poll that no
\* user's change has overlapped has an adapter without any capability that the
\* provider lacks (create_adapter_for_provider, save_measurement).
THEOREM PastInvariance == PastSpec => []PastInv
BY PastInitInv, PastStep, PTL DEF PastSpec

\* What is kept of the past has its type, and the definitions are always those of
\* the samples that are stored.
THEOREM PastTypes == PastSpec => []PastTypeOK
<1>1. PastInv => PastTypeOK
  BY DEF PastInv
<1> QED
  BY <1>1, PastInvariance, PTL

\* Whatever the pollers, the answers of the vendor and the edits: a cleared
\* capability comes back only by a user, or by the save of a poll that was under
\* way when a user changed the provider (_promote_provider_capabilities).
THEOREM CapabilitiesStayCleared == PastSpec => ClearedStaysCleared
BY PastInvariance, PastStep, PTL DEF PastSpec, ClearedStaysCleared, StaysCleared

-----------------------------------------------------------------------------
(* Numbers and orders. *)

LEMMA LeastNumber ==
  ASSUME NEW T, T \subseteq Nat, T # {}
  PROVE  \E i \in T : \A j \in T : i <= j
<1> DEFINE R == OpToRel(<, Nat)
<1>1. R = {ss \in Nat \X Nat : ss[1] < ss[2]} /\ IsWellFoundedOn(R, Nat)
  <2>1. R = {ss \in Nat \X Nat : ss[1] < ss[2]}
    BY DEF OpToRel
  <2>2. IsWellFoundedOn(R, Nat)
    BY NatLessThanWellFounded
  <2> QED
    BY <2>1, <2>2
<1> HIDE DEF R
<1>2. PICK i \in T : \A j \in T : ~ (<<j, i>> \in R)
  BY <1>1, WFMin
<1>3. \A j \in T : i <= j
  <2>1. SUFFICES ASSUME NEW j \in T, j < i PROVE FALSE
    OBVIOUS
  <2>2. <<j, i>> \in Nat \X Nat
    OBVIOUS
  <2>3. <<j, i>>[1] < <<j, i>>[2]
    BY <2>1
  <2>4. <<j, i>> \in R
    BY <1>1, <2>2, <2>3
  <2> QED
    BY <1>2, <2>4
<1> QED
  BY <1>3

LEMMA Quotient ==
  ASSUME NEW D \in Nat \ {0}, NEW t \in Nat, NEW day \in Nat
  PROVE  /\ t \div D = day <=> day * D <= t /\ t < (day + 1) * D
         /\ day * D \in Nat /\ (day + 1) * D = day * D + D
         /\ t \div D \in Nat
<1> DEFINE q == t \div D
           r == t % D
<1>2. q \in Nat /\ r \in 0 .. D - 1 /\ t = q * D + r
  BY Z3
<1>3. day * D \in Nat /\ (day + 1) * D = day * D + D /\ q * D \in Nat
  BY <1>2, Z3
<1>4. ASSUME day < q PROVE (day + 1) * D <= q * D
  <2>1. PICK k \in Nat : q = day + 1 + k
    <3>1. q - day - 1 \in Nat /\ q = day + 1 + (q - day - 1)
      BY <1>2, <1>4
    <3> QED
      BY <3>1
  <2>2. q * D = (day + 1) * D + k * D /\ k * D \in Nat
    BY <2>1, Z3
  <2> QED
    BY <2>2, <1>3
<1>5. ASSUME q < day PROVE (q + 1) * D <= day * D
  <2>1. PICK k \in Nat : day = q + 1 + k
    <3>1. day - q - 1 \in Nat /\ day = q + 1 + (day - q - 1)
      BY <1>2, <1>5
    <3> QED
      BY <3>1
  <2>2. day * D = (q + 1) * D + k * D /\ k * D \in Nat /\ (q + 1) * D = q * D + D
    BY <1>2, <2>1, Z3
  <2> QED
    BY <2>2, <1>2, <1>3
<1>6. (q + 1) * D = q * D + D
  BY <1>2, Z3
<1> HIDE DEF q, r
<1>7. q = day <=> day * D <= t /\ t < (day + 1) * D
  BY <1>2, <1>3, <1>4, <1>5, <1>6
<1> QED
  BY <1>2, <1>3, <1>7 DEF q

LEMMA UpTo ==
  ASSUME NEW n \in Nat, NEW S, 0 \in S, \A i \in 1 .. n : i - 1 \in S => i \in S
  PROVE  \A i \in 0 .. n : i \in S
<1> DEFINE T == {i \in 0 .. n : i \notin S}
<1>1. SUFFICES ASSUME T # {} PROVE FALSE
  OBVIOUS
<1>2. PICK k \in T : \A j \in T : k <= j
  <2>1. T \subseteq Nat
    OBVIOUS
  <2> HIDE DEF T
  <2> QED
    BY <1>1, <2>1, LeastNumber
<1>3. k \in 1 .. n /\ k \notin S /\ k - 1 \in 0 .. n
  OBVIOUS
<1>4. k - 1 \notin T
  <2> HIDE DEF T
  <2> QED
    BY <1>2, <1>3
<1> QED
  BY <1>3, <1>4

\* Rows of different times, and what stands at each place of their order.
Timed(found, column) ==
  /\ IsFiniteSet(found)
  /\ \A e \in found : e[column] \in Nat
  /\ \A a, b \in found : a[column] = b[column] => a = b

Earlier(found, column, e) == {a \in found : a[column] < e[column]}

LEMMA EarlierType ==
  ASSUME NEW found, NEW column, Timed(found, column), NEW e \in found
  PROVE  /\ IsFiniteSet(Earlier(found, column, e)) /\ Cardinality(found) \in Nat
         /\ Cardinality(Earlier(found, column, e)) \in 0 .. Cardinality(found) - 1
<1>1. Earlier(found, column, e) \in SUBSET (found \ {e})
  BY DEF Timed, Earlier
<1>2. /\ IsFiniteSet(found \ {e}) /\ Cardinality(found \ {e}) = Cardinality(found) - 1
      /\ Cardinality(found) \in Nat
  BY FS_RemoveElement, FS_CardinalityType DEF Timed
<1>3. /\ IsFiniteSet(Earlier(found, column, e))
      /\ Cardinality(Earlier(found, column, e)) <= Cardinality(found \ {e})
  BY <1>1, <1>2, FS_Subset
<1>4. Cardinality(Earlier(found, column, e)) \in Nat
  BY <1>3, FS_CardinalityType
<1> QED
  BY <1>2, <1>3, <1>4

LEMMA EarlierGrows ==
  ASSUME NEW found, NEW column, Timed(found, column), NEW a \in found, NEW b \in found,
         a[column] < b[column]
  PROVE  Cardinality(Earlier(found, column, a)) < Cardinality(Earlier(found, column, b))
<1>1. Earlier(found, column, a) \cup {a} \in SUBSET Earlier(found, column, b) /\ a \notin Earlier(found, column, a)
  BY DEF Earlier, Timed
<1>2. Cardinality(Earlier(found, column, a) \cup {a}) = Cardinality(Earlier(found, column, a)) + 1
  BY <1>1, EarlierType, FS_AddElement
<1>3. Cardinality(Earlier(found, column, a) \cup {a}) <= Cardinality(Earlier(found, column, b))
  BY <1>1, EarlierType, FS_Subset
<1> QED
  BY <1>2, <1>3, EarlierType

\* Every place is taken.
LEMMA EarlierOnto ==
  ASSUME NEW found, NEW column, Timed(found, column)
  PROVE  \A n \in 0 .. Cardinality(found) - 1 :
           \E e \in found : Cardinality(Earlier(found, column, e)) = n
<1> DEFINE N == Cardinality(found)
           f == [e \in found |-> Cardinality(Earlier(found, column, e))]
<1>1. N \in Nat
  BY FS_CardinalityType DEF Timed
<1>2. IsFiniteSet(0 .. N - 1) /\ Cardinality(0 .. N - 1) = N
  BY <1>1, FS_Interval
<1>3. f \in [found -> 0 .. N - 1]
  BY EarlierType
<1>4. \A a, b \in found : f[a] = f[b] => a = b
  <2> SUFFICES ASSUME NEW a \in found, NEW b \in found, a # b PROVE f[a] # f[b]
    OBVIOUS
  <2>1. a[column] < b[column] \/ b[column] < a[column]
    BY DEF Timed
  <2>2. f[a] < f[b] \/ f[b] < f[a]
    BY <2>1, EarlierGrows
  <2> QED
    BY <2>2, <1>1, <1>3
<1>5. f \in Injection(found, 0 .. N - 1)
  BY <1>3, <1>4 DEF Injection, IsInjective
<1>6. f \in Surjection(found, 0 .. N - 1)
  BY <1>2, <1>5, FS_Injection
<1> QED
  BY <1>6 DEF Surjection

LEMMA ByTimeIs ==
  ASSUME NEW found, NEW column, Timed(found, column)
  PROVE  /\ Cardinality(found) \in Nat
         /\ ByTime(found, column) \in [1 .. Cardinality(found) -> found]
         /\ \A i, j \in 1 .. Cardinality(found) :
              i < j => ByTime(found, column)[i][column] < ByTime(found, column)[j][column]
<1>1. Cardinality(found) \in Nat
  BY FS_CardinalityType DEF Timed
<1>2. ASSUME NEW n \in 1 .. Cardinality(found)
      PROVE  /\ ByTime(found, column)[n] \in found
             /\ Cardinality(Earlier(found, column, ByTime(found, column)[n])) = n - 1
  <2>1. \E e \in found : Cardinality(Earlier(found, column, e)) = n - 1
    BY <1>1, EarlierOnto
  <2>2. ByTime(found, column)[n] = CHOOSE e \in found : Cardinality(Earlier(found, column, e)) = n - 1
    BY DEF ByTime, Earlier
  <2> QED
    BY <2>1, <2>2
<1>3. ByTime(found, column) \in [1 .. Cardinality(found) -> found]
  BY <1>2 DEF ByTime
<1>4. ASSUME NEW i \in 1 .. Cardinality(found), NEW j \in 1 .. Cardinality(found), i < j
      PROVE  ByTime(found, column)[i][column] < ByTime(found, column)[j][column]
  <2> DEFINE a == ByTime(found, column)[i]
             b == ByTime(found, column)[j]
  <2>1. /\ a \in found /\ Cardinality(Earlier(found, column, a)) = i - 1
        /\ b \in found /\ Cardinality(Earlier(found, column, b)) = j - 1
    BY <1>2
  <2> HIDE DEF a, b
  <2>2. a # b
    BY <2>1, <1>4
  <2>3. ~(b[column] < a[column])
    BY <2>1, <1>4, EarlierGrows
  <2>4. a[column] \in Nat /\ b[column] \in Nat /\ a[column] # b[column]
    BY <2>1, <2>2 DEF Timed
  <2>5. a[column] < b[column]
    BY <2>3, <2>4
  <2> QED
    BY <2>5 DEF a, b
<1> QED
  BY <1>1, <1>3, <1>4

-----------------------------------------------------------------------------
(* The report of a day. *)

LEMMA DayOf ==
  ASSUME NEW t \in Nat, NEW day \in Nat
  PROVE  /\ t \div DayTicks = day <=> WindowStart(day) <= t /\ t < WindowStart(day + 1)
         /\ WindowStart(day) \in Nat /\ WindowStart(day) < WindowStart(day + 1)
         /\ t \div DayTicks \in Nat
<1>1. DayTicks \in Nat \ {0}
  BY HistoryAssumption
<1>2. /\ t \div DayTicks = day <=> day * DayTicks <= t /\ t < (day + 1) * DayTicks
      /\ day * DayTicks \in Nat /\ (day + 1) * DayTicks = day * DayTicks + DayTicks
      /\ t \div DayTicks \in Nat
  BY <1>1, Quotient
<1> QED
  BY <1>1, <1>2 DEF WindowStart

\* What a report may list: events of its window, in the order of their times.
Chronological(listed, day) ==
  /\ Len(listed) \in Nat /\ DOMAIN listed = 1 .. Len(listed)
  /\ \A i \in 1 .. Len(listed) :
       /\ listed[i].created_at \in Nat
       /\ WindowStart(day) <= listed[i].created_at /\ listed[i].created_at <= WindowEnd(day)
  /\ \A i, j \in 1 .. Len(listed) : i < j => listed[i].created_at < listed[j].created_at

LEMMA ListedIsChronological ==
  ASSUME HistoryTypeOK, EventsTrue, now \in Nat,
         NEW day \in Nat, NEW type, NEW limit \in Nat
  PROVE  LET listed == ListForDevice(day, type, limit)
         IN  /\ Chronological(listed, day)
             /\ ToSet(listed) \subseteq {e \in ToSet(events) : InWindow(day, e.created_at)}
             /\ \A i \in 1 .. Len(listed) : listed[i] \in ToSet(listed)
             /\ \A e \in ToSet(listed) : \E i \in 1 .. Len(listed) : listed[i] = e
<1> DEFINE found == {e \in ToSet(events) : InWindow(day, e.created_at)
                                            /\ type \in {Absent, e.event_type}}
           order == ByTime(found, "created_at")
           n == Min({limit, Cardinality(found)})
           listed == [i \in 1 .. n |-> order[i]]
<1>1. /\ events \in Seq(Events) /\ Len(events) \in Nat /\ DOMAIN events = 1 .. Len(events)
      /\ \A i \in DOMAIN events : events[i] \in Events
  BY DEF HistoryTypeOK
<1>2. IsFiniteSet(ToSet(events))
  <2> DEFINE f == [i \in 1 .. Len(events) |-> events[i]]
  <2>1. f \in Surjection(1 .. Len(events), ToSet(events))
    BY <1>1 DEF Surjection, ToSet
  <2>2. IsFiniteSet(1 .. Len(events))
    BY <1>1, FS_Interval
  <2> QED
    BY <2>1, <2>2, FS_Surjection
<1>3. Timed(found, "created_at")
  <2>1. IsFiniteSet(found)
    BY <1>2, FS_Subset
  <2>2. \A e \in found : e.created_at \in Nat
    BY <1>1 DEF ToSet, Events
  <2>3. \A a, b \in found : a.created_at = b.created_at => a = b
    BY DEF EventsTrue, ToSet
  <2> QED
    BY <2>1, <2>2, <2>3 DEF Timed
<1>4. /\ Cardinality(found) \in Nat
      /\ order \in [1 .. Cardinality(found) -> found]
      /\ \A i, j \in 1 .. Cardinality(found) : i < j => order[i].created_at < order[j].created_at
  BY <1>3, ByTimeIs
<1>5. \A e \in found : /\ e \in ToSet(events) /\ InWindow(day, e.created_at)
                       /\ e.created_at \in Nat
  BY <1>3 DEF Timed
<1>6. ListForDevice(day, type, limit) = listed
  BY DEF ListForDevice
<1> HIDE DEF found, order
<1>7. n \in Nat /\ n <= Cardinality(found)
  BY <1>4 DEF Min
<1> HIDE DEF n
<1>8. listed \in [1 .. n -> found] /\ \A i \in 1 .. n : listed[i] = order[i]
  BY <1>4, <1>7
<1>9. listed \in Seq(found) /\ Len(listed) = n
  BY <1>7, <1>8
<1> HIDE DEF listed
<1>10. Chronological(listed, day)
  BY <1>4, <1>5, <1>7, <1>8, <1>9 DEF Chronological, InWindow
<1>11. ToSet(listed) \subseteq {e \in ToSet(events) : InWindow(day, e.created_at)}
  BY <1>5, <1>7, <1>8, <1>9 DEF ToSet
<1>12. /\ \A i \in 1 .. Len(listed) : listed[i] \in ToSet(listed)
       /\ \A e \in ToSet(listed) : \E i \in 1 .. Len(listed) : listed[i] = e
  BY <1>8, <1>9 DEF ToSet
<1> QED
  BY <1>6, <1>10, <1>11, <1>12

-----------------------------------------------------------------------------
(* The loop counts ticks. *)

\* Until when an event holds, and the ticks the first n of them count.
Until(listed, end, i) == IF i < Len(listed) THEN listed[i + 1].created_at ELSE end

Counted(listed, end, n) ==
  {t \in Nat : \E i \in 1 .. n : /\ listed[i].pin_state = TRUE
                                 /\ listed[i].created_at <= t /\ t < Until(listed, end, i)}

LEMMA LoopIs ==
  ASSUME NEW listed, NEW end, Len(listed) \in Nat,
         NEW g, g \in [0 .. Len(listed) -> Nat], g[0] = 0,
         \A i \in 1 .. Len(listed) :
           g[i] = g[i - 1] + (IF listed[i].pin_state = TRUE
                              THEN Max({0, Until(listed, end, i) - listed[i].created_at}) ELSE 0)
  PROVE  SecondsOn(listed, end) = g[Len(listed)]
<1> DEFINE N == Len(listed)
           seconds(i) == IF listed[i].pin_state = TRUE
                         THEN Max({0, Until(listed, end, i) - listed[i].created_at}) ELSE 0
           total == CHOOSE f : f = [i \in 0 .. N |-> IF i = 0 THEN 0 ELSE f[i - 1] + seconds(i)]
<1>1. SecondsOn(listed, end) = total[N]
  BY DEF SecondsOn, Until
<1>2. g = [i \in 0 .. N |-> IF i = 0 THEN 0 ELSE g[i - 1] + seconds(i)]
  <2>1. \A i \in 1 .. N : g[i] = g[i - 1] + seconds(i)
    OBVIOUS
  <2> HIDE DEF seconds
  <2>2. \A i \in 0 .. N : g[i] = IF i = 0 THEN 0 ELSE g[i - 1] + seconds(i)
    BY <2>1
  <2> QED
    BY <2>2
<1> HIDE DEF seconds
<1>3. total = [i \in 0 .. N |-> IF i = 0 THEN 0 ELSE total[i - 1] + seconds(i)]
  BY <1>2
<1> HIDE DEF total
<1>4. \A i \in 0 .. N : total[i] = IF i = 0 THEN 0 ELSE total[i - 1] + seconds(i)
  BY <1>3
<1>5. \A i \in 0 .. N : g[i] = IF i = 0 THEN 0 ELSE g[i - 1] + seconds(i)
  BY <1>2
<1>6. \A i \in 0 .. N : total[i] = g[i]
  <2> DEFINE T == {i \in 0 .. N : total[i] # g[i]}
  <2> SUFFICES ASSUME T # {} PROVE FALSE
    OBVIOUS
  <2>1. PICK i \in T : \A j \in T : i <= j
    <3>1. T \subseteq Nat
      OBVIOUS
    <3> HIDE DEF T
    <3> QED
      BY <3>1, LeastNumber
  <2>2. i # 0
    BY <1>4, <1>5, <2>1
  <2>3. i - 1 \in 0 .. N /\ i - 1 \notin T
    BY <2>1, <2>2
  <2>4. total[i - 1] = g[i - 1]
    BY <2>3
  <2> QED
    BY <1>4, <1>5, <2>1, <2>2, <2>4
<1> QED
  BY <1>1, <1>6

LEMMA LoopCounts ==
  ASSUME NEW listed, NEW day \in Nat, now \in Nat, WindowEnd(day) \in Nat,
         Chronological(listed, day)
  PROVE  /\ IsFiniteSet(Counted(listed, WindowEnd(day), Len(listed)))
         /\ SecondsOn(listed, WindowEnd(day)) =
              Cardinality(Counted(listed, WindowEnd(day), Len(listed)))
<1> DEFINE N == Len(listed)
           end == WindowEnd(day)
           C(n) == Counted(listed, end, n)
           at(i) == listed[i].created_at
           next(i) == Until(listed, end, i)
           g == [i \in 0 .. N |-> Cardinality(C(i))]
           seconds(i) == IF listed[i].pin_state = TRUE THEN Max({0, next(i) - at(i)}) ELSE 0
<1>1. /\ N \in Nat
      /\ \A i \in 1 .. N : at(i) \in Nat /\ at(i) <= end
      /\ \A i, j \in 1 .. N : i < j => at(i) < at(j)
  BY DEF Chronological
<1>2. ASSUME NEW i \in 1 .. N
      PROVE  /\ next(i) \in Nat /\ at(i) <= next(i) /\ next(i) <= end
             /\ \A j \in 1 .. N : i < j => next(i) <= at(j)
  <2>1. CASE i < N
    <3>1. i + 1 \in 1 .. N /\ next(i) = at(i + 1)
      BY <1>1, <2>1 DEF Until
    <3>2. \A j \in 1 .. N : i < j => i + 1 < j \/ j = i + 1
      BY <1>1
    <3> QED
      BY <1>1, <3>1, <3>2
  <2>2. CASE i = N
    BY <1>1, <2>2 DEF Until
  <2> QED
    BY <1>1, <2>1, <2>2
<1>3. \A n \in 0 .. N : IsFiniteSet(C(n)) /\ Cardinality(C(n)) \in Nat
  <2> SUFFICES ASSUME NEW n \in 0 .. N PROVE IsFiniteSet(C(n)) /\ Cardinality(C(n)) \in Nat
    OBVIOUS
  <2>1. C(n) \in SUBSET Nat /\ \A t \in C(n) : t <= end
    BY <1>1, <1>2 DEF Counted
  <2> QED
    BY <2>1, FS_BoundedSetOfNaturals, FS_CardinalityType
<1>4. ASSUME NEW n \in 1 .. N
      PROVE  Cardinality(C(n)) = Cardinality(C(n - 1)) + seconds(n)
  <2>1. CASE listed[n].pin_state = TRUE
    <3> DEFINE T == at(n) .. next(n) - 1
    <3>1. at(n) \in Nat /\ next(n) \in Nat /\ at(n) <= next(n)
      BY <1>1, <1>2
    <3>2. IsFiniteSet(T) /\ Cardinality(T) = next(n) - at(n)
      <4>1. \A a, b \in Nat :
              a <= b => IsFiniteSet(a .. b - 1) /\ Cardinality(a .. b - 1) = b - a
        <5> SUFFICES ASSUME NEW a \in Nat, NEW b \in Nat, a <= b
                     PROVE  IsFiniteSet(a .. b - 1) /\ Cardinality(a .. b - 1) = b - a
          OBVIOUS
        <5>1. Cardinality(a .. b - 1) = IF a > b - 1 THEN 0 ELSE b - 1 - a + 1
          BY FS_Interval
        <5>2. IsFiniteSet(a .. b - 1)
          BY FS_Interval
        <5> QED
          BY <5>1, <5>2
      <4> HIDE DEF at, next
      <4> QED
        BY <3>1, <4>1
    <3>3. C(n) = C(n - 1) \cup T
      <4>1. \A i \in 1 .. n : i \in 1 .. n - 1 \/ i = n
        BY <1>1
      <4>2. \A i \in 1 .. n - 1 : i \in 1 .. n
        BY <1>1
      <4>3. T = {t \in Nat : at(n) <= t /\ t < next(n)}
        BY <3>1
      <4>4. n \in 1 .. n
        BY <1>1
      <4> HIDE DEF T
      <4> QED
        BY <2>1, <4>1, <4>2, <4>3, <4>4 DEF Counted
    <3>4. C(n - 1) \cap T = {}
      <4> SUFFICES ASSUME NEW t \in C(n - 1), t \in T PROVE FALSE
        OBVIOUS
      <4>1. PICK i \in 1 .. n - 1 : t < next(i)
        BY DEF Counted
      <4>2. i \in 1 .. N /\ i < n
        BY <1>1
      <4>3. next(i) <= at(n) /\ next(i) \in Nat /\ at(n) \in Nat
        BY <1>1, <1>2, <4>2
      <4>4. t \in Nat /\ at(n) <= t
        BY <3>1
      <4> QED
        BY <4>1, <4>3, <4>4
    <3>5. IsFiniteSet(C(n - 1)) /\ Cardinality(C(n - 1)) \in Nat
      <4>1. n - 1 \in 0 .. N
        BY <1>1
      <4> QED
        BY <1>3, <4>1
    <3>6. Cardinality(C(n - 1) \cup T) = Cardinality(C(n - 1)) + Cardinality(T)
      <4> HIDE DEF T, C
      <4>1. Cardinality(C(n - 1) \cap T) = 0
        BY <3>4, FS_EmptySet
      <4>2. Cardinality(C(n - 1) \cup T) =
              Cardinality(C(n - 1)) + Cardinality(T) - Cardinality(C(n - 1) \cap T)
        BY <3>2, <3>5, FS_Union
      <4>3. Cardinality(T) \in Nat
        BY <3>1, <3>2
      <4> QED
        BY <3>5, <4>1, <4>2, <4>3
    <3>7. seconds(n) = next(n) - at(n)
      <4>1. \A a, b \in Nat : a <= b => Max({0, b - a}) = b - a
        BY DEF Max
      <4>2. seconds(n) = Max({0, next(n) - at(n)})
        BY <2>1
      <4> HIDE DEF at, next, seconds
      <4> QED
        BY <3>1, <4>1, <4>2
    <3> QED
      BY <3>2, <3>3, <3>6, <3>7
  <2>2. CASE listed[n].pin_state # TRUE
    <3>1. \A i \in 1 .. n : i \in 1 .. n - 1 \/ i = n
      BY <1>1
    <3>2. \A i \in 1 .. n - 1 : i \in 1 .. n
      BY <1>1
    <3>3. C(n) = C(n - 1)
      BY <2>2, <3>1, <3>2 DEF Counted
    <3>4. Cardinality(C(n - 1)) \in Nat
      <4>1. n - 1 \in 0 .. N
        BY <1>1
      <4> QED
        BY <1>3, <4>1
    <3>5. seconds(n) = 0
      BY <2>2
    <3> HIDE DEF C, seconds
    <3> QED
      BY <3>3, <3>4, <3>5
  <2> QED
    BY <2>1, <2>2
<1>5. C(0) = {} /\ Cardinality(C(0)) = 0
  <2>1. C(0) = {}
    BY DEF Counted
  <2> QED
    BY <2>1, FS_EmptySet
<1> HIDE DEF C
<1>6. g \in [0 .. N -> Nat] /\ g[0] = 0 /\ g[N] = Cardinality(C(N))
  BY <1>1, <1>3, <1>5
<1>7. \A i \in 1 .. N : g[i] = g[i - 1] + seconds(i)
  <2> SUFFICES ASSUME NEW i \in 1 .. N PROVE g[i] = g[i - 1] + seconds(i)
    OBVIOUS
  <2>1. i \in 0 .. N /\ i - 1 \in 0 .. N
    BY <1>1
  <2>2. g[i] = Cardinality(C(i)) /\ g[i - 1] = Cardinality(C(i - 1))
    BY <2>1
  <2> QED
    BY <2>2, <1>4
<1> HIDE DEF g
<1>8. SecondsOn(listed, end) = g[N]
  BY <1>1, <1>6, <1>7, LoopIs
<1>9. IsFiniteSet(C(N))
  BY <1>1, <1>3
<1> QED
  BY <1>6, <1>8, <1>9 DEF C

Window(day) == WindowStart(day) .. WindowEnd(day) - 1

LEMMA WindowIs ==
  ASSUME now \in Nat, NEW day \in 0 .. Today
  PROVE  /\ day \in Nat /\ WindowStart(day) \in Nat /\ WindowEnd(day) \in Nat
         /\ \A t \in Nat : WindowStart(day) <= t /\ t < WindowEnd(day) => InWindow(day, t)
         /\ IsFiniteSet(Window(day))
<1>1. Today \in Nat /\ now < WindowStart(Today + 1)
  <2>1. Today \in Nat
    BY DayOf DEF Today
  <2> QED
    BY <2>1, DayOf DEF Today
<1>2. day \in Nat /\ WindowStart(day) \in Nat
  <2>1. day \in Nat
    BY <1>1
  <2> QED
    BY <2>1, DayOf
<1>3. /\ WindowStart(day + 1) \in Nat /\ WindowEnd(day) \in Nat
      /\ WindowEnd(day) <= WindowStart(day + 1)
  <2>1. WindowStart(day + 1) \in Nat
    BY <1>2, DayOf
  <2> QED
    BY <1>1, <2>1 DEF WindowEnd, WindowStart
<1>4. ASSUME NEW t \in Nat, WindowStart(day) <= t, t < WindowEnd(day)
      PROVE  InWindow(day, t)
  <2>1. t < WindowStart(day + 1)
    BY <1>3, <1>4
  <2>2. t \div DayTicks = day
    BY <1>2, <1>4, <2>1, DayOf
  <2> QED
    BY <1>3, <1>4, <2>2 DEF InWindow
<1>5. IsFiniteSet(Window(day))
  BY <1>2, <1>3, FS_Interval DEF Window
<1> QED
  BY <1>2, <1>3, <1>4, <1>5

LEMMA CountedInWindow ==
  ASSUME now \in Nat, NEW day \in 0 .. Today, NEW listed, Chronological(listed, day)
  PROVE  Counted(listed, WindowEnd(day), Len(listed)) \subseteq Window(day)
<1> SUFFICES ASSUME NEW t \in Counted(listed, WindowEnd(day), Len(listed))
             PROVE  t \in Window(day)
  OBVIOUS
<1>1. WindowStart(day) \in Nat /\ WindowEnd(day) \in Nat
  BY WindowIs
<1>2. PICK i \in 1 .. Len(listed) :
        listed[i].created_at <= t /\ t < Until(listed, WindowEnd(day), i)
  BY DEF Counted
<1>3. t \in Nat
  BY DEF Counted
<1>4. Until(listed, WindowEnd(day), i) <= WindowEnd(day)
      /\ Until(listed, WindowEnd(day), i) \in Nat
  <2>1. CASE i < Len(listed)
    <3>1. i + 1 \in 1 .. Len(listed)
      BY <2>1 DEF Chronological
    <3> QED
      BY <2>1, <3>1 DEF Chronological, Until
  <2>2. CASE ~(i < Len(listed))
    BY <1>1, <2>2 DEF Until
  <2> QED
    BY <2>1, <2>2
<1>5. WindowStart(day) <= listed[i].created_at /\ listed[i].created_at \in Nat
  BY DEF Chronological
<1>6. WindowStart(day) <= t /\ t < WindowEnd(day)
  BY <1>1, <1>2, <1>3, <1>4, <1>5
<1> QED
  BY <1>1, <1>3, <1>6 DEF Window

\* Without a switch between them, two moments are alike.
LEMMA NoSwitchBetween ==
  ASSUME HistoryTypeOK, NEW a \in Nat, NEW b \in Nat, a <= b,
         \A s \in toggles : ~(a < s /\ s <= b)
  PROVE  OnAt(a) = OnAt(b)
<1>1. \A s \in toggles : s <= a <=> s <= b
  BY DEF HistoryTypeOK
<1>2. {s \in toggles : s <= a} = {s \in toggles : s <= b}
  BY <1>1
<1> QED
  BY <1>2 DEF OnAt

LEMMA CountedIsOn ==
  ASSUME HistoryTypeOK, EventsTrue, now \in Nat, NEW day \in 0 .. Today,
         NEW listed, Chronological(listed, day), TellsEnough(day, listed),
         ToSet(listed) \subseteq ToSet(events),
         \A i \in 1 .. Len(listed) : listed[i] \in ToSet(listed),
         \A e \in ToSet(listed) : \E i \in 1 .. Len(listed) : listed[i] = e
  PROVE  Counted(listed, WindowEnd(day), Len(listed)) = {t \in Window(day) : OnAt(t)}
<1> DEFINE N == Len(listed)
           end == WindowEnd(day)
           C == Counted(listed, end, N)
           at(i) == listed[i].created_at
<1>1. C \subseteq Window(day)
  BY CountedInWindow
<1>2. /\ WindowStart(day) \in Nat /\ end \in Nat
      /\ \A t \in Nat : WindowStart(day) <= t /\ t < end => InWindow(day, t)
  BY WindowIs
<1>3. /\ N \in Nat
      /\ \A i \in 1 .. N : at(i) \in Nat /\ at(i) <= end /\ WindowStart(day) <= at(i)
      /\ \A i, j \in 1 .. N : i < j => at(i) < at(j)
  BY DEF Chronological
<1>4. ASSUME NEW i \in 1 .. N
      PROVE  listed[i].pin_state = OnAt(at(i)) /\ OnAt(at(i)) \in BOOLEAN
  <2>1. listed[i] \in ToSet(listed) /\ listed[i] \in ToSet(events)
    OBVIOUS
  <2>2. listed[i].pin_state # Absent
    BY <2>1 DEF TellsEnough
  <2>3. OnAt(at(i)) \in BOOLEAN
    BY DEF OnAt
  <2> QED
    BY <2>1, <2>2, <2>3 DEF EventsTrue, IsTrue
<1>5. ASSUME NEW s \in toggles, WindowStart(day) <= s, s < end
      PROVE  s \in Nat /\ \E j \in 1 .. N : at(j) = s
  <2>1. s \in Nat
    BY DEF HistoryTypeOK
  <2>2. InWindow(day, s)
    BY <1>2, <1>5, <2>1
  <2>3. PICK e \in ToSet(listed) : e.created_at = s
    BY <2>2 DEF TellsEnough
  <2> QED
    BY <2>1, <2>3
<1>6. ASSUME NEW t \in Window(day)
      PROVE  t \in C <=> OnAt(t)
  <2>1. t \in Nat /\ WindowStart(day) <= t /\ t < end
    BY <1>2 DEF Window
  <2> DEFINE T == {k \in Nat : \E i \in 1 .. N : k = N - i /\ at(i) <= t}
  <2>2. CASE T = {}
    <3>1. \A i \in 1 .. N : t < at(i)
      <4> SUFFICES ASSUME NEW i \in 1 .. N, ~(t < at(i)) PROVE FALSE
        OBVIOUS
      <4>1. at(i) <= t
        BY <2>1, <1>3
      <4>2. N - i \in Nat
        BY <1>3
      <4> QED
        BY <2>2, <4>1, <4>2
    <3>2. t \notin C
      <4> SUFFICES ASSUME t \in C PROVE FALSE
        OBVIOUS
      <4>1. PICK i \in 1 .. N : at(i) <= t
        BY DEF Counted
      <4> QED
        BY <3>1, <4>1, <1>3, <2>1
    <3>3. \A s \in toggles : ~(WindowStart(day) <= s /\ s <= t)
      <4> SUFFICES ASSUME NEW s \in toggles, WindowStart(day) <= s, s <= t PROVE FALSE
        OBVIOUS
      <4>1. s \in Nat
        BY DEF HistoryTypeOK
      <4>2. s < end
        BY <4>1, <2>1, <1>2
      <4>3. PICK j \in 1 .. N : at(j) = s
        BY <1>5, <4>2
      <4> QED
        BY <3>1, <4>1, <4>3, <2>1
    <3>4. \A s \in toggles : ~(WindowStart(day) < s /\ s <= t)
      BY <3>3, <1>2 DEF HistoryTypeOK
    <3>5. OnAt(WindowStart(day)) = OnAt(t)
      BY <3>4, <1>2, <2>1, NoSwitchBetween
    <3>6. ~OnAt(WindowStart(day))
      BY <3>3, <1>2, <2>1 DEF TellsEnough
    <3> QED
      BY <3>2, <3>5, <3>6
  <2>3. CASE T # {}
    <3>1. PICK k \in T : \A m \in T : k <= m
      <4>1. T \subseteq Nat
        OBVIOUS
      <4> HIDE DEF T
      <4> QED
        BY <4>1, <2>3, LeastNumber
    <3>2. PICK i \in 1 .. N : k = N - i /\ at(i) <= t
      OBVIOUS
    <3>3. \A j \in 1 .. N : i < j => t < at(j)
      <4> SUFFICES ASSUME NEW j \in 1 .. N, i < j, ~(t < at(j)) PROVE FALSE
        OBVIOUS
      <4>1. at(j) <= t
        BY <2>1, <1>3
      <4>2. N - j \in Nat /\ N - j < k
        BY <1>3, <3>2
      <4>3. N - j \in T
        BY <4>1, <4>2
      <4>4. k <= N - j /\ k \in Nat
        <5> HIDE DEF T
        <5> QED
          BY <3>1, <3>2, <1>3, <4>3
      <4> QED
        BY <4>2, <4>4
    <3>4. t < Until(listed, end, i)
      <4>1. CASE i < N
        <5>1. i + 1 \in 1 .. N /\ i < i + 1
          BY <1>3, <4>1
        <5>2. t < at(i + 1)
          BY <3>3, <5>1
        <5> QED
          BY <4>1, <5>2 DEF Until
      <4>2. CASE ~(i < N)
        BY <2>1, <4>2 DEF Until
      <4> QED
        BY <4>1, <4>2
    <3>5. \A s \in toggles : ~(at(i) < s /\ s <= t)
      <4> SUFFICES ASSUME NEW s \in toggles, at(i) < s, s <= t PROVE FALSE
        OBVIOUS
      <4>1. s \in Nat
        BY DEF HistoryTypeOK
      <4>2. WindowStart(day) <= s /\ s < end
        BY <4>1, <2>1, <1>2, <1>3
      <4>3. PICK j \in 1 .. N : at(j) = s
        BY <1>5, <4>2
      <4>4. i < j
        <5>1. i # j
          BY <4>1, <4>3
        <5>2. ~(j < i)
          BY <4>1, <4>3, <1>3
        <5> QED
          BY <5>1, <5>2, <1>3
      <4> QED
        BY <3>3, <4>1, <4>3, <4>4, <2>1
    <3>6. OnAt(at(i)) = OnAt(t)
      BY <3>2, <3>5, <1>3, <2>1, NoSwitchBetween
    <3>7. \A j \in 1 .. N : at(j) <= t /\ t < Until(listed, end, j) => j = i
      <4> SUFFICES ASSUME NEW j \in 1 .. N, at(j) <= t, t < Until(listed, end, j), j < i
                   PROVE  FALSE
        BY <3>3, <1>3, <2>1
      <4>1. j < N /\ j + 1 \in 1 .. N /\ (j + 1 < i \/ j + 1 = i)
        BY <1>3
      <4>2. t < at(j + 1)
        BY <4>1 DEF Until
      <4>3. at(j + 1) <= at(i)
        <5>1. PICK next \in 1 .. N : next = j + 1 /\ (next < i \/ next = i)
          BY <4>1
        <5>2. next < i => at(next) < at(i)
          BY <1>3
        <5>3. at(next) \in Nat /\ at(i) \in Nat
          BY <1>3
        <5>4. CASE next = i
          <6>1. at(next) = at(i)
            BY <5>4
          <6> QED
            BY <5>1, <5>3, <6>1
        <5>5. CASE next < i
          <6>1. at(next) < at(i)
            BY <5>2, <5>5
          <6> QED
            BY <5>1, <5>3, <6>1
        <5> QED
          BY <5>1, <5>4, <5>5
      <4> QED
        BY <4>1, <4>2, <4>3, <3>2, <1>3, <2>1
    <3>8. t \in C <=> listed[i].pin_state = TRUE
      BY <3>2, <3>4, <3>7, <2>1 DEF Counted
    <3>9. listed[i].pin_state = OnAt(at(i)) /\ OnAt(at(i)) \in BOOLEAN
      BY <1>4
    <3> QED
      BY <3>6, <3>8, <3>9
  <2> QED
    BY <2>2, <2>3
<1> HIDE DEF C
<1>7. C = {t \in Window(day) : OnAt(t)}
  BY <1>1, <1>6
<1> QED
  BY <1>7 DEF C

LEMMA ReportIsExact ==
  ASSUME HistoryTypeOK, EventsTrue, now \in Nat
  PROVE  OnTimeIsExact
<1> SUFFICES ASSUME NEW day \in 0 .. Today, NEW type \in EventTypes \cup {Absent},
                    NEW limit \in 0 .. MaxHappenings
             PROVE  LET report == Report(day, type, limit)
                        window == WindowStart(day) .. WindowEnd(day) - 1
                        really == Cardinality({t \in window : OnAt(t)})
                    IN  /\ report.on \in 0 .. Cardinality(window)
                        /\ TellsEnough(day, report.events) =>
                             /\ report.on = really
                             /\ \A unit \in {"W", "kW"} :
                                  RatedPower # Absent /\ really > 0 =>
                                    RatedEnergy(report.on, unit) = RatedPower * really
  BY DEF OnTimeIsExact
<1> DEFINE listed == ListForDevice(day, type, limit)
           counted == Counted(listed, WindowEnd(day), Len(listed))
           on == SecondsOn(listed, WindowEnd(day))
           really == Cardinality({t \in Window(day) : OnAt(t)})
<1>1. /\ day \in Nat /\ WindowEnd(day) \in Nat /\ IsFiniteSet(Window(day))
      /\ Cardinality(Window(day)) \in Nat
  BY WindowIs, FS_CardinalityType
<1>2. limit \in Nat
  BY ClockAssumption
<1>3. /\ Chronological(listed, day)
      /\ ToSet(listed) \subseteq ToSet(events)
      /\ \A i \in 1 .. Len(listed) : listed[i] \in ToSet(listed)
      /\ \A e \in ToSet(listed) : \E i \in 1 .. Len(listed) : listed[i] = e
  BY <1>1, <1>2, ListedIsChronological
<1> HIDE DEF listed
<1>4. IsFiniteSet(counted) /\ on = Cardinality(counted)
  BY <1>1, <1>3, LoopCounts
<1>5. counted \subseteq Window(day)
  BY <1>3, CountedInWindow
<1> HIDE DEF counted, on
<1>6. on \in 0 .. Cardinality(Window(day))
  <2>1. Cardinality(counted) \in Nat
    BY <1>4, FS_CardinalityType
  <2>2. Cardinality(counted) <= Cardinality(Window(day))
    BY <1>1, <1>5, FS_Subset
  <2> QED
    BY <1>1, <1>4, <2>1, <2>2
<1>7. TellsEnough(day, listed) => on = really
  BY <1>3, <1>4, CountedIsOn DEF counted
<1> HIDE DEF really
<1>8. ASSUME NEW unit \in {"W", "kW"}, RatedPower # Absent, on > 0
      PROVE  RatedEnergy(on, unit) = RatedPower * on
  <2>1. EnergyUnit(unit) # Absent
    BY HistoryAssumption DEF EnergyUnit
  <2> QED
    BY <1>8, <2>1 DEF RatedEnergy
<1>9. Report(day, type, limit).on = on /\ Report(day, type, limit).events = listed
  BY DEF Report, on, listed
<1> QED
  BY <1>6, <1>7, <1>8, <1>9 DEF really, Window

\* Whatever was switched, decided, stored late or lost: a report that lists every
\* switch of its day counts exactly the time the device was on and the energy of it,
\* and none counts more than the day had so far (list_device_events).
THEOREM OnTimeCounts == PastSpec => []OnTimeIsExact
<1>1. PastInv => OnTimeIsExact
  BY ReportIsExact DEF PastInv, PastTypeOK
<1> QED
  BY <1>1, PastInvariance, PTL

-----------------------------------------------------------------------------
(* The energy of measurements: loops and sums. *)

\* What a loop over 1 .. n makes of d, a step at a time, exists.
Loops(g, n, D, d, step) ==
  /\ g \in [0 .. n -> D]
  /\ g[0] = d
  /\ \A i \in 1 .. n : g[i] = step[<<i, g[i - 1]>>]

LEMMA Recursion ==
  ASSUME NEW n \in Nat, NEW D, NEW d \in D, NEW step \in [(1 .. n) \X D -> D]
  PROVE  \E g : Loops(g, n, D, d, step)
<1> DEFINE T == {k \in 0 .. n : ~ \E g : Loops(g, k, D, d, step)}
<1>1. SUFFICES ASSUME T # {} PROVE FALSE
  OBVIOUS
<1>2. PICK k \in T : \A j \in T : k <= j
  <2>1. T \subseteq Nat
    OBVIOUS
  <2> HIDE DEF T
  <2> QED
    BY <1>1, <2>1, LeastNumber
<1>3. k # 0
  <2>1. Loops([i \in 0 .. 0 |-> d], 0, D, d, step)
    BY DEF Loops
  <2> QED
    BY <2>1, <1>2
<1>4. k - 1 \in 0 .. n /\ k - 1 \notin T /\ k \in 1 .. n
  BY <1>2, <1>3
<1>5. PICK g : Loops(g, k - 1, D, d, step)
  BY <1>4
<1> DEFINE next == step[<<k, g[k - 1]>>]
           h == [i \in 0 .. k |-> IF i = k THEN next ELSE g[i]]
<1>6. g[k - 1] \in D /\ <<k, g[k - 1]>> \in (1 .. n) \X D
  BY <1>4, <1>5 DEF Loops
<1>7. next \in D
  BY <1>6
<1> HIDE DEF next
<1>8. h \in [0 .. k -> D] /\ h[0] = d
  BY <1>3, <1>4, <1>5, <1>7 DEF Loops
<1>9. \A i \in 1 .. k : h[i] = step[<<i, h[i - 1]>>]
  <2> SUFFICES ASSUME NEW i \in 1 .. k PROVE h[i] = step[<<i, h[i - 1]>>]
    OBVIOUS
  <2>1. h[i - 1] = g[i - 1] /\ i \in 0 .. k
    BY <1>4
  <2>2. CASE i = k
    <3>1. h[i] = next
      BY <2>1, <2>2
    <3> HIDE DEF h
    <3> QED
      BY <2>1, <2>2, <3>1 DEF next
  <2>3. CASE i # k
    <3>1. i \in 1 .. k - 1 /\ h[i] = g[i]
      BY <2>1, <2>3, <1>4
    <3> HIDE DEF h
    <3> QED
      BY <2>1, <3>1, <1>5 DEF Loops
  <2> QED
    BY <2>2, <2>3
<1>10. Loops(h, k, D, d, step)
  BY <1>8, <1>9 DEF Loops
<1> HIDE DEF h
<1> QED
  BY <1>2, <1>10

-----------------------------------------------------------------------------
(* Sums. *)

Summable(f, a, b) == a \in Int /\ b \in Int /\ a - 1 <= b /\ \A i \in a .. b : f[i] \in Int

\* g has the sums of the first terms.
AddsUp(g, f, a, b) == g[a - 1] = 0 /\ \A i \in a .. b : g[i] = g[i - 1] + f[i]

LEMMA SumLoop ==
  ASSUME NEW a, NEW b, NEW f, Summable(f, a, b)
  PROVE  \E g \in [a - 1 .. b -> Int] : AddsUp(g, f, a, b) /\ SumOf(f, a, b) = g[b]
<1> DEFINE n == b - a + 1
           step == [x \in (1 .. n) \X Int |-> x[2] + f[a - 1 + x[1]]]
<1>1. /\ n \in Nat /\ a \in Int /\ b \in Int /\ a - 1 <= b
      /\ \A i \in 1 .. n : a - 1 + i \in a .. b
      /\ \A i \in a .. b : f[i] \in Int
  BY DEF Summable
<1>2. step \in [(1 .. n) \X Int -> Int]
  BY <1>1
<1>3. \A i \in 1 .. n, x \in Int : step[<<i, x>>] = x + f[a - 1 + i]
  OBVIOUS
<1> HIDE DEF step, n
<1>4. PICK h : Loops(h, n, Int, 0, step)
  BY <1>1, <1>2, Recursion
<1>5. \A i \in 1 .. n : h[i] = h[i - 1] + f[a - 1 + i]
  <2> SUFFICES ASSUME NEW i \in 1 .. n PROVE h[i] = h[i - 1] + f[a - 1 + i]
    OBVIOUS
  <2>1. i - 1 \in 0 .. n
    BY <1>1
  <2> QED
    BY <2>1, <1>3, <1>4 DEF Loops
<1> DEFINE s == [i \in a - 1 .. b |-> h[i - (a - 1)]]
<1>6. s \in [a - 1 .. b -> Int] /\ s[a - 1] = 0
  BY <1>1, <1>4 DEF n, Loops
<1>7. \A i \in a .. b : s[i] = s[i - 1] + f[i]
  <2> SUFFICES ASSUME NEW i \in a .. b PROVE s[i] = s[i - 1] + f[i]
    OBVIOUS
  <2>1. i - (a - 1) \in 1 .. n /\ i - 1 \in a - 1 .. b /\ i \in a - 1 .. b
    BY <1>1 DEF n
  <2>2. s[i] = h[i - (a - 1)] /\ s[i - 1] = h[i - (a - 1) - 1] /\ f[a - 1 + (i - (a - 1))] = f[i]
    <3>1. i - 1 - (a - 1) = i - (a - 1) - 1 /\ a - 1 + (i - (a - 1)) = i
      BY <1>1
    <3> QED
      BY <2>1, <3>1
  <2> HIDE DEF s
  <2> QED
    BY <2>1, <2>2, <1>5
<1> HIDE DEF s
<1> DEFINE total == CHOOSE g : g = [i \in a - 1 .. b |-> IF i < a THEN 0 ELSE g[i - 1] + f[i]]
<1>8. s = [i \in a - 1 .. b |-> IF i < a THEN 0 ELSE s[i - 1] + f[i]]
  <2>1. \A i \in a - 1 .. b : s[i] = IF i < a THEN 0 ELSE s[i - 1] + f[i]
    BY <1>1, <1>6, <1>7
  <2> QED
    BY <2>1, <1>6
<1>9. total = [i \in a - 1 .. b |-> IF i < a THEN 0 ELSE total[i - 1] + f[i]]
  BY <1>8
<1>10. SumOf(f, a, b) = total[b]
  BY DEF SumOf
<1> HIDE DEF total
<1>11. total \in [a - 1 .. b -> Int] /\ AddsUp(total, f, a, b)
  <2>1. \A i \in a - 1 .. b : total[i] = IF i < a THEN 0 ELSE total[i - 1] + f[i]
    BY <1>9
  <2>2. AddsUp(total, f, a, b)
    BY <1>1, <2>1 DEF AddsUp
  <2>3. \A i \in a - 1 .. b : total[i] = s[i]
    <3> DEFINE T == {k \in Nat : a - 1 + k \in a - 1 .. b /\ total[a - 1 + k] # s[a - 1 + k]}
    <3>1. SUFFICES ASSUME T # {} PROVE FALSE
      <4> SUFFICES ASSUME NEW i \in a - 1 .. b, total[i] # s[i] PROVE T # {}
        BY <3>1
      <4>1. i - (a - 1) \in Nat /\ a - 1 + (i - (a - 1)) = i
        BY <1>1
      <4>2. i - (a - 1) \in T
        BY <4>1
      <4> QED
        BY <4>2
    <3>2. PICK k \in T : \A j \in T : k <= j
      <4>1. T \subseteq Nat
        OBVIOUS
      <4> HIDE DEF T
      <4> QED
        BY <3>1, <4>1, LeastNumber
    <3>3. k \in Nat /\ k # 0
      BY <1>1, <1>6, <2>1
    <3>4. k - 1 \in Nat /\ k - 1 \notin T
      <4> HIDE DEF T
      <4> QED
        BY <3>2, <3>3
    <3>5. a - 1 + (k - 1) = (a - 1 + k) - 1
      BY <1>1, <3>3
    <3>6. (a - 1 + k) - 1 \in a - 1 .. b /\ a - 1 + k \in a .. b
      BY <1>1, <3>3
    <3>7. total[(a - 1 + k) - 1] = s[(a - 1 + k) - 1]
      BY <3>4, <3>5, <3>6
    <3> QED
      BY <1>7, <2>2, <3>6, <3>7 DEF AddsUp
  <2> QED
    BY <1>6, <1>9, <2>2, <2>3
<1>12. b \in a - 1 .. b
  BY <1>1
<1> QED
  BY <1>10, <1>11

\* A loop that adds f up has its sum.
LEMMA SumIs ==
  ASSUME NEW a, NEW b, NEW f, Summable(f, a, b), NEW g, AddsUp(g, f, a, b)
  PROVE  SumOf(f, a, b) = g[b]
<1>1. PICK s \in [a - 1 .. b -> Int] : AddsUp(s, f, a, b) /\ SumOf(f, a, b) = s[b]
  BY SumLoop
<1>2. a \in Int /\ b \in Int /\ a - 1 <= b
  BY DEF Summable
<1> DEFINE T == {k \in Nat : a - 1 + k \in a - 1 .. b /\ g[a - 1 + k] # s[a - 1 + k]}
<1>3. T = {}
  <2> SUFFICES ASSUME T # {} PROVE FALSE
    OBVIOUS
  <2>1. PICK k \in T : \A j \in T : k <= j
    <3>1. T \subseteq Nat
      OBVIOUS
    <3> HIDE DEF T
    <3> QED
      BY <3>1, LeastNumber
  <2>2. k \in Nat /\ k # 0
    BY <1>1, <1>2 DEF AddsUp
  <2>3. k - 1 \in Nat /\ k - 1 \notin T
    <3> HIDE DEF T
    <3> QED
      BY <2>1, <2>2
  <2>4. a - 1 + (k - 1) = (a - 1 + k) - 1
    BY <1>2, <2>2
  <2>5. (a - 1 + k) - 1 \in a - 1 .. b /\ a - 1 + k \in a .. b
    BY <1>2, <2>2
  <2>6. g[(a - 1 + k) - 1] = s[(a - 1 + k) - 1]
    BY <2>3, <2>4, <2>5
  <2> QED
    BY <1>1, <2>5, <2>6 DEF AddsUp
<1>4. b - (a - 1) \in Nat /\ a - 1 + (b - (a - 1)) = b /\ b \in a - 1 .. b
  BY <1>2
<1>5. b - (a - 1) \notin T
  BY <1>3
<1>6. g[b] = s[b]
  BY <1>4, <1>5
<1> QED
  BY <1>1, <1>6

LEMMA SumSteps ==
  ASSUME NEW a, NEW b, NEW f, Summable(f, a, b)
  PROVE  /\ SumOf(f, a, b) \in Int
         /\ b = a - 1 => SumOf(f, a, b) = 0
         /\ b >= a => SumOf(f, a, b) = SumOf(f, a, b - 1) + f[b]
<1>1. PICK s \in [a - 1 .. b -> Int] : AddsUp(s, f, a, b) /\ SumOf(f, a, b) = s[b]
  BY SumLoop
<1>2. a \in Int /\ b \in Int /\ a - 1 <= b
  BY DEF Summable
<1>3. ASSUME b >= a PROVE SumOf(f, a, b - 1) = s[b - 1]
  <2>1. \A i \in a .. b - 1 : i \in a .. b
    BY <1>2
  <2>2. Summable(f, a, b - 1)
    BY <1>2, <1>3, <2>1 DEF Summable
  <2>3. AddsUp(s, f, a, b - 1)
    BY <1>1, <2>1 DEF AddsUp
  <2> QED
    BY <2>2, <2>3, SumIs
<1>4. b \in a - 1 .. b /\ (b >= a => b \in a .. b)
  BY <1>2
<1> QED
  BY <1>1, <1>3, <1>4 DEF AddsUp

\* What is added to each of the terms adds up.
LEMMA SumGrows ==
  ASSUME NEW a, NEW b, NEW f, Summable(f, a, b),
         NEW v \in Int, NEW B, \A i \in a .. b + 1 : B[i] \in Int,
         NEW p, \A i \in a .. b : p[i] = f[i] + v * (B[i + 1] - B[i])
  PROVE  /\ Summable(p, a, b)
         /\ SumOf(p, a, b) = SumOf(f, a, b) + v * (B[b + 1] - B[a])
<1>1. PICK s \in [a - 1 .. b -> Int] : AddsUp(s, f, a, b) /\ SumOf(f, a, b) = s[b]
  BY SumLoop
<1>2. a \in Int /\ b \in Int /\ a - 1 <= b
  BY DEF Summable
<1>3. \A i \in a .. b : /\ i \in a .. b + 1 /\ i + 1 \in a .. b + 1 /\ i - 1 \in a - 1 .. b
                        /\ a \in a .. b + 1 /\ i \in a - 1 .. b
  BY <1>2
<1>4. a \in a .. b + 1 /\ b \in a - 1 .. b /\ a - 1 \in a - 1 .. b /\ a - 1 + 1 = a
  BY <1>2
<1>5. \A x, y, z \in Int : /\ v * (x - z) = v * (y - z) + v * (x - y)
                           /\ v * (x - y) \in Int /\ v * (y - z) \in Int /\ v * (x - x) = 0
  BY Z3
<1> DEFINE times(x, y) == v * (x - y)
           g == [i \in a - 1 .. b |-> s[i] + times(B[i + 1], B[a])]
<1>6. \A i \in a .. b : p[i] = f[i] + times(B[i + 1], B[i])
  OBVIOUS
<1>7. /\ \A x, y, z \in Int : times(x, z) = times(y, z) + times(x, y)
      /\ \A x, y \in Int : times(x, y) \in Int
      /\ \A x \in Int : times(x, x) = 0
  BY <1>5
<1> HIDE DEF times
<1>8. Summable(p, a, b)
  <2> SUFFICES ASSUME NEW i \in a .. b PROVE p[i] \in Int
    BY <1>2 DEF Summable
  <2>1. B[i] \in Int /\ B[i + 1] \in Int /\ f[i] \in Int
    BY <1>3 DEF Summable
  <2>2. times(B[i + 1], B[i]) \in Int
    BY <2>1, <1>7
  <2> QED
    BY <2>1, <2>2, <1>6
<1>9. g[a - 1] = 0
  <2>1. g[a - 1] = s[a - 1] + times(B[a], B[a]) /\ B[a] \in Int
    BY <1>4
  <2>2. times(B[a], B[a]) = 0
    BY <2>1, <1>7
  <2> QED
    BY <2>1, <2>2, <1>1 DEF AddsUp
<1>10. \A i \in a .. b : g[i] = g[i - 1] + p[i]
  <2> SUFFICES ASSUME NEW i \in a .. b PROVE g[i] = g[i - 1] + p[i]
    OBVIOUS
  <2>1. B[i] \in Int /\ B[i + 1] \in Int /\ f[i] \in Int /\ B[a] \in Int
    BY <1>3, <1>4 DEF Summable
  <2>2. s[i - 1] \in Int /\ s[i] = s[i - 1] + f[i]
    BY <1>1, <1>3 DEF AddsUp
  <2>3. i - 1 + 1 = i
    BY <1>2
  <2>4. g[i] = s[i] + times(B[i + 1], B[a])
    BY <1>3
  <2>5. g[i - 1] = s[i - 1] + times(B[i], B[a])
    BY <1>3, <2>3
  <2>6. times(B[i + 1], B[a]) = times(B[i], B[a]) + times(B[i + 1], B[i])
    BY <2>1, <1>7
  <2>7. times(B[i + 1], B[i]) \in Int /\ times(B[i], B[a]) \in Int
    BY <2>1, <1>7
  <2>8. p[i] = f[i] + times(B[i + 1], B[i])
    BY <1>6
  <2> HIDE DEF g
  <2> QED
    BY <2>1, <2>2, <2>4, <2>5, <2>6, <2>7, <2>8
<1>11. g[b] = s[b] + times(B[b + 1], B[a])
  BY <1>4
<1> HIDE DEF g
<1>12. SumOf(p, a, b) = g[b]
  BY <1>8, <1>9, <1>10, SumIs DEF AddsUp
<1> QED
  BY <1>1, <1>8, <1>11, <1>12 DEF times

-----------------------------------------------------------------------------
(* The hours of one interval. *)

\* How many of the ticks from .. to - 1 come before x.
Before(x, from, to) == (IF to < x THEN to ELSE x) - (IF from < x THEN from ELSE x)

\* The ticks of hour h among them.
Share(h, from, to) ==
  Before((h + 1) * HourTicks, from, to) - Before(h * HourTicks, from, to)

LEMMA HourIs ==
  ASSUME NEW t \in Nat, NEW h \in Nat
  PROVE  /\ HourOf(t) = h <=> h * HourTicks <= t /\ t < (h + 1) * HourTicks
         /\ h * HourTicks \in Nat /\ (h + 1) * HourTicks \in Nat
         /\ h * HourTicks < (h + 1) * HourTicks
         /\ HourOf(t) \in Nat
<1>1. HourTicks \in Nat \ {0}
  BY EnergyAssumption
<1>2. /\ t \div HourTicks = h <=> h * HourTicks <= t /\ t < (h + 1) * HourTicks
      /\ h * HourTicks \in Nat /\ (h + 1) * HourTicks = h * HourTicks + HourTicks
      /\ t \div HourTicks \in Nat
  BY <1>1, Quotient
<1> QED
  BY <1>1, <1>2 DEF HourOf

\* Hours come one after another.
LEMMA HoursGrow ==
  ASSUME NEW t \in Nat, NEW u \in Nat
  PROVE  /\ t <= u => HourOf(t) <= HourOf(u)
         /\ \A h \in Nat : h < HourOf(t) => (h + 1) * HourTicks <= t
         /\ \A h \in Nat : h > HourOf(t) => t < h * HourTicks
<1>1. HourTicks \in Nat \ {0}
  BY EnergyAssumption
<1>2. \A g, h \in Nat : g < h => (g + 1) * HourTicks <= h * HourTicks
  <2> SUFFICES ASSUME NEW g \in Nat, NEW h \in Nat, g < h
               PROVE  (g + 1) * HourTicks <= h * HourTicks
    OBVIOUS
  <2>1. PICK k \in Nat : h = g + 1 + k
    <3>1. h - g - 1 \in Nat /\ h = g + 1 + (h - g - 1)
      OBVIOUS
    <3> QED
      BY <3>1
  <2>2. h * HourTicks = (g + 1) * HourTicks + k * HourTicks /\ k * HourTicks \in Nat
    BY <1>1, <2>1, Z3
  <2>3. (g + 1) * HourTicks \in Nat
    BY <1>1, Z3
  <2> QED
    BY <2>2, <2>3
<1>3. \A h \in Nat : h * HourTicks \in Nat
  BY HourIs
<1>4. HourOf(t) \in Nat /\ HourOf(t) * HourTicks <= t /\ t < (HourOf(t) + 1) * HourTicks
  BY HourIs
<1>5. HourOf(u) \in Nat /\ HourOf(u) * HourTicks <= u /\ u < (HourOf(u) + 1) * HourTicks
  BY HourIs
<1>6. \A h \in Nat : h < HourOf(t) => (h + 1) * HourTicks <= t
  <2> SUFFICES ASSUME NEW h \in Nat, h < HourOf(t) PROVE (h + 1) * HourTicks <= t
    OBVIOUS
  <2>1. (h + 1) * HourTicks <= HourOf(t) * HourTicks
    BY <1>2, <1>4
  <2>2. (h + 1) * HourTicks \in Nat /\ HourOf(t) * HourTicks \in Nat
    BY <1>3, <1>4
  <2> QED
    BY <2>1, <2>2, <1>4
<1>7. \A h \in Nat : h > HourOf(t) => t < h * HourTicks
  <2> SUFFICES ASSUME NEW h \in Nat, h > HourOf(t) PROVE t < h * HourTicks
    OBVIOUS
  <2>1. (HourOf(t) + 1) * HourTicks <= h * HourTicks
    BY <1>2, <1>4
  <2>2. (HourOf(t) + 1) * HourTicks \in Nat /\ h * HourTicks \in Nat
    BY <1>3, <1>4
  <2> QED
    BY <2>1, <2>2, <1>4
<1>8. ASSUME t <= u, HourOf(u) < HourOf(t) PROVE FALSE
  <2>1. (HourOf(u) + 1) * HourTicks <= t
    BY <1>5, <1>6, <1>8
  <2>2. (HourOf(u) + 1) * HourTicks \in Nat
    BY <1>3, <1>5
  <2> QED
    BY <2>1, <2>2, <1>5, <1>8
<1> QED
  BY <1>4, <1>5, <1>6, <1>7, <1>8

\* An interval of constant power v and its energy.
Interval(from, to, v, energy) ==
  from \in Nat /\ to \in Nat /\ from < to /\ v \in Int /\ energy = v * (to - from)

\* The part of an hour's energy a constant power v gives from cursor on.
Given(v, cursor, to) ==
  IF cursor = to THEN << >>
  ELSE [h \in HourOf(cursor) .. HourOf(to - 1) |-> v * Share(h, cursor, to)]

\* What the segment that begins at the cursor adds.
Segment(cursor, from, to, energy) ==
  [h \in {HourOf(cursor)} |-> (energy * (SegmentEnd(cursor, to) - cursor)) \div (to - from)]

\* The segment and what is given after it are what is given.
Continues(v, cursor, from, to, energy) ==
  /\ SegmentEnd(cursor, to) \in cursor + 1 .. to
  /\ Given(v, cursor, to) = AddHours(Segment(cursor, from, to, energy),
                                    Given(v, SegmentEnd(cursor, to), to))

LEMMA GivenStep ==
  ASSUME NEW from, NEW to, NEW v, NEW energy, Interval(from, to, v, energy),
         NEW cursor \in from .. to - 1
  PROVE  Continues(v, cursor, from, to, energy)
<1> DEFINE k == HourOf(cursor)
           L == HourOf(to - 1)
           next == NextHour(cursor)
           end == SegmentEnd(cursor, to)
<1>0. from \in Nat /\ to \in Nat /\ from < to /\ v \in Int /\ energy = v * (to - from)
  BY DEF Interval
<1> USE <1>0
<1>1. cursor \in Nat /\ to - 1 \in Nat /\ cursor <= to - 1 /\ cursor < to
  OBVIOUS
<1>2. /\ k \in Nat /\ L \in Nat /\ k <= L
      /\ k * HourTicks \in Nat /\ k * HourTicks <= cursor
      /\ next = (k + 1) * HourTicks /\ next \in Nat /\ cursor < next
  <2>1. k \in Nat /\ L \in Nat
    BY <1>1, HourIs
  <2> QED
    BY <1>1, <2>1, HourIs, HoursGrow DEF NextHour
<1>a. \A x, y \in Nat : Min({x, y}) = IF y < x THEN y ELSE x
  <2> SUFFICES ASSUME NEW x \in Nat, NEW y \in Nat
               PROVE  Min({x, y}) = IF y < x THEN y ELSE x
    OBVIOUS
  <2> DEFINE m == IF y < x THEN y ELSE x
  <2>1. m \in {x, y} /\ \A z \in {x, y} : m <= z
    OBVIOUS
  <2>2. \A n \in {x, y} : (\A z \in {x, y} : n <= z) => n = m
    OBVIOUS
  <2> HIDE DEF m
  <2>3. Min({x, y}) = m
    BY <2>1, <2>2 DEF Min
  <2> QED
    BY <2>3 DEF m
<1>b. end = Min({to, next})
  BY DEF SegmentEnd
<1> HIDE DEF next, end
<1>3. end = (IF next < to THEN next ELSE to) /\ end \in Nat /\ cursor < end /\ end <= to
  BY <1>1, <1>2, <1>a, <1>b
<1>4. (energy * (end - cursor)) \div (to - from) = v * (end - cursor)
  <2>1. \A d, s \in Nat \ {0} : (v * d * s) \div d = v * s
    <3> SUFFICES ASSUME NEW d \in Nat \ {0}, NEW s \in Nat \ {0} PROVE (v * d * s) \div d = v * s
      OBVIOUS
    <3>1. v * d * s = (v * s) * d /\ v * s \in Int
      BY Z3
    <3>2. \A x \in Int : (x * d) \div d = x
      BY Z3
    <3> QED
      BY <3>1, <3>2
  <2>2. to - from \in Nat \ {0} /\ end - cursor \in Nat \ {0}
    BY <1>1, <1>3
  <2> QED
    BY <2>1, <2>2
<1> DEFINE one == [h \in {k} |-> v * (end - cursor)]
           rest == Given(v, end, to)
<1>5. DOMAIN one = {k} /\ one[k] = v * (end - cursor)
  OBVIOUS
<1>6. /\ \A h \in DOMAIN rest : h \in k + 1 .. L /\ rest[h] = v * Share(h, end, to)
      /\ end # to => DOMAIN rest = k + 1 .. L
      /\ end = to => DOMAIN rest = {} /\ L = k
  <2>1. CASE end = to
    <3>1. DOMAIN rest = {}
      BY <2>1 DEF Given
    <3>2. to - 1 < (k + 1) * HourTicks /\ k * HourTicks <= to - 1
      BY <1>1, <1>2, <1>3, <2>1
    <3>3. L = k
      BY <1>1, <1>2, <3>2, HourIs
    <3> QED
      BY <2>1, <3>1, <3>3
  <2>2. CASE end # to
    <3>1. end = (k + 1) * HourTicks /\ end < to
      BY <1>1, <1>2, <1>3, <2>2
    <3>2. HourOf(end) = k + 1
      <4>1. (k + 1) * HourTicks < (k + 1 + 1) * HourTicks
        BY <1>2, HourIs
      <4> QED
        BY <1>2, <1>3, <3>1, <4>1, HourIs
    <3>3. rest = [h \in k + 1 .. L |-> v * Share(h, end, to)]
      BY <2>2, <3>2 DEF Given
    <3> QED
      BY <2>2, <3>3
  <2> QED
    BY <2>1, <2>2
<1>7. DOMAIN one \cup DOMAIN rest = k .. L
  BY <1>2, <1>5, <1>6
<1>8. EnergyOf(one, k) + EnergyOf(rest, k) = v * Share(k, cursor, to)
  <2>1. Share(k, cursor, to) = end - cursor
    <3>1. Before((k + 1) * HourTicks, cursor, to) = end - cursor
      BY <1>1, <1>2, <1>3 DEF Before
    <3>2. Before(k * HourTicks, cursor, to) = 0
      BY <1>1, <1>2 DEF Before
    <3> QED
      BY <3>1, <3>2, <1>1, <1>3 DEF Share
  <2>2. k \notin DOMAIN rest
    BY <1>2, <1>6
  <2>3. v * (end - cursor) \in Int
    <3>1. end - cursor \in Int
      BY <1>1, <1>3
    <3> QED
      BY <3>1
  <2> HIDE DEF one, rest
  <2> QED
    BY <1>5, <2>1, <2>2, <2>3 DEF EnergyOf
<1>9. \A h \in k + 1 .. L : EnergyOf(one, h) + EnergyOf(rest, h) = v * Share(h, cursor, to)
  <2> SUFFICES ASSUME NEW h \in k + 1 .. L
               PROVE  EnergyOf(one, h) + EnergyOf(rest, h) = v * Share(h, cursor, to)
    OBVIOUS
  <2>1. h \in Nat /\ k < h
    BY <1>2
  <2>2. end # to /\ h \in DOMAIN rest /\ rest[h] = v * Share(h, end, to)
    <3> HIDE DEF rest
    <3>1. end # to
      BY <1>2, <1>6
    <3>2. h \in DOMAIN rest
      BY <1>6, <3>1
    <3> QED
      BY <1>6, <3>1, <3>2
  <2>3. end = (k + 1) * HourTicks /\ end < to
    BY <1>1, <1>2, <1>3, <2>2
  <2>4. end <= h * HourTicks /\ h * HourTicks \in Nat
        /\ h * HourTicks < (h + 1) * HourTicks /\ (h + 1) * HourTicks \in Nat
    <3>1. HourOf(h * HourTicks) = h /\ h * HourTicks \in Nat
      BY <2>1, HourIs
    <3> QED
      BY <1>2, <2>1, <2>3, <3>1, HourIs, HoursGrow
  <2>5. Share(h, end, to) = Share(h, cursor, to)
    BY <1>1, <1>3, <2>4 DEF Share, Before
  <2>6. v * Share(h, end, to) \in Int
    <3>1. Share(h, end, to) \in Int
      BY <1>1, <1>3, <2>4 DEF Share, Before
    <3> QED
      BY <3>1
  <2>7. h \notin DOMAIN one
    BY <1>5, <2>1, <1>2
  <2> HIDE DEF one, rest
  <2> QED
    BY <2>2, <2>5, <2>6, <2>7 DEF EnergyOf
<1>10. AddHours(one, rest) = [h \in k .. L |-> v * Share(h, cursor, to)]
  <2>1. \A h \in k .. L : h = k \/ h \in k + 1 .. L
    BY <1>2
  <2>2. \A h \in k .. L : EnergyOf(one, h) + EnergyOf(rest, h) = v * Share(h, cursor, to)
    BY <1>8, <1>9, <2>1
  <2> HIDE DEF one, rest
  <2> QED
    BY <1>7, <2>2 DEF AddHours
<1>11. Given(v, cursor, to) = [h \in k .. L |-> v * Share(h, cursor, to)]
  BY <1>1 DEF Given
<1>12. end \in cursor + 1 .. to
  BY <1>1, <1>3
<1>13. one = Segment(cursor, from, to, energy)
  BY <1>4 DEF Segment, end
<1> HIDE DEF one
<1> QED
  BY <1>10, <1>11, <1>12, <1>13 DEF Continues, end

LEMMA SharesAreGiven ==
  ASSUME NEW from, NEW to, NEW v, NEW energy, Interval(from, to, v, energy)
  PROVE  HourShares(from, to, energy) = Given(v, from, to)
<1> DEFINE end(c) == SegmentEnd(c, to)
           one(c) == Segment(c, from, to, energy)
           remaining == CHOOSE g : g = [c \in from .. to |->
                          IF c = to THEN << >> ELSE AddHours(one(c), g[end(c)])]
           given == [c \in from .. to |-> Given(v, c, to)]
<1>0. from \in Nat /\ to \in Nat /\ from < to /\ v \in Int /\ energy = v * (to - from)
  BY DEF Interval
<1> USE <1>0
<1>1. HourShares(from, to, energy) = remaining[from]
  BY DEF HourShares, Segment
<1>2. \A c \in from .. to - 1 :
        end(c) \in c + 1 .. to /\ Given(v, c, to) = AddHours(one(c), Given(v, end(c), to))
  BY GivenStep DEF Continues
<1> HIDE DEF end, one
<1>3. given = [c \in from .. to |->
                 IF c = to THEN << >> ELSE AddHours(one(c), given[end(c)])]
  <2> SUFFICES ASSUME NEW c \in from .. to
               PROVE  given[c] = IF c = to THEN << >> ELSE AddHours(one(c), given[end(c)])
    OBVIOUS
  <2>1. CASE c = to
    BY <2>1 DEF Given
  <2>2. CASE c # to
    <3>1. c \in from .. to - 1
      BY <2>2
    <3>2. end(c) \in from .. to
      BY <1>2, <3>1
    <3>3. given[c] = Given(v, c, to) /\ given[end(c)] = Given(v, end(c), to)
      BY <3>2
    <3> QED
      BY <1>2, <2>2, <3>1, <3>3
  <2> QED
    BY <2>1, <2>2
<1>4. remaining = [c \in from .. to |->
                     IF c = to THEN << >> ELSE AddHours(one(c), remaining[end(c)])]
  BY <1>3
<1> HIDE DEF remaining, given
<1>5. \A c \in from .. to :
        /\ remaining[c] = IF c = to THEN << >> ELSE AddHours(one(c), remaining[end(c)])
        /\ given[c] = IF c = to THEN << >> ELSE AddHours(one(c), given[end(c)])
  BY <1>3, <1>4
<1> DEFINE T == {k \in Nat : to - k \in from .. to /\ remaining[to - k] # given[to - k]}
<1>6. T = {}
  <2> SUFFICES ASSUME T # {} PROVE FALSE
    OBVIOUS
  <2>1. PICK k \in T : \A j \in T : k <= j
    <3>1. T \subseteq Nat
      OBVIOUS
    <3> HIDE DEF T
    <3> QED
      BY <3>1, LeastNumber
  <2>2. k \in Nat /\ to - k \in from .. to /\ remaining[to - k] # given[to - k]
    OBVIOUS
  <2>3. to - k # to /\ to - k \in from .. to - 1
    BY <1>5, <2>2
  <2>4. end(to - k) \in to - k + 1 .. to
    BY <1>2, <2>3
  <2>5. PICK j \in Nat : end(to - k) = to - j /\ j < k
    <3>1. to - end(to - k) \in Nat /\ to - (to - end(to - k)) = end(to - k)
          /\ to - end(to - k) < k
      BY <2>2, <2>4
    <3> QED
      BY <3>1
  <2>6. j \notin T
    <3> HIDE DEF T
    <3> QED
      BY <2>1, <2>2, <2>5
  <2>7. to - j \in from .. to
    BY <2>2, <2>4, <2>5
  <2>8. remaining[to - j] = given[to - j]
    BY <2>6, <2>7
  <2> QED
    BY <1>5, <2>2, <2>3, <2>5, <2>8
<1>7. to - from \in Nat /\ to - (to - from) = from /\ from \in from .. to
  OBVIOUS
<1>8. remaining[from] = given[from]
  <2>1. to - from \notin T
    BY <1>6
  <2> QED
    BY <1>7, <2>1
<1>9. given[from] = Given(v, from, to)
  BY <1>7 DEF given
<1> QED
  BY <1>1, <1>8, <1>9

\* Each hour gets of an interval the power for the ticks they share.
LEMMA SharesAre ==
  ASSUME NEW from, NEW to, NEW v, NEW energy, Interval(from, to, v, energy)
  PROVE  /\ DOMAIN HourShares(from, to, energy) = HourOf(from) .. HourOf(to - 1)
         /\ \A h \in Nat : /\ Share(h, from, to) \in Int
                           /\ v * Share(h, from, to) \in Int
                           /\ EnergyOf(HourShares(from, to, energy), h) = v * Share(h, from, to)
<1> DEFINE shares == HourShares(from, to, energy)
<1>0. from \in Nat /\ to \in Nat /\ from < to /\ v \in Int /\ energy = v * (to - from)
  BY DEF Interval
<1> USE <1>0
<1>1. shares = [h \in HourOf(from) .. HourOf(to - 1) |-> v * Share(h, from, to)]
  <2>1. shares = Given(v, from, to)
    BY SharesAreGiven
  <2>2. from # to
    OBVIOUS
  <2> HIDE DEF shares
  <2> QED
    BY <2>1, <2>2 DEF Given
<1>2. to - 1 \in Nat /\ HourOf(from) \in Nat /\ HourOf(to - 1) \in Nat
  <2>1. to - 1 \in Nat
    OBVIOUS
  <2> QED
    BY <2>1, HourIs
<1>3. \A h \in Nat : h * HourTicks \in Nat /\ (h + 1) * HourTicks \in Nat
                     /\ h * HourTicks < (h + 1) * HourTicks
  BY HourIs
<1>4. ASSUME NEW h \in Nat
      PROVE  /\ Share(h, from, to) \in Int
             /\ v * Share(h, from, to) \in Int
             /\ EnergyOf(shares, h) = v * Share(h, from, to)
  <2>1. Share(h, from, to) \in Int
    BY <1>3 DEF Share, Before
  <2>2. v * Share(h, from, to) \in Int
    BY <2>1
  <2>3. h \notin HourOf(from) .. HourOf(to - 1) => Share(h, from, to) = 0
    <3>1. ASSUME h < HourOf(from) PROVE Share(h, from, to) = 0
      <4>1. (h + 1) * HourTicks <= from
        BY <3>1, HoursGrow
      <4> QED
        BY <4>1, <1>3 DEF Share, Before
    <3>2. ASSUME h > HourOf(to - 1) PROVE Share(h, from, to) = 0
      <4>1. to - 1 < h * HourTicks
        BY <3>2, <1>2, HoursGrow
      <4> QED
        BY <4>1, <1>3 DEF Share, Before
    <3> QED
      BY <3>1, <3>2, <1>2
  <2>4. v * 0 = 0
    OBVIOUS
  <2> HIDE DEF shares
  <2> QED
    BY <2>1, <2>2, <2>3, <2>4, <1>1 DEF EnergyOf
<1>5. DOMAIN shares = HourOf(from) .. HourOf(to - 1)
  BY <1>1
<1> QED
  BY <1>4, <1>5

-----------------------------------------------------------------------------
(* The loops over samples. *)

\* Samples in the order of their times, no two of the same.
Ordered(s) ==
  /\ s \in Seq([ts : Nat, value : Int])
  /\ \A i, j \in DOMAIN s : i < j => s[i].ts < s[j].ts

LEMMA SampleHolds ==
  ASSUME NEW s, Ordered(s), NEW cap \in Nat, NEW i \in 1 .. Len(s) - 1
  PROVE  /\ Interval(s[i].ts, HoldsUntil(s, i, cap), s[i].value, IntervalEnergy(s, i, cap))
         /\ Holds(s, i, cap)
         /\ IntervalEnergy(s, i, cap) \in Int
         /\ HoldsUntil(s, i, cap) <= s[i + 1].ts
<1>1. Len(s) \in Nat /\ DOMAIN s = 1 .. Len(s)
  BY DEF Ordered
<1>2. i \in DOMAIN s /\ i + 1 \in DOMAIN s /\ i < i + 1
  BY <1>1
<1>3. /\ s[i].ts \in Nat /\ s[i].value \in Int /\ s[i + 1].ts \in Nat
      /\ s[i].ts < s[i + 1].ts
  <2> DEFINE P == [ts : Nat, value : Int]
  <2>0. s \in Seq(P)
    BY DEF Ordered
  <2>1. \A j \in DOMAIN s : s[j] \in P
    <3> HIDE DEF P
    <3> QED
      BY <2>0
  <2>2. s[i].ts \in Nat /\ s[i].value \in Int /\ s[i + 1].ts \in Nat
    BY <1>2, <2>1
  <2>3. s[i].ts < s[i + 1].ts
    BY <1>2 DEF Ordered
  <2> QED
    BY <2>2, <2>3
<1>4. /\ HoldsUntil(s, i, cap) \in Nat /\ s[i].ts < HoldsUntil(s, i, cap)
      /\ HoldsUntil(s, i, cap) <= s[i + 1].ts
  BY <1>3 DEF HoldsUntil
<1> HIDE DEF HoldsUntil
<1>5. IntervalEnergy(s, i, cap) = s[i].value * (HoldsUntil(s, i, cap) - s[i].ts)
  BY DEF IntervalEnergy
<1>6. HoldsUntil(s, i, cap) - s[i].ts \in Int
  BY <1>3, <1>4
<1>7. IntervalEnergy(s, i, cap) \in Int
  BY <1>3, <1>5, <1>6
<1> QED
  BY <1>3, <1>4, <1>5, <1>7 DEF Interval, Holds

\* The interval of a sample.
Piece(s, i, cap) == [ts |-> s[i].ts, energy |-> IntervalEnergy(s, i, cap)]

LEMMA IntervalsAre ==
  ASSUME NEW s, Ordered(s), NEW cap \in Nat
  PROVE  IntegrateIntervals(s, cap) = [i \in 1 .. Len(s) - 1 |-> Piece(s, i, cap)]
<1> DEFINE n == Len(s) - 1
           piece(i) == Piece(s, i, cap)
           given == [i \in 0 .. n |-> [j \in 1 .. i |-> piece(j)]]
           total == CHOOSE g : g = [i \in 0 .. n |->
                      IF i = 0 THEN << >>
                      ELSE IF Holds(s, i, cap) THEN Append(g[i - 1], piece(i)) ELSE g[i - 1]]
<1>1. Len(s) \in Nat
  BY DEF Ordered
<1>2. CASE Len(s) < 2
  <2>1. [i \in 1 .. n |-> piece(i)] = << >>
    BY <1>1, <1>2
  <2> QED
    BY <1>2, <2>1 DEF IntegrateIntervals
<1>3. CASE Len(s) >= 2
  <2>1. IntegrateIntervals(s, cap) = total[n]
    BY <1>1, <1>3 DEF IntegrateIntervals, Piece
  <2>2. n \in Nat /\ \A i \in 1 .. n : Holds(s, i, cap)
    BY <1>1, <1>3, SampleHolds
  <2> HIDE DEF piece, n
  <2>3. given[0] = << >> /\ \A i \in 1 .. n : given[i] = Append(given[i - 1], piece(i))
    <3>1. given[0] = << >>
      BY <2>2
    <3>2. ASSUME NEW i \in 1 .. n PROVE given[i] = Append(given[i - 1], piece(i))
      <4> DEFINE S == {piece(j) : j \in 1 .. n}
                 before == [j \in 1 .. i - 1 |-> piece(j)]
      <4>1. given[i - 1] = before /\ given[i] = [j \in 1 .. i |-> piece(j)]
        BY <2>2
      <4>2. before \in Seq(S) /\ Len(before) = i - 1 /\ piece(i) \in S
        <5>1. i - 1 \in Nat /\ before \in [1 .. i - 1 -> S]
          BY <2>2
        <5> HIDE DEF S
        <5> QED
          BY <5>1, <2>2 DEF S
      <4>3. \A j \in 1 .. i - 1 : before[j] = piece(j)
        OBVIOUS
      <4> HIDE DEF before, S
      <4>4. Append(before, piece(i)) = [j \in 1 .. i |-> piece(j)]
        <5> DEFINE after == Append(before, piece(i))
        <5>1. after \in Seq(S) /\ Len(after) = i /\ i \in Nat
          BY <4>2, <2>2
        <5>2. \A j \in 1 .. i : after[j] = piece(j)
          <6>1. \A j \in 1 .. i : j = i \/ j \in 1 .. i - 1
            BY <2>2
          <6>2. after[i] = piece(i)
            BY <4>2, <2>2
          <6>3. \A j \in 1 .. i - 1 : after[j] = before[j]
            BY <4>2, <2>2
          <6> HIDE DEF after
          <6> QED
            BY <4>3, <6>1, <6>2, <6>3
        <5> HIDE DEF after
        <5>3. after = [j \in 1 .. i |-> after[j]]
          BY <5>1
        <5>4. after = [j \in 1 .. i |-> piece(j)]
          BY <5>2, <5>3
        <5> QED
          BY <5>4 DEF after
      <4> QED
        BY <4>1, <4>4
    <3> QED
      BY <3>1, <3>2
  <2>4. given = [i \in 0 .. n |->
                   IF i = 0 THEN << >>
                   ELSE IF Holds(s, i, cap) THEN Append(given[i - 1], piece(i)) ELSE given[i - 1]]
    <3>1. \A i \in 0 .. n : given[i] = IF i = 0 THEN << >>
                   ELSE IF Holds(s, i, cap) THEN Append(given[i - 1], piece(i)) ELSE given[i - 1]
      <4>1. \A i \in 0 .. n : i # 0 => i \in 1 .. n
        BY <2>2
      <4> HIDE DEF given
      <4> QED
        BY <2>2, <2>3, <4>1
    <3>2. given = [i \in 0 .. n |-> given[i]]
      OBVIOUS
    <3> HIDE DEF given
    <3> QED
      BY <3>1, <3>2
  <2>5. total = [i \in 0 .. n |->
                   IF i = 0 THEN << >>
                   ELSE IF Holds(s, i, cap) THEN Append(total[i - 1], piece(i)) ELSE total[i - 1]]
    BY <2>4
  <2> HIDE DEF total
  <2>6. total[0] = << >> /\ \A i \in 1 .. n : total[i] = Append(total[i - 1], piece(i))
    <3>1. \A i \in 0 .. n : total[i] = IF i = 0 THEN << >>
                   ELSE IF Holds(s, i, cap) THEN Append(total[i - 1], piece(i)) ELSE total[i - 1]
      BY <2>5
    <3>2. total[0] = << >>
      <4>1. 0 \in 0 .. n
        BY <2>2
      <4> QED
        BY <3>1, <4>1
    <3>3. ASSUME NEW i \in 1 .. n PROVE total[i] = Append(total[i - 1], piece(i))
      <4>1. i \in 0 .. n /\ i # 0 /\ Holds(s, i, cap)
        BY <2>2
      <4> QED
        BY <3>1, <4>1
    <3> QED
      BY <3>2, <3>3
  <2> DEFINE S == {i \in 0 .. n : total[i] = given[i]}
  <2>7. \A i \in 0 .. n : i \in S
    <3>1. 0 \in S
      BY <2>2, <2>3, <2>6
    <3>2. \A i \in 1 .. n : i - 1 \in S => i \in S
      <4> SUFFICES ASSUME NEW i \in 1 .. n, i - 1 \in S PROVE i \in S
        OBVIOUS
      <4>1. total[i - 1] = given[i - 1] /\ i \in 0 .. n
        BY <2>2
      <4> HIDE DEF given
      <4>2. total[i] = given[i]
        BY <2>3, <2>6, <4>1
      <4> QED
        BY <4>1, <4>2
    <3> HIDE DEF S
    <3> QED
      BY <2>2, <3>1, <3>2, UpTo
  <2>8. total[n] = given[n] /\ given[n] = [i \in 1 .. n |-> piece(i)]
    BY <2>2, <2>7
  <2> QED
    BY <2>1, <2>8 DEF piece, n
<1> QED
  BY <1>1, <1>2, <1>3

-----------------------------------------------------------------------------

LEMMA HoursAdd ==
  ASSUME NEW a, NEW b
  PROVE  /\ DOMAIN AddHours(a, b) = DOMAIN a \cup DOMAIN b
         /\ \A h : EnergyOf(AddHours(a, b), h) = EnergyOf(a, h) + EnergyOf(b, h)
BY DEF AddHours, EnergyOf

\* What the hours have after n samples.
Hourly(g, s, cap) ==
  /\ g[0] = << >>
  /\ \A i \in 1 .. Len(s) - 1 :
       /\ DOMAIN g[i] \subseteq
            DOMAIN g[i - 1] \cup (HourOf(s[i].ts) .. HourOf(HoldsUntil(s, i, cap) - 1))
       /\ \A h \in Nat :
            /\ EnergyOf(g[i - 1], h) \in Int
            /\ EnergyOf(g[i], h) = EnergyOf(g[i - 1], h)
                                     + s[i].value * Share(h, s[i].ts, HoldsUntil(s, i, cap))

LEMMA HourlyIs ==
  ASSUME NEW s, Ordered(s), NEW cap \in Nat, Len(s) >= 2
  PROVE  \E g : Hourly(g, s, cap) /\ IntegrateHourly(s, cap) = g[Len(s) - 1]
<1> DEFINE n == Len(s) - 1
           until(i) == HoldsUntil(s, i, cap)
           energy(i) == IntervalEnergy(s, i, cap)
           counts(i) == Holds(s, i, cap) /\ energy(i) # 0
           shares(i) == HourShares(s[i].ts, until(i), energy(i))
           D == UNION {[S -> Int] : S \in SUBSET Nat}
           step == [x \in (1 .. n) \X D |->
                      IF counts(x[1]) THEN AddHours(x[2], shares(x[1])) ELSE x[2]]
           total == CHOOSE g : g = [i \in 0 .. n |->
                      IF i = 0 THEN << >>
                      ELSE IF counts(i) THEN AddHours(g[i - 1], shares(i)) ELSE g[i - 1]]
<1>1. Len(s) \in Nat /\ n \in Nat
  BY DEF Ordered
<1>2. IntegrateHourly(s, cap) = total[n]
  BY <1>1 DEF IntegrateHourly
<1>3. \A i \in 1 .. n : /\ Interval(s[i].ts, until(i), s[i].value, energy(i))
                        /\ Holds(s, i, cap) /\ energy(i) \in Int
  BY SampleHolds
<1> HIDE DEF n, until, energy
<1>4. \A i \in 1 .. n :
        /\ DOMAIN shares(i) = HourOf(s[i].ts) .. HourOf(until(i) - 1)
        /\ \A h \in Nat : /\ s[i].value * Share(h, s[i].ts, until(i)) \in Int
                          /\ EnergyOf(shares(i), h) = s[i].value * Share(h, s[i].ts, until(i))
  BY <1>3, SharesAre
<1>5. \A i \in 1 .. n : HourOf(s[i].ts) .. HourOf(until(i) - 1) \subseteq Nat
  <2> SUFFICES ASSUME NEW i \in 1 .. n
               PROVE  HourOf(s[i].ts) .. HourOf(until(i) - 1) \subseteq Nat
    OBVIOUS
  <2>1. s[i].ts \in Nat /\ until(i) - 1 \in Nat
    BY <1>3 DEF Interval
  <2>2. HourOf(s[i].ts) \in Nat /\ HourOf(until(i) - 1) \in Nat
    BY <2>1, HourIs
  <2> QED
    BY <2>2
<1> HIDE DEF counts, shares
<1>6. \A f \in D : DOMAIN f \subseteq Nat /\ \A h \in Nat : EnergyOf(f, h) \in Int
  BY DEF EnergyOf
<1>7. << >> \in D
  <2>1. << >> \in [{} -> Int]
    OBVIOUS
  <2> QED
    BY <2>1
<1>8. \A f \in D, i \in 1 .. n : AddHours(f, shares(i)) \in D
  <2> SUFFICES ASSUME NEW f \in D, NEW i \in 1 .. n PROVE AddHours(f, shares(i)) \in D
    OBVIOUS
  <2> DEFINE S == DOMAIN f \cup DOMAIN shares(i)
  <2>1. S \subseteq Nat
    BY <1>4, <1>5, <1>6
  <2>2. \A h \in S : EnergyOf(f, h) + EnergyOf(shares(i), h) \in Int
    <3>1. \A h \in Nat : EnergyOf(shares(i), h) \in Int
      BY <1>4
    <3>2. \A h \in Nat : EnergyOf(f, h) \in Int
      BY <1>6
    <3> QED
      BY <2>1, <3>1, <3>2
  <2>3. AddHours(f, shares(i)) \in [S -> Int]
    BY <2>2 DEF AddHours
  <2> QED
    BY <2>1, <2>3
<1> HIDE DEF D
<1>9. step \in [(1 .. n) \X D -> D]
  BY <1>8
<1>10. \A i \in 1 .. n, f \in D :
         step[<<i, f>>] = IF counts(i) THEN AddHours(f, shares(i)) ELSE f
  OBVIOUS
<1> HIDE DEF step
<1>11. PICK loop : Loops(loop, n, D, << >>, step)
  BY <1>1, <1>7, <1>9, Recursion
<1>12. loop = [i \in 0 .. n |->
                 IF i = 0 THEN << >>
                 ELSE IF counts(i) THEN AddHours(loop[i - 1], shares(i)) ELSE loop[i - 1]]
  <2>1. \A i \in 0 .. n : loop[i] = IF i = 0 THEN << >>
                 ELSE IF counts(i) THEN AddHours(loop[i - 1], shares(i)) ELSE loop[i - 1]
    <3>1. \A i \in 0 .. n : i # 0 => i \in 1 .. n /\ loop[i - 1] \in D
      BY <1>1, <1>11 DEF Loops
    <3> QED
      BY <3>1, <1>10, <1>11 DEF Loops
  <2>2. loop = [i \in 0 .. n |-> loop[i]]
    BY <1>11 DEF Loops
  <2> QED
    BY <2>1, <2>2
<1>13. total = [i \in 0 .. n |->
                 IF i = 0 THEN << >>
                 ELSE IF counts(i) THEN AddHours(total[i - 1], shares(i)) ELSE total[i - 1]]
  BY <1>12
<1> HIDE DEF total
<1>14. /\ total[0] = << >>
       /\ \A i \in 1 .. n : total[i] = IF counts(i) THEN AddHours(total[i - 1], shares(i))
                                       ELSE total[i - 1]
  <2>1. \A i \in 0 .. n : total[i] = IF i = 0 THEN << >>
                 ELSE IF counts(i) THEN AddHours(total[i - 1], shares(i)) ELSE total[i - 1]
    BY <1>13
  <2> QED
    BY <1>1, <2>1
<1> DEFINE added(i, h) == s[i].value * Share(h, s[i].ts, until(i))
<1>15. \A i \in 1 .. n : ~counts(i) => \A h \in Nat : added(i, h) = 0
  <2> SUFFICES ASSUME NEW i \in 1 .. n, ~counts(i), NEW h \in Nat PROVE added(i, h) = 0
    OBVIOUS
  <2>1. energy(i) = 0
    BY <1>3 DEF counts
  <2>2. s[i].value \in Int /\ until(i) - s[i].ts \in Nat \ {0}
        /\ s[i].value * (until(i) - s[i].ts) = 0
    BY <1>3, <2>1 DEF Interval
  <2>3. \A v \in Int, d \in Nat \ {0} : v * d = 0 => v = 0
    BY Z3
  <2>4. s[i].value = 0
    BY <2>2, <2>3
  <2>5. Share(h, s[i].ts, until(i)) \in Int
    BY <1>3, SharesAre
  <2>6. \A x \in Int : 0 * x = 0
    BY Z3
  <2> QED
    BY <2>4, <2>5, <2>6
<1>16. \A i \in 1 .. n, h \in Nat : added(i, h) \in Int /\ EnergyOf(shares(i), h) = added(i, h)
  BY <1>4
<1> HIDE DEF added
<1> DEFINE S == {i \in 0 .. n : \A h \in Nat : EnergyOf(total[i], h) \in Int}
<1>17. ASSUME NEW i \in 1 .. n, i - 1 \in S, NEW h \in Nat
       PROVE  /\ EnergyOf(total[i], h) = EnergyOf(total[i - 1], h) + added(i, h)
              /\ EnergyOf(total[i - 1], h) \in Int
              /\ EnergyOf(total[i], h) \in Int
  <2>1. EnergyOf(total[i - 1], h) \in Int
    BY <1>17
  <2>2. CASE counts(i)
    <3>1. EnergyOf(total[i], h) = EnergyOf(total[i - 1], h) + EnergyOf(shares(i), h)
      <4>1. total[i] = AddHours(total[i - 1], shares(i))
        BY <1>14, <2>2
      <4>2. EnergyOf(AddHours(total[i - 1], shares(i)), h)
              = EnergyOf(total[i - 1], h) + EnergyOf(shares(i), h)
        BY HoursAdd
      <4> QED
        BY <4>1, <4>2
    <3> QED
      BY <2>1, <3>1, <1>16
  <2>3. CASE ~counts(i)
    BY <1>14, <1>15, <2>1, <2>3
  <2> QED
    BY <2>2, <2>3
<1>18. \A i \in 0 .. n : i \in S
  <2>1. 0 \in S
    <3>1. \A h \in Nat : EnergyOf(<< >>, h) = 0
      BY DEF EnergyOf
    <3> QED
      BY <1>1, <1>14, <3>1
  <2>2. \A i \in 1 .. n : i - 1 \in S => i \in S
    BY <1>17
  <2> HIDE DEF S
  <2> QED
    BY <1>1, <2>1, <2>2, UpTo
<1>19. \A i \in 1 .. n : i - 1 \in S
  BY <1>1, <1>18
<1>20. \A i \in 1 .. n : DOMAIN total[i] \subseteq
         DOMAIN total[i - 1] \cup (HourOf(s[i].ts) .. HourOf(until(i) - 1))
  <2> SUFFICES ASSUME NEW i \in 1 .. n
               PROVE  DOMAIN total[i] \subseteq
                 DOMAIN total[i - 1] \cup (HourOf(s[i].ts) .. HourOf(until(i) - 1))
    OBVIOUS
  <2>1. CASE counts(i)
    <3>1. total[i] = AddHours(total[i - 1], shares(i))
      BY <1>14, <2>1
    <3>2. DOMAIN AddHours(total[i - 1], shares(i)) = DOMAIN total[i - 1] \cup DOMAIN shares(i)
      BY HoursAdd
    <3>3. DOMAIN shares(i) = HourOf(s[i].ts) .. HourOf(until(i) - 1)
      BY <1>4
    <3> QED
      BY <3>1, <3>2, <3>3
  <2>2. CASE ~counts(i)
    <3>1. total[i] = total[i - 1]
      BY <1>14, <2>2
    <3> QED
      BY <3>1
  <2> QED
    BY <2>1, <2>2
<1> HIDE DEF S
<1>21. Hourly(total, s, cap)
  <2>1. total[0] = << >>
    BY <1>14
  <2>2. ASSUME NEW i \in 1 .. n, NEW h \in Nat
        PROVE  /\ EnergyOf(total[i - 1], h) \in Int
               /\ EnergyOf(total[i], h) = EnergyOf(total[i - 1], h)
                                            + s[i].value * Share(h, s[i].ts, until(i))
    <3>1. /\ EnergyOf(total[i], h) = EnergyOf(total[i - 1], h) + added(i, h)
          /\ EnergyOf(total[i - 1], h) \in Int
      BY <1>17, <1>19
    <3> QED
      BY <3>1 DEF added
  <2> QED
    BY <2>1, <2>2, <1>20 DEF Hourly, n, until
<1> QED
  BY <1>2, <1>21 DEF n

LEMMA SumSame ==
  ASSUME NEW a, NEW b, NEW f, Summable(f, a, b), NEW p, \A i \in a .. b : p[i] = f[i]
  PROVE  Summable(p, a, b) /\ SumOf(p, a, b) = SumOf(f, a, b)
<1>1. PICK s \in [a - 1 .. b -> Int] : AddsUp(s, f, a, b) /\ SumOf(f, a, b) = s[b]
  BY SumLoop
<1>2. Summable(p, a, b)
  BY DEF Summable
<1>3. AddsUp(s, p, a, b)
  BY <1>1 DEF AddsUp
<1> QED
  BY <1>1, <1>2, <1>3, SumIs

LEMMA SumNone ==
  ASSUME NEW a \in Int, NEW b \in Int, a - 1 <= b, NEW f, \A i \in a .. b : f[i] = 0
  PROVE  Summable(f, a, b) /\ SumOf(f, a, b) = 0
<1> DEFINE g == [i \in a - 1 .. b |-> 0]
<1>1. Summable(f, a, b)
  BY DEF Summable
<1>2. AddsUp(g, f, a, b) /\ g[b] = 0
  BY DEF AddsUp
<1> HIDE DEF g
<1> QED
  BY <1>1, <1>2, SumIs

-----------------------------------------------------------------------------
(* What the loops have is what the power of the samples adds up to. *)

\* The power the samples tell of at each tick until last.
PowerOf(p, s, cap, last) ==
  \A t \in 0 .. last :
    /\ p[t] \in Int
    /\ \A i \in 1 .. Len(s) - 1 : s[i].ts <= t /\ t < s[i + 1].ts =>
         p[t] = IF t < HoldsUntil(s, i, cap) THEN s[i].value ELSE 0
    /\ t < s[1].ts \/ s[Len(s)].ts <= t => p[t] = 0

LEMMA BeforeIs ==
  ASSUME NEW from \in Nat, NEW to \in Nat, from < to, NEW x \in Nat
  PROVE  /\ Before(x, from, to) \in Int
         /\ x = 0 => Before(x, from, to) = 0
         /\ to <= x => Before(x, from, to) = to - from
BY DEF Before

\* One of its intervals more.
LEMMA PowerGrows ==
  ASSUME NEW from \in Nat, NEW to \in Nat, from < to, NEW v \in Int, NEW t \in Nat
  PROVE  v * (Before(t + 1, from, to) - Before(t, from, to)) =
           IF from <= t /\ t < to THEN v ELSE 0
<1>1. Before(t + 1, from, to) - Before(t, from, to) = IF from <= t /\ t < to THEN 1 ELSE 0
  BY DEF Before
<1>2. v * 1 = v /\ v * 0 = 0
  OBVIOUS
<1> QED
  BY <1>1, <1>2

\* Power v from .. to - 1, and none from there until next.
Holding(p, a, b, from, to, next, v) ==
  \A t \in a .. b : /\ p[t] \in Int
                    /\ from <= t /\ t < next => p[t] = IF t < to THEN v ELSE 0

\* f has the power before t, and zero since.
Cut(f, p, a, b, x) == \A t \in a .. b : f[t] = IF t < x THEN p[t] ELSE 0

LEMMA IntervalAdds ==
  ASSUME NEW a \in Nat, NEW b \in Nat, a <= b,
         NEW from \in Nat, NEW to \in Nat, NEW next \in Nat, from < to, to <= next,
         NEW v \in Int, NEW p, Holding(p, a, b, from, to, next, v),
         NEW f, Summable(f, a, b), Cut(f, p, a, b, from),
         NEW q, Cut(q, p, a, b, next)
  PROVE  /\ Summable(q, a, b)
         /\ SumOf(q, a, b) = SumOf(f, a, b) + v * (Before(b + 1, from, to) - Before(a, from, to))
<1> DEFINE B == [x \in a .. b + 1 |-> Before(x, from, to)]
<1>1. \A x \in a .. b + 1 : B[x] \in Int /\ B[x] = Before(x, from, to)
  <2>1. \A x \in a .. b + 1 : x \in Nat /\ B[x] = Before(x, from, to)
    OBVIOUS
  <2> HIDE DEF B
  <2> QED
    BY <2>1, BeforeIs
<1> HIDE DEF B
<1>2. \A t \in a .. b : q[t] = f[t] + v * (B[t + 1] - B[t])
  <2> SUFFICES ASSUME NEW t \in a .. b PROVE q[t] = f[t] + v * (B[t + 1] - B[t])
    OBVIOUS
  <2> DEFINE more == v * (B[t + 1] - B[t])
  <2>1. t \in Nat /\ t \in a .. b + 1 /\ t + 1 \in a .. b + 1
    OBVIOUS
  <2>2. B[t + 1] = Before(t + 1, from, to) /\ B[t] = Before(t, from, to)
    BY <1>1, <2>1
  <2>3. more = IF from <= t /\ t < to THEN v ELSE 0
    <3>1. v * (Before(t + 1, from, to) - Before(t, from, to))
            = IF from <= t /\ t < to THEN v ELSE 0
      BY <2>1, PowerGrows
    <3> QED
      BY <2>2, <3>1
  <2> HIDE DEF more
  <2>4. q[t] = f[t] + more
    BY <2>1, <2>3 DEF Cut, Holding
  <2> QED
    BY <2>4 DEF more
<1>3. /\ Summable(q, a, b)
      /\ SumOf(q, a, b) = SumOf(f, a, b) + v * (B[b + 1] - B[a])
  BY <1>1, <1>2, SumGrows
<1>4. B[b + 1] = Before(b + 1, from, to) /\ B[a] = Before(a, from, to)
  <2>1. b + 1 \in a .. b + 1 /\ a \in a .. b + 1
    OBVIOUS
  <2> QED
    BY <1>1, <2>1
<1> QED
  BY <1>3, <1>4

\* What the loop adds to e is the power of a .. b.
LEMMA WindowSums ==
  ASSUME NEW s, Ordered(s), NEW cap \in Nat, Len(s) >= 2,
         NEW a \in Nat, NEW b \in Nat, a <= b, NEW last \in Nat, b <= last,
         NEW p, PowerOf(p, s, cap, last),
         NEW e, e[0] = 0,
         \A k \in 1 .. Len(s) - 1 :
           e[k] = e[k - 1] + s[k].value * (Before(b + 1, s[k].ts, HoldsUntil(s, k, cap))
                                             - Before(a, s[k].ts, HoldsUntil(s, k, cap)))
  PROVE  e[Len(s) - 1] = SumOf(p, a, b)
<1> DEFINE n == Len(s) - 1
           until(i) == HoldsUntil(s, i, cap)
           P(k) == [t \in a .. b |-> IF t < s[k].ts THEN p[t] ELSE 0]
<1>1. Len(s) \in Nat /\ n \in Nat /\ Len(s) = n + 1 /\ n >= 1
  BY DEF Ordered
<1>2. \A k \in 1 .. n + 1 : s[k].ts \in Nat
  <2> DEFINE Q == [ts : Nat, value : Int]
  <2>1. s \in Seq(Q)
    BY DEF Ordered
  <2>2. \A k \in 1 .. Len(s) : s[k] \in Q
    <3> HIDE DEF Q
    <3> QED
      BY <2>1
  <2> QED
    BY <1>1, <2>2
<1>3. \A k \in 1 .. n :
        /\ s[k].ts \in Nat /\ until(k) \in Nat /\ s[k].ts < until(k) /\ s[k].value \in Int
        /\ until(k) <= s[k + 1].ts /\ s[k + 1].ts \in Nat
  <2>1. \A k \in 1 .. n :
        /\ s[k].ts \in Nat /\ until(k) \in Nat /\ s[k].ts < until(k) /\ s[k].value \in Int
        /\ until(k) <= s[k + 1].ts
    BY SampleHolds DEF Interval
  <2>2. \A k \in 1 .. n : k + 1 \in 1 .. n + 1
    BY <1>1
  <2> HIDE DEF n, until
  <2> QED
    BY <1>2, <2>1, <2>2
<1>5. \A t \in a .. b : t \in 0 .. last /\ t \in Nat /\ p[t] \in Int
  BY DEF PowerOf
<1>6. Summable(P(1), a, b) /\ SumOf(P(1), a, b) = 0
  <2>1. \A t \in a .. b : P(1)[t] = 0
    BY <1>5 DEF PowerOf
  <2> HIDE DEF P
  <2> QED
    BY <2>1, SumNone
<1>7. SumOf(p, a, b) = SumOf(P(n + 1), a, b)
  <2>1. \A t \in a .. b : p[t] = P(n + 1)[t]
    <3> SUFFICES ASSUME NEW t \in a .. b PROVE p[t] = P(n + 1)[t]
      OBVIOUS
    <3>1. P(n + 1)[t] = IF t < s[n + 1].ts THEN p[t] ELSE 0
      OBVIOUS
    <3>2. s[n + 1].ts <= t => p[t] = 0
      BY <1>1, <1>5 DEF PowerOf
    <3>3. s[n + 1].ts \in Nat /\ t \in Nat
      <4>1. n + 1 \in 1 .. n + 1
        BY <1>1
      <4> QED
        BY <1>2, <4>1
    <3> HIDE DEF P
    <3> QED
      BY <3>1, <3>2, <3>3
  <2>2. Summable(P(n + 1), a, b)
    <3>1. \A t \in a .. b : P(n + 1)[t] \in Int
      BY <1>5
    <3> HIDE DEF P
    <3> QED
      BY <3>1 DEF Summable
  <2> HIDE DEF P
  <2> QED
    BY <2>1, <2>2, SumSame
<1>8. ASSUME NEW k \in 1 .. n, Summable(P(k), a, b)
      PROVE  /\ Summable(P(k + 1), a, b)
             /\ SumOf(P(k + 1), a, b) = SumOf(P(k), a, b)
                  + s[k].value * (Before(b + 1, s[k].ts, until(k)) - Before(a, s[k].ts, until(k)))
  <2> DEFINE from == s[k].ts
             to == until(k)
             next == s[k + 1].ts
             v == s[k].value
             f == P(k)
             q == P(k + 1)
  <2>1. /\ from \in Nat /\ to \in Nat /\ next \in Nat /\ from < to /\ to <= next /\ v \in Int
    BY <1>3
  <2>2. Holding(p, a, b, from, to, next, v)
    BY <1>5 DEF PowerOf, Holding
  <2>3. Cut(f, p, a, b, from) /\ Cut(q, p, a, b, next)
    BY DEF Cut
  <2>4. Summable(f, a, b)
    BY <1>8
  <2> HIDE DEF from, to, next, v, f, q
  <2>5. /\ Summable(q, a, b)
        /\ SumOf(q, a, b) = SumOf(f, a, b) + v * (Before(b + 1, from, to) - Before(a, from, to))
    BY <2>1, <2>2, <2>3, <2>4, IntervalAdds
  <2> QED
    BY <2>5 DEF from, to, v, f, q
<1> DEFINE S == {k \in 0 .. n : Summable(P(k + 1), a, b) /\ e[k] = SumOf(P(k + 1), a, b)}
<1>9. \A k \in 1 .. n :
        e[k] = e[k - 1] + s[k].value * (Before(b + 1, s[k].ts, until(k)) - Before(a, s[k].ts, until(k)))
  OBVIOUS
<1> HIDE DEF P, until, n
<1>10. \A k \in 0 .. n : k \in S
  <2>1. 0 \in S
    <3>1. P(0 + 1) = P(1) /\ 0 \in 0 .. n
      BY <1>1
    <3> QED
      BY <1>6, <3>1
  <2>2. ASSUME NEW k \in 1 .. n, k - 1 \in S PROVE k \in S
    <3>1. P(k - 1 + 1) = P(k) /\ k \in 0 .. n
      <4>1. k - 1 + 1 = k
        BY <1>1
      <4> QED
        BY <1>1, <4>1
    <3>2. Summable(P(k), a, b) /\ e[k - 1] = SumOf(P(k), a, b)
      BY <2>2, <3>1
    <3> QED
      BY <1>8, <1>9, <3>1, <3>2
  <2> HIDE DEF S
  <2> QED
    BY <1>1, <2>1, <2>2, UpTo
<1>11. n \in S
  BY <1>1, <1>10
<1> QED
  BY <1>7, <1>11 DEF n

LEMMA HourSums ==
  ASSUME NEW s, Ordered(s), NEW cap \in Nat, Len(s) >= 2, NEW g, Hourly(g, s, cap),
         NEW h \in Nat, NEW last \in Nat, (h + 1) * HourTicks - 1 <= last,
         NEW p, PowerOf(p, s, cap, last)
  PROVE  EnergyOf(g[Len(s) - 1], h) = SumOf(p, h * HourTicks, (h + 1) * HourTicks - 1)
<1> DEFINE a == h * HourTicks
           c == (h + 1) * HourTicks
           b == c - 1
           e == [k \in 0 .. Len(s) - 1 |-> EnergyOf(g[k], h)]
<1>1. Len(s) \in Nat
  BY DEF Ordered
<1>2. a \in Nat /\ c \in Nat /\ a < c
  BY HourIs
<1>3. \A x, y : Share(h, x, y) = Before(c, x, y) - Before(a, x, y)
  BY DEF Share
<1>4. b <= last
  OBVIOUS
<1> HIDE DEF a, c
<1>5. b \in Nat /\ a <= b /\ b + 1 = c
  BY <1>2
<1>6. e[0] = 0 /\ e[Len(s) - 1] = EnergyOf(g[Len(s) - 1], h)
  BY <1>1 DEF Hourly, EnergyOf
<1>7. \A k \in 1 .. Len(s) - 1 :
        e[k] = e[k - 1] + s[k].value * (Before(b + 1, s[k].ts, HoldsUntil(s, k, cap))
                                          - Before(a, s[k].ts, HoldsUntil(s, k, cap)))
  <2> SUFFICES ASSUME NEW k \in 1 .. Len(s) - 1
      PROVE  e[k] = e[k - 1] + s[k].value * (Before(b + 1, s[k].ts, HoldsUntil(s, k, cap))
                                          - Before(a, s[k].ts, HoldsUntil(s, k, cap)))
    OBVIOUS
  <2>1. e[k] = EnergyOf(g[k], h) /\ e[k - 1] = EnergyOf(g[k - 1], h)
    BY <1>1
  <2>2. EnergyOf(g[k], h)
          = EnergyOf(g[k - 1], h) + s[k].value * Share(h, s[k].ts, HoldsUntil(s, k, cap))
    BY DEF Hourly
  <2> HIDE DEF e, b
  <2> QED
    BY <1>3, <1>5, <2>1, <2>2
<1> HIDE DEF e, b
<1>8. e[Len(s) - 1] = SumOf(p, a, b)
  BY <1>2, <1>4, <1>5, <1>6, <1>7, WindowSums
<1> QED
  BY <1>6, <1>8 DEF a, b, c

\* An interval that ends before the last bound adds all its energy to the hours.
Bounds(C, H) == C[0] = 0 /\ \A x \in 0 .. H + 1 : C[x] \in Nat

Gains(q, f, C, H, from, to, v) ==
  \A h \in 0 .. H : q[h] = f[h] + v * (Before(C[h + 1], from, to) - Before(C[h], from, to))

LEMMA HoursAddUp ==
  ASSUME NEW H \in Nat, NEW C, Bounds(C, H),
         NEW from \in Nat, NEW to \in Nat, from < to, to <= C[H + 1], NEW v \in Int,
         NEW f, Summable(f, 0, H),
         NEW q, Gains(q, f, C, H, from, to, v)
  PROVE  SumOf(q, 0, H) = SumOf(f, 0, H) + v * (to - from)
<1> DEFINE B == [x \in 0 .. H + 1 |-> Before(C[x], from, to)]
<1>1. \A x \in 0 .. H + 1 : B[x] \in Int /\ B[x] = Before(C[x], from, to)
  <2>1. \A x \in 0 .. H + 1 : B[x] = Before(C[x], from, to)
    OBVIOUS
  <2> HIDE DEF B
  <2> QED
    BY <2>1, BeforeIs DEF Bounds
<1> HIDE DEF B
<1>2. \A h \in 0 .. H : h \in 0 .. H + 1 /\ h + 1 \in 0 .. H + 1
  OBVIOUS
<1>3. \A h \in 0 .. H : q[h] = f[h] + v * (B[h + 1] - B[h])
  BY <1>1, <1>2 DEF Gains
<1>4. SumOf(q, 0, H) = SumOf(f, 0, H) + v * (B[H + 1] - B[0])
  BY <1>1, <1>3, SumGrows
<1>5. B[H + 1] = to - from /\ B[0] = 0
  <2>1. 0 \in 0 .. H + 1 /\ H + 1 \in 0 .. H + 1
    OBVIOUS
  <2>2. Before(C[0], from, to) = 0 /\ Before(C[H + 1], from, to) = to - from
    BY <2>1, BeforeIs DEF Bounds
  <2> QED
    BY <1>1, <2>1, <2>2
<1>6. B[H + 1] - B[0] = to - from
  BY <1>5
<1> QED
  BY <1>4, <1>6

EndBy(s, cap, end) == \A i \in 1 .. Len(s) - 1 : HoldsUntil(s, i, cap) <= end

LEMMA HoursSum ==
  ASSUME NEW s, Ordered(s), NEW cap \in Nat, Len(s) >= 2, NEW g, Hourly(g, s, cap),
         NEW H \in Nat, EndBy(s, cap, (H + 1) * HourTicks)
  PROVE  SumOf([h \in 0 .. H |-> EnergyOf(g[Len(s) - 1], h)], 0, H) =
           SumOf([i \in 1 .. Len(s) - 1 |-> IntervalEnergy(s, i, cap)], 1, Len(s) - 1)
<1> DEFINE n == Len(s) - 1
           until(i) == HoldsUntil(s, i, cap)
           F(k) == [h \in 0 .. H |-> EnergyOf(g[k], h)]
           C == [x \in 0 .. H + 1 |-> x * HourTicks]
           energies == [i \in 1 .. n |-> IntervalEnergy(s, i, cap)]
           G == [k \in 0 .. n |-> SumOf(F(k), 0, H)]
<1>1. Len(s) \in Nat /\ n \in Nat /\ 1 <= n
  BY DEF Ordered
<1>2. \A k \in 1 .. n :
        /\ s[k].ts \in Nat /\ until(k) \in Nat /\ s[k].ts < until(k) /\ s[k].value \in Int
        /\ IntervalEnergy(s, k, cap) = s[k].value * (until(k) - s[k].ts)
        /\ IntervalEnergy(s, k, cap) \in Int
  BY SampleHolds DEF Interval
<1>3. \A x \in 0 .. H + 1 : C[x] \in Nat
  <2>1. \A x \in Nat : x * HourTicks \in Nat
    BY HourIs
  <2>2. \A x \in 0 .. H + 1 : x \in Nat
    OBVIOUS
  <2>3. \A x \in 0 .. H + 1 : C[x] = x * HourTicks
    OBVIOUS
  <2> HIDE DEF C
  <2> QED
    BY <2>1, <2>2, <2>3
<1>4. C[0] = 0
  <2>1. HourTicks \in Nat
    BY EnergyAssumption
  <2>2. 0 * HourTicks = 0
    BY <2>1
  <2> QED
    BY <2>2
<1>5. \A k \in 1 .. n : until(k) <= C[H + 1]
  BY DEF EndBy
<1>6. \A k \in 0 .. n, h \in 0 .. H : F(k)[h] = EnergyOf(g[k], h)
  OBVIOUS
<1>7. \A h \in 0 .. H : F(0)[h] = 0
  BY DEF Hourly, EnergyOf
<1>8. \A k \in 1 .. n, h \in 0 .. H :
         /\ F(k - 1)[h] \in Int
         /\ F(k)[h] = F(k - 1)[h]
              + s[k].value * (Before(C[h + 1], s[k].ts, until(k)) - Before(C[h], s[k].ts, until(k)))
  <2> SUFFICES ASSUME NEW k \in 1 .. n, NEW h \in 0 .. H
      PROVE  /\ F(k - 1)[h] \in Int
             /\ F(k)[h] = F(k - 1)[h]
                  + s[k].value * (Before(C[h + 1], s[k].ts, until(k)) - Before(C[h], s[k].ts, until(k)))
    OBVIOUS
  <2>1. C[h + 1] = (h + 1) * HourTicks /\ C[h] = h * HourTicks
    OBVIOUS
  <2>2. /\ EnergyOf(g[k - 1], h) \in Int
        /\ EnergyOf(g[k], h) = EnergyOf(g[k - 1], h) + s[k].value * Share(h, s[k].ts, until(k))
    <3>1. h \in Nat /\ k \in 1 .. Len(s) - 1
      OBVIOUS
    <3> HIDE DEF n, F, C
    <3> QED
      BY <3>1 DEF Hourly
  <2>3. Share(h, s[k].ts, until(k))
          = Before(C[h + 1], s[k].ts, until(k)) - Before(C[h], s[k].ts, until(k))
    BY <2>1 DEF Share
  <2>4. F(k)[h] = EnergyOf(g[k], h) /\ F(k - 1)[h] = EnergyOf(g[k - 1], h)
    OBVIOUS
  <2> HIDE DEF F, C, until
  <2> QED
    BY <2>2, <2>3, <2>4
<1> HIDE DEF C, F, until
<1>9. SumOf(F(0), 0, H) = 0
  BY <1>7, SumNone
<1>10. ASSUME NEW k \in 1 .. n
       PROVE  SumOf(F(k), 0, H) = SumOf(F(k - 1), 0, H) + IntervalEnergy(s, k, cap)
  <2> DEFINE from == s[k].ts
             to == until(k)
             v == s[k].value
             f == F(k - 1)
             q == F(k)
  <2>1. from \in Nat /\ to \in Nat /\ from < to /\ to <= C[H + 1] /\ v \in Int
    BY <1>2, <1>5
  <2>2. Summable(f, 0, H)
    <3>1. \A h \in 0 .. H : f[h] \in Int
      BY <1>8
    <3> HIDE DEF f
    <3> QED
      BY <3>1 DEF Summable
  <2>3. Gains(q, f, C, H, from, to, v)
    BY <1>8 DEF Gains
  <2>4. IntervalEnergy(s, k, cap) = v * (to - from)
    BY <1>2
  <2> HIDE DEF from, to, v, f, q
  <2>5. SumOf(q, 0, H) = SumOf(f, 0, H) + v * (to - from)
    <3>1. Bounds(C, H)
      BY <1>3, <1>4 DEF Bounds
    <3> QED
      BY <2>1, <2>2, <2>3, <3>1, HoursAddUp
  <2> QED
    BY <2>4, <2>5 DEF f, q
<1>11. AddsUp(G, energies, 1, n)
  <2>1. G[1 - 1] = 0
    BY <1>1, <1>9
  <2>2. \A i \in 1 .. n : G[i] = G[i - 1] + energies[i]
    <3> SUFFICES ASSUME NEW i \in 1 .. n PROVE G[i] = G[i - 1] + energies[i]
      OBVIOUS
    <3>1. i \in 0 .. n /\ i - 1 \in 0 .. n
      BY <1>1
    <3> QED
      BY <1>10, <3>1
  <2> QED
    BY <2>1, <2>2 DEF AddsUp
<1>12. Summable(energies, 1, n)
  BY <1>1, <1>2 DEF Summable
<1>13. G[n] = SumOf(F(n), 0, H)
  BY <1>1
<1> HIDE DEF G, energies
<1>14. SumOf(energies, 1, n) = G[n]
  BY <1>11, <1>12, SumIs
<1> QED
  BY <1>13, <1>14 DEF F, energies

-----------------------------------------------------------------------------
(* The order of rows. *)

\* f is W in the order of its times.
Enumerates(f, n, W) ==
  /\ n \in Nat
  /\ \A i \in 1 .. n : f[i] \in W
  /\ \A r \in W : \E i \in 1 .. n : f[i] = r
  /\ \A i, j \in 1 .. n : i < j => f[i].at < f[j].at

LEMMA ByTimeEnumerates ==
  ASSUME NEW W, Timed(W, "at")
  PROVE  Enumerates(ByTime(W, "at"), Cardinality(W), W)
<1> DEFINE f == ByTime(W, "at")
           n == Cardinality(W)
<1>1. /\ n \in Nat /\ f \in [1 .. n -> W]
      /\ \A i, j \in 1 .. n : i < j => f[i]["at"] < f[j]["at"]
  BY ByTimeIs
<1> HIDE DEF f
<1>2. \A i, j \in 1 .. n : f[i] = f[j] => i = j
  <2> SUFFICES ASSUME NEW i \in 1 .. n, NEW j \in 1 .. n, i < j, f[i] = f[j] PROVE FALSE
    BY <1>1
  <2>1. f[i]["at"] < f[i]["at"] /\ f[i]["at"] \in Nat
    BY <1>1 DEF Timed
  <2> QED
    BY <2>1
<1>3. IsFiniteSet(1 .. n) /\ Cardinality(1 .. n) = n /\ IsFiniteSet(W)
  BY <1>1, FS_Interval DEF Timed
<1>4. f \in Injection(1 .. n, W)
  BY <1>1, <1>2 DEF Injection, IsInjective
<1>5. f \in Surjection(1 .. n, W)
  BY <1>3, <1>4, FS_Injection
<1>6. \A r \in W : \E i \in 1 .. n : f[i] = r
  BY <1>5 DEF Surjection
<1> QED
  BY <1>1, <1>6 DEF Enumerates, f

LEMMA SameOrder ==
  ASSUME NEW W, Timed(W, "at"), NEW f, NEW n, Enumerates(f, n, W),
         NEW g, NEW m, Enumerates(g, m, W)
  PROVE  n = m /\ \A i \in 1 .. n : f[i] = g[i]
<1>0. n \in Nat /\ m \in Nat
  BY DEF Enumerates
<1>a. \A r \in W : r.at \in Nat
  BY DEF Timed
<1>b. \A q, r \in W : q.at = r.at => q = r
  BY DEF Timed
<1> DEFINE T == {i \in 1 .. n : i <= m /\ f[i] # g[i]}
<1>1. T = {}
  <2> SUFFICES ASSUME T # {} PROVE FALSE
    OBVIOUS
  <2>1. PICK k \in T : \A j \in T : k <= j
    <3>1. T \subseteq Nat
      OBVIOUS
    <3> HIDE DEF T
    <3> QED
      BY <3>1, LeastNumber
  <2>2. k \in 1 .. n /\ k \in 1 .. m /\ f[k] # g[k] /\ f[k] \in W /\ g[k] \in W
    BY <1>0 DEF Enumerates
  <2>3. \A j \in 1 .. n : j < k => f[j] = g[j] /\ j \in 1 .. m
    <3> SUFFICES ASSUME NEW j \in 1 .. n, j < k PROVE f[j] = g[j] /\ j \in 1 .. m
      OBVIOUS
    <3>1. j \notin T
      <4> HIDE DEF T
      <4> QED
        BY <2>1, <2>2
    <3> QED
      BY <1>0, <2>2, <3>1
  <2>4. f[k].at < g[k].at \/ g[k].at < f[k].at
    BY <2>2, <1>a, <1>b
  <2>5. ~(f[k].at < g[k].at)
    <3> SUFFICES ASSUME f[k].at < g[k].at PROVE FALSE
      OBVIOUS
    <3>1. PICK j \in 1 .. m : g[j] = f[k]
      BY <2>2 DEF Enumerates
    <3>2. j < k
      <4>1. k < j => g[k].at < g[j].at
        BY <2>2 DEF Enumerates
      <4> QED
        BY <2>2, <3>1, <4>1, <1>a
    <3>3. j \in 1 .. n /\ f[j] = g[j] /\ f[j].at < f[k].at
      BY <2>2, <2>3, <3>2 DEF Enumerates
    <3> QED
      BY <2>2, <3>1, <3>3, <1>a
  <2>6. ~(g[k].at < f[k].at)
    <3> SUFFICES ASSUME g[k].at < f[k].at PROVE FALSE
      OBVIOUS
    <3>1. PICK j \in 1 .. n : f[j] = g[k]
      BY <2>2 DEF Enumerates
    <3>2. j < k
      <4>1. k < j => f[k].at < f[j].at
        BY <2>2 DEF Enumerates
      <4> QED
        BY <2>2, <3>1, <4>1, <1>a
    <3>3. j \in 1 .. m /\ f[j] = g[j] /\ g[j].at < g[k].at
      BY <2>2, <2>3, <3>2 DEF Enumerates
    <3> QED
      BY <2>2, <3>1, <3>3, <1>a
  <2> QED
    BY <2>4, <2>5, <2>6
<1>2. \A i \in 1 .. n : i <= m => f[i] = g[i]
  BY <1>1
<1>3. ~(m < n)
  <2> SUFFICES ASSUME m < n PROVE FALSE
    OBVIOUS
  <2>1. n \in 1 .. n /\ f[n] \in W /\ f[n].at \in Nat
    BY <1>0, <1>a DEF Enumerates
  <2>2. PICK j \in 1 .. m : g[j] = f[n]
    BY <2>1 DEF Enumerates
  <2>3. j \in 1 .. n /\ j < n /\ f[j] = g[j]
    BY <1>0, <1>2, <2>2
  <2>4. f[j].at < f[n].at
    BY <2>1, <2>3 DEF Enumerates
  <2> QED
    BY <2>1, <2>2, <2>3, <2>4
<1>4. ~(n < m)
  <2> SUFFICES ASSUME n < m PROVE FALSE
    OBVIOUS
  <2>1. m \in 1 .. m /\ g[m] \in W /\ g[m].at \in Nat
    BY <1>0, <1>a DEF Enumerates
  <2>2. PICK j \in 1 .. n : f[j] = g[m]
    BY <2>1 DEF Enumerates
  <2>3. j \in 1 .. m /\ j < m /\ f[j] = g[j]
    BY <1>0, <1>2, <2>2
  <2>4. g[j].at < g[m].at
    BY <2>1, <2>3 DEF Enumerates
  <2> QED
    BY <2>1, <2>2, <2>3, <2>4
<1> QED
  BY <1>0, <1>2, <1>3, <1>4

-----------------------------------------------------------------------------
(* The samples of a window. *)

RowsOf(from, to) == {r \in ToSet(rows) : r.at >= from /\ r.at <= to}

\* The rows of the samples, and the samples of rows.
Sampled(s, f) ==
  /\ s \in Seq([ts : Nat, value : Int])
  /\ \A i \in 1 .. Len(s) : s[i] = [ts |-> f[i].at, value |-> f[i].value]

\* Of the rows all times differ.
RowsTimed ==
  /\ rows \in Seq(Measurements)
  /\ \A a, b \in ToSet(rows) : a.at = b.at => a = b

LEMMA RowsAreTimed ==
  ASSUME RowsTimed
  PROVE  /\ IsFiniteSet(ToSet(rows))
         /\ \A r \in ToSet(rows) : r.at \in Nat /\ r.value \in Int
         /\ \A W \in SUBSET ToSet(rows) : Timed(W, "at")
<1>1. /\ rows \in Seq(Measurements) /\ Len(rows) \in Nat /\ DOMAIN rows = 1 .. Len(rows)
  BY DEF RowsTimed
<1>2. \A i \in DOMAIN rows : rows[i] \in Measurements
  BY <1>1
<1>3. IsFiniteSet(ToSet(rows))
  <2> DEFINE f == [i \in 1 .. Len(rows) |-> rows[i]]
  <2>1. f \in Surjection(1 .. Len(rows), ToSet(rows))
    BY <1>1 DEF Surjection, ToSet
  <2>2. IsFiniteSet(1 .. Len(rows))
    BY <1>1, FS_Interval
  <2> QED
    BY <2>1, <2>2, FS_Surjection
<1>4. \A r \in ToSet(rows) : r.at \in Nat /\ r.value \in Int
  <2>1. \A r \in ToSet(rows) : r \in Measurements
    BY <1>1, <1>2 DEF ToSet
  <2> QED
    BY <2>1 DEF Measurements
<1>5. ASSUME NEW W \in SUBSET ToSet(rows) PROVE Timed(W, "at")
  <2>1. IsFiniteSet(W)
    BY <1>3, FS_Subset
  <2>2. \A r \in W : r.at \in Nat
    BY <1>4
  <2>3. \A a, b \in W : a.at = b.at => a = b
    BY DEF RowsTimed
  <2> QED
    BY <2>1, <2>2, <2>3 DEF Timed
<1> QED
  BY <1>3, <1>4, <1>5

LEMMA SamplesAre ==
  ASSUME RowsTimed, NEW from \in Int, NEW to \in Int
  PROVE  \E f : /\ Enumerates(f, Len(ListPowerSamples(from, to)), RowsOf(from, to))
                /\ Sampled(ListPowerSamples(from, to), f)
                /\ Ordered(ListPowerSamples(from, to))
<1> DEFINE W == RowsOf(from, to)
           f == ByTime(W, "at")
           n == Cardinality(W)
           s == [i \in DOMAIN f |-> [ts |-> f[i].at, value |-> f[i].value]]
<1>1. ListPowerSamples(from, to) = s
  BY DEF ListPowerSamples, RowsOf
<1>2. W \in SUBSET ToSet(rows) /\ Timed(W, "at")
  BY RowsAreTimed DEF RowsOf
<1>3. Enumerates(f, n, W) /\ DOMAIN f = 1 .. n
  BY <1>2, ByTimeEnumerates DEF ByTime
<1> HIDE DEF f, n, W
<1>4. n \in Nat /\ \A i \in 1 .. n : f[i].at \in Nat /\ f[i].value \in Int
  BY <1>2, <1>3, RowsAreTimed DEF Enumerates
<1>5. s \in [1 .. n -> [ts : Nat, value : Int]]
  BY <1>3, <1>4
<1>6. s \in Seq([ts : Nat, value : Int]) /\ Len(s) = n /\ DOMAIN s = 1 .. n
  BY <1>4, <1>5
<1>7. \A i \in 1 .. n : s[i] = [ts |-> f[i].at, value |-> f[i].value]
  BY <1>3
<1> HIDE DEF s
<1>8. Ordered(s)
  <2>1. \A i \in 1 .. n : s[i].ts = f[i].at
    <3> SUFFICES ASSUME NEW i \in 1 .. n PROVE s[i].ts = f[i].at
      OBVIOUS
    <3>1. s[i] = [ts |-> f[i].at, value |-> f[i].value]
      BY <1>7
    <3> QED
      BY <3>1
  <2>2. \A i, j \in 1 .. n : i < j => f[i].at < f[j].at
    BY <1>3 DEF Enumerates
  <2>3. \A i, j \in DOMAIN s : i < j => s[i].ts < s[j].ts
    <3> SUFFICES ASSUME NEW i \in 1 .. n, NEW j \in 1 .. n, i < j PROVE s[i].ts < s[j].ts
      BY <1>6
    <3> QED
      BY <2>1, <2>2
  <2>4. s \in Seq([ts : Nat, value : Int])
    BY <1>6
  <2> QED
    BY <2>3, <2>4 DEF Ordered
<1>9. Sampled(s, f)
  BY <1>6, <1>7 DEF Sampled
<1> QED
  BY <1>1, <1>3, <1>6, <1>8, <1>9 DEF W

LEMMA LatestExists ==
  ASSUME NEW W, Timed(W, "at"), W # {}
  PROVE  \E r \in W : \A q \in W : q.at <= r.at
<1> DEFINE f == ByTime(W, "at")
           n == Cardinality(W)
<1>1. Enumerates(f, n, W)
  BY ByTimeEnumerates
<1> HIDE DEF f, n
<1>2. n \in Nat /\ n >= 1 /\ n \in 1 .. n
  BY <1>1 DEF Enumerates
<1>3. f[n] \in W
  BY <1>1, <1>2 DEF Enumerates
<1>4. ASSUME NEW q \in W PROVE q.at <= f[n].at
  <2>1. PICK j \in 1 .. n : f[j] = q
    BY <1>1 DEF Enumerates
  <2>2. q.at \in Nat /\ f[n].at \in Nat
    BY <1>3 DEF Timed
  <2>3. j < n => f[j].at < f[n].at
    BY <1>1, <1>2 DEF Enumerates
  <2>4. j = n \/ j < n
    BY <1>2
  <2> QED
    BY <2>1, <2>2, <2>3, <2>4
<1> QED
  BY <1>3, <1>4

LEMMA PowerIsOf ==
  ASSUME RowsTimed, NEW from \in Nat, NEW to \in Nat, NEW cap \in Nat,
         NEW s, s = ListPowerSamples(from, to), Len(s) >= 1,
         NEW last \in Nat, NEW p, \A t \in 0 .. last : p[t] = PowerAt(t, from, to, cap)
  PROVE  PowerOf(p, s, cap, last)
<1> DEFINE n == Len(s)
           W == RowsOf(from, to)
<1>1. PICK f : Enumerates(f, n, W) /\ Sampled(s, f) /\ Ordered(s)
  <2>1. from \in Int /\ to \in Int
    OBVIOUS
  <2>2. \E f : /\ Enumerates(f, Len(ListPowerSamples(from, to)), RowsOf(from, to))
                /\ Sampled(ListPowerSamples(from, to), f)
                /\ Ordered(ListPowerSamples(from, to))
    BY <2>1, SamplesAre
  <2> QED
    BY <2>2
<1>2. /\ Timed(W, "at") /\ n \in Nat /\ n >= 1
      /\ \A r \in W : r.at \in Nat /\ r.value \in Int
      /\ \A q, r \in W : q.at = r.at => q = r
  <2>1. W \in SUBSET ToSet(rows)
    BY DEF RowsOf
  <2>2. Timed(W, "at") /\ \A r \in W : r.at \in Nat /\ r.value \in Int
    BY <2>1, RowsAreTimed
  <2> QED
    BY <1>1, <2>2 DEF Timed, Enumerates
<1>3. \A i \in 1 .. n : /\ s[i].ts = f[i].at /\ s[i].value = f[i].value /\ f[i] \in W
                        /\ f[i].at \in Nat
  <2>1. \A i \in 1 .. n : s[i] = [ts |-> f[i].at, value |-> f[i].value]
    BY <1>1 DEF Sampled
  <2>2. \A i \in 1 .. n : f[i] \in W
    BY <1>1 DEF Enumerates
  <2> HIDE DEF n, W
  <2> SUFFICES ASSUME NEW i \in 1 .. n
               PROVE  /\ s[i].ts = f[i].at /\ s[i].value = f[i].value /\ f[i] \in W
                      /\ f[i].at \in Nat
    OBVIOUS
  <2>3. s[i] = [ts |-> f[i].at, value |-> f[i].value]
    BY <2>1
  <2>4. s[i].ts = f[i].at /\ s[i].value = f[i].value
    BY <2>3
  <2> QED
    BY <1>2, <2>2, <2>4
<1>4. \A r \in W : \E i \in 1 .. n : f[i] = r
  BY <1>1 DEF Enumerates
<1>5. \A i, j \in 1 .. n : i < j => f[i].at < f[j].at
  BY <1>1 DEF Enumerates
<1> SUFFICES ASSUME NEW t \in 0 .. last
             PROVE  /\ p[t] \in Int
                    /\ \A i \in 1 .. n - 1 : s[i].ts <= t /\ t < s[i + 1].ts =>
                         p[t] = IF t < HoldsUntil(s, i, cap) THEN s[i].value ELSE 0
                    /\ t < s[1].ts \/ s[n].ts <= t => p[t] = 0
  BY DEF PowerOf
<1> DEFINE until == {r \in W : r.at <= t}
           latest == CHOOSE r \in until : \A q \in until : q.at <= r.at
<1>6. p[t] = IF until = {} \/ until = W THEN 0
             ELSE IF cap = 0 \/ t < latest.at + cap THEN latest.value ELSE 0
  BY DEF PowerAt, RowsOf
<1>7. until # {} => latest \in until /\ \A q \in until : q.at <= latest.at
  <2>1. Timed(until, "at")
    <3>1. until \in SUBSET ToSet(rows)
      BY DEF RowsOf
    <3> QED
      BY <3>1, RowsAreTimed
  <2>2. until # {} => \E r \in until : \A q \in until : q.at <= r.at
    <3> HIDE DEF until
    <3> QED
      BY <2>1, LatestExists
  <2> HIDE DEF until
  <2> QED
    BY <2>2
<1>8. \A r : r \in until <=> r \in W /\ r.at <= t
  OBVIOUS
<1> HIDE DEF until, latest, W, n
<1>9. p[t] \in Int
  BY <1>2, <1>6, <1>7, <1>8
<1>10. ASSUME NEW i \in 1 .. n - 1, s[i].ts <= t, t < s[i + 1].ts
       PROVE  p[t] = IF t < HoldsUntil(s, i, cap) THEN s[i].value ELSE 0
  <2>1. i \in 1 .. n /\ i + 1 \in 1 .. n /\ t \in Nat
    BY <1>2
  <2>2. /\ f[i] \in W /\ f[i].at \in Nat /\ f[i + 1].at \in Nat
        /\ s[i].ts = f[i].at /\ s[i].value = f[i].value /\ s[i + 1].ts = f[i + 1].at
        /\ f[i + 1] \in W
    BY <1>3, <2>1
  <2>3. f[i] \in until /\ f[i + 1] \notin until
    BY <1>8, <1>10, <2>1, <2>2
  <2>4. \A q \in until : q.at <= f[i].at
    <3> SUFFICES ASSUME NEW q \in until PROVE q.at <= f[i].at
      OBVIOUS
    <3>1. q \in W /\ q.at <= t /\ q.at \in Nat
      BY <1>2, <1>8
    <3>2. PICK j \in 1 .. n : f[j] = q
      BY <1>4, <3>1
    <3>3. ~(i + 1 < j) /\ j # i + 1
      BY <1>5, <1>10, <2>1, <2>2, <3>1, <3>2
    <3>4. j = i \/ j < i
      BY <1>2, <3>3
    <3> QED
      BY <1>5, <2>1, <2>2, <3>1, <3>2, <3>4
  <2>5. latest \in until /\ f[i].at <= latest.at /\ latest.at <= f[i].at
    BY <1>7, <2>3, <2>4
  <2>6. latest = f[i]
    <3>1. latest \in W /\ latest.at \in Nat
      BY <1>2, <1>8, <2>5
    <3> QED
      BY <1>2, <2>2, <2>5, <3>1
  <2>7. until # {} /\ until # W
    BY <2>2, <2>3
  <2>8. p[t] = IF cap = 0 \/ t < f[i].at + cap THEN f[i].value ELSE 0
    BY <1>6, <2>6, <2>7
  <2>9. HoldsUntil(s, i, cap)
          = IF cap > 0 /\ f[i].at + cap < f[i + 1].at THEN f[i].at + cap ELSE f[i + 1].at
    BY <2>2 DEF HoldsUntil
  <2> QED
    BY <1>10, <2>1, <2>2, <2>8, <2>9
<1>11. ASSUME t < s[1].ts \/ s[n].ts <= t PROVE p[t] = 0
  <2>1. 1 \in 1 .. n /\ n \in 1 .. n /\ t \in Nat
    BY <1>2
  <2>2. s[1].ts = f[1].at /\ s[n].ts = f[n].at /\ f[1].at \in Nat /\ f[n].at \in Nat
    BY <1>3, <2>1
  <2>3. \A r \in W : r.at \in Nat /\ f[1].at <= r.at /\ r.at <= f[n].at
    <3> SUFFICES ASSUME NEW r \in W
                 PROVE  r.at \in Nat /\ f[1].at <= r.at /\ r.at <= f[n].at
      OBVIOUS
    <3>1. PICK j \in 1 .. n : f[j] = r
      BY <1>4
    <3>2. (1 < j => f[1].at < f[j].at) /\ (j < n => f[j].at < f[n].at)
      BY <1>5, <2>1
    <3>3. (1 = j \/ 1 < j) /\ (j = n \/ j < n)
      BY <1>2
    <3>4. r.at \in Nat
      BY <1>2
    <3> QED
      BY <2>2, <3>1, <3>2, <3>3, <3>4
  <2>4. until = {} \/ until = W
    <3>1. CASE t < s[1].ts
      BY <1>8, <2>1, <2>2, <2>3, <3>1
    <3>2. CASE s[n].ts <= t
      <4>1. \A r \in W : r \in until
        BY <1>8, <2>1, <2>2, <2>3, <3>2
      <4>2. until \subseteq W
        BY <1>8
      <4> QED
        BY <4>1, <4>2
    <3> QED
      BY <1>11, <3>1, <3>2
  <2> QED
    BY <1>6, <2>4
<1> QED
  BY <1>9, <1>10, <1>11 DEF n

-----------------------------------------------------------------------------
(* The clauses. *)

\* A window of one row, or of none.
LEMMA NoPower ==
  ASSUME RowsTimed, NEW from \in Nat, NEW to \in Nat, NEW cap \in Nat,
         Len(ListPowerSamples(from, to)) < 2, NEW t
  PROVE  PowerAt(t, from, to, cap) = 0
<1> DEFINE n == Len(ListPowerSamples(from, to))
           W == RowsOf(from, to)
           until == {r \in W : r.at <= t}
<1>1. PICK f : Enumerates(f, n, W)
  BY SamplesAre
<1>2. n \in Nat /\ n < 2
  BY <1>1 DEF Enumerates
<1> HIDE DEF n
<1>3. \A q, r \in W : q = r
  <2> HIDE DEF W
  <2> SUFFICES ASSUME NEW q \in W, NEW r \in W PROVE q = r
    OBVIOUS
  <2>1. PICK i \in 1 .. n : f[i] = q
    BY <1>1 DEF Enumerates
  <2>2. PICK j \in 1 .. n : f[j] = r
    BY <1>1 DEF Enumerates
  <2>3. i = j
    BY <1>2
  <2> QED
    BY <2>1, <2>2, <2>3
<1>4. until = {} \/ until = W
  <2>1. until \subseteq W
    OBVIOUS
  <2> HIDE DEF until, W
  <2> QED
    BY <1>3, <2>1
<1> QED
  BY <1>4 DEF PowerAt, RowsOf

\* The same power holds as long.
LEMMA SamePiece ==
  ASSUME NEW s, NEW i, NEW r, NEW k, NEW cap, s[i] = r[k], s[i + 1] = r[k + 1]
  PROVE  Piece(s, i, cap) = Piece(r, k, cap)
BY DEF Piece, IntervalEnergy, HoldsUntil

\* No row is later than the last tick.
RowsPast == \A r \in ToSet(rows) : r.at <= Horizon

LEMMA SamplesPast ==
  ASSUME RowsTimed, RowsPast, NEW from \in Int, NEW to \in Int,
         NEW s, s = ListPowerSamples(from, to)
  PROVE  /\ Ordered(s) /\ Len(s) \in Nat
         /\ \A i \in 1 .. Len(s) : s[i].ts \in Nat /\ s[i].ts <= Horizon /\ s[i].value \in Int
<1>1. PICK f : Enumerates(f, Len(s), RowsOf(from, to)) /\ Sampled(s, f) /\ Ordered(s)
  <2>1. \E f : /\ Enumerates(f, Len(ListPowerSamples(from, to)), RowsOf(from, to))
                /\ Sampled(ListPowerSamples(from, to), f)
                /\ Ordered(ListPowerSamples(from, to))
    BY SamplesAre
  <2> QED
    BY <2>1
<1>2. ASSUME NEW i \in 1 .. Len(s)
      PROVE  s[i].ts \in Nat /\ s[i].ts <= Horizon /\ s[i].value \in Int
  <2>1. f[i] \in ToSet(rows)
    BY <1>1 DEF Enumerates, RowsOf
  <2>2. f[i].at \in Nat /\ f[i].value \in Int /\ f[i].at <= Horizon
    BY <2>1, RowsAreTimed DEF RowsPast
  <2>3. s[i] = [ts |-> f[i].at, value |-> f[i].value]
    BY <1>1 DEF Sampled
  <2>4. s[i].ts = f[i].at /\ s[i].value = f[i].value
    BY <2>3
  <2> QED
    BY <2>2, <2>4
<1>3. Len(s) \in Nat
  BY <1>1 DEF Enumerates
<1> QED
  BY <1>1, <1>2, <1>3

\* The hours up to the last tick.
LEMMA HoursUpTo ==
  /\ Horizon \in Nat /\ HourOf(Horizon) \in Nat /\ NextHour(Horizon) \in Nat
  /\ NextHour(Horizon) = (HourOf(Horizon) + 1) * HourTicks
  /\ Horizon < NextHour(Horizon)
  /\ \A h \in 0 .. HourOf(Horizon) : (h + 1) * HourTicks - 1 <= NextHour(Horizon)
  /\ \A t \in 0 .. Horizon : HourOf(t) \in Nat /\ HourOf(t) <= HourOf(Horizon)
<1>1. Horizon \in Nat
  BY ClockAssumption
<1> DEFINE H == HourOf(Horizon)
<1>2. H \in Nat /\ NextHour(Horizon) = (H + 1) * HourTicks
  BY <1>1, HourIs DEF NextHour
<1>3. NextHour(Horizon) \in Nat /\ Horizon < NextHour(Horizon)
  BY <1>1, <1>2, HourIs
<1>4. ASSUME NEW h \in 0 .. H PROVE (h + 1) * HourTicks - 1 <= NextHour(Horizon)
  <2>1. h \in Nat /\ (h < H \/ h = H)
    BY <1>2
  <2>2. (h + 1) * HourTicks \in Nat
    BY <2>1, HourIs
  <2>3. CASE h = H
    BY <1>2, <1>3, <2>3
  <2>4. CASE h < H
    <3>1. (h + 1) * HourTicks <= Horizon
      BY <1>1, <2>1, <2>4, HoursGrow
    <3> QED
      BY <1>1, <1>3, <2>2, <3>1
  <2> QED
    BY <2>1, <2>3, <2>4
<1>5. ASSUME NEW t \in 0 .. Horizon PROVE HourOf(t) \in Nat /\ HourOf(t) <= H
  <2>1. t \in Nat /\ t <= Horizon
    BY <1>1
  <2> QED
    BY <1>1, <2>1, HourIs, HoursGrow
<1> QED
  BY <1>1, <1>2, <1>3, <1>4, <1>5

Totals(byHour, intervals, power) ==
  /\ DOMAIN byHour \subseteq 0 .. HourOf(Horizon)
  /\ \A h \in 0 .. HourOf(Horizon) :
       EnergyOf(byHour, h) = SumOf(power, h * HourTicks, (h + 1) * HourTicks - 1)
  /\ SumOf([h \in 0 .. HourOf(Horizon) |-> EnergyOf(byHour, h)], 0, HourOf(Horizon)) =
       SumOf([i \in DOMAIN intervals |-> intervals[i].energy], 1, Len(intervals))

LEMMA NothingToAddUp ==
  ASSUME RowsTimed, RowsPast, NEW from \in Nat, NEW to \in Nat, NEW cap \in Nat,
         Len(ListPowerSamples(from, to)) < 2
  PROVE  Totals(IntegrateHourly(ListPowerSamples(from, to), cap),
                IntegrateIntervals(ListPowerSamples(from, to), cap),
                [t \in 0 .. NextHour(Horizon) |-> PowerAt(t, from, to, cap)])
<1> DEFINE H == HourOf(Horizon)
           byHour == IntegrateHourly(ListPowerSamples(from, to), cap)
           intervals == IntegrateIntervals(ListPowerSamples(from, to), cap)
           power == [t \in 0 .. NextHour(Horizon) |-> PowerAt(t, from, to, cap)]
<1>1. byHour = << >> /\ intervals = << >>
  BY DEF IntegrateHourly, IntegrateIntervals
<1> HIDE DEF byHour, intervals
<1>2. H \in Nat /\ NextHour(Horizon) \in Nat
  BY HoursUpTo
<1>3. \A h : EnergyOf(byHour, h) = 0
  BY <1>1 DEF EnergyOf
<1>4. \A t \in 0 .. NextHour(Horizon) : power[t] = 0
  BY NoPower
<1> HIDE DEF power
<1>5. ASSUME NEW h \in 0 .. H PROVE SumOf(power, h * HourTicks, (h + 1) * HourTicks - 1) = 0
  <2> DEFINE a == h * HourTicks
             c == (h + 1) * HourTicks
             b == c - 1
  <2>1. a \in Nat /\ c \in Nat /\ a < c
    <3>1. h \in Nat
      BY <1>2
    <3> QED
      BY <3>1, HourIs
  <2>2. b <= NextHour(Horizon)
    BY HoursUpTo
  <2> HIDE DEF a, c
  <2>3. a \in Int /\ b \in Int /\ a - 1 <= b
    BY <2>1
  <2>4. \A t \in a .. b : power[t] = 0
    BY <1>2, <1>4, <2>1, <2>2
  <2> HIDE DEF b
  <2>5. SumOf(power, a, b) = 0
    BY <2>3, <2>4, SumNone
  <2> QED
    BY <2>5 DEF a, b, c
<1> DEFINE e == [h \in 0 .. H |-> EnergyOf(byHour, h)]
           f == [i \in DOMAIN intervals |-> intervals[i].energy]
<1>6. SumOf(e, 0, H) = 0
  <2>1. \A h \in 0 .. H : e[h] = 0
    BY <1>3
  <2> HIDE DEF e
  <2> QED
    BY <1>2, <2>1, SumNone
<1>7. SumOf(f, 1, Len(intervals)) = 0
  <2>1. Len(intervals) = 0 /\ \A i \in 1 .. 0 : f[i] = 0
    BY <1>1
  <2> HIDE DEF f
  <2>2. SumOf(f, 1, 0) = 0
    BY <2>1, SumNone
  <2> QED
    BY <2>1, <2>2
<1>8. DOMAIN byHour \subseteq 0 .. H
  BY <1>1
<1>9. Totals(byHour, intervals, power)
  BY <1>3, <1>5, <1>6, <1>7, <1>8 DEF Totals
<1> QED
  BY <1>9 DEF byHour, intervals, power

LEMMA AllAddedUp ==
  ASSUME RowsTimed, RowsPast, NEW from \in Nat, NEW to \in Nat, NEW cap \in Nat,
         Len(ListPowerSamples(from, to)) >= 2
  PROVE  Totals(IntegrateHourly(ListPowerSamples(from, to), cap),
                IntegrateIntervals(ListPowerSamples(from, to), cap),
                [t \in 0 .. NextHour(Horizon) |-> PowerAt(t, from, to, cap)])
<1> DEFINE H == HourOf(Horizon)
           s == ListPowerSamples(from, to)
           n == Len(s) - 1
           byHour == IntegrateHourly(s, cap)
           intervals == IntegrateIntervals(s, cap)
           last == NextHour(Horizon)
           power == [t \in 0 .. last |-> PowerAt(t, from, to, cap)]
<1>0. from \in Int /\ to \in Int
  OBVIOUS
<1>1. /\ Ordered(s) /\ Len(s) \in Nat
      /\ \A i \in 1 .. Len(s) : s[i].ts \in Nat /\ s[i].ts <= Horizon /\ s[i].value \in Int
  BY <1>0, SamplesPast
<1>a. last = (H + 1) * HourTicks
  BY HoursUpTo
<1>b. Horizon \in Nat /\ H \in Nat /\ last \in Nat /\ Horizon < last
  BY HoursUpTo
<1>2. /\ Horizon \in Nat /\ H \in Nat /\ last \in Nat /\ Horizon < last
      /\ \A h \in 0 .. H : (h + 1) * HourTicks - 1 <= last
      /\ \A t \in 0 .. Horizon : HourOf(t) \in Nat /\ HourOf(t) <= H
  BY HoursUpTo
<1>3. Len(s) >= 2
  OBVIOUS
<1>4. PowerOf(power, s, cap, last)
  <2>1. \A t \in 0 .. last : power[t] = PowerAt(t, from, to, cap)
    OBVIOUS
  <2> HIDE DEF power, last, s
  <2>2. s = ListPowerSamples(from, to) /\ Len(s) >= 1 /\ last \in Nat
    BY <1>1, <1>2, <1>3 DEF s
  <2> QED
    BY <2>1, <2>2, PowerIsOf
<1> HIDE DEF s, power, last, H
<1>5. PICK g : Hourly(g, s, cap) /\ byHour = g[n]
  BY <1>1, <1>3, HourlyIs
<1>6. intervals = [i \in 1 .. n |-> Piece(s, i, cap)]
  BY <1>1, IntervalsAre
<1> HIDE DEF byHour, intervals
<1>7. n \in Nat
  BY <1>1, <1>3
<1>8. \A i \in 1 .. n : /\ HoldsUntil(s, i, cap) \in 1 .. Horizon /\ s[i].ts \in 0 .. Horizon
                        /\ IntervalEnergy(s, i, cap) \in Int
  <2> SUFFICES ASSUME NEW i \in 1 .. n
      PROVE  /\ HoldsUntil(s, i, cap) \in 1 .. Horizon /\ s[i].ts \in 0 .. Horizon
             /\ IntervalEnergy(s, i, cap) \in Int
    OBVIOUS
  <2>1. /\ Interval(s[i].ts, HoldsUntil(s, i, cap), s[i].value, IntervalEnergy(s, i, cap))
        /\ HoldsUntil(s, i, cap) <= s[i + 1].ts
        /\ IntervalEnergy(s, i, cap) \in Int
    BY <1>1, SampleHolds
  <2>2. i + 1 \in 1 .. Len(s) /\ i \in 1 .. Len(s)
    BY <1>1
  <2>3. s[i + 1].ts \in Nat /\ s[i + 1].ts <= Horizon /\ s[i].ts \in Nat /\ s[i].ts <= Horizon
    BY <1>1, <2>2
  <2>4. /\ HoldsUntil(s, i, cap) \in Nat /\ s[i].ts < HoldsUntil(s, i, cap)
        /\ HoldsUntil(s, i, cap) <= Horizon
    BY <1>b, <2>1, <2>3 DEF Interval
  <2>5. HoldsUntil(s, i, cap) \in 1 .. Horizon /\ s[i].ts \in 0 .. Horizon
    BY <1>b, <2>3, <2>4
  <2> QED
    BY <2>1, <2>5
<1>9. DOMAIN byHour \subseteq 0 .. H
  <2> DEFINE S == {k \in 0 .. n : DOMAIN g[k] \subseteq 0 .. H}
  <2>1. 0 \in S
    <3>1. DOMAIN g[0] = {}
      BY <1>5 DEF Hourly
    <3> QED
      BY <1>7, <3>1
  <2>2. ASSUME NEW k \in 1 .. n, k - 1 \in S PROVE k \in S
    <3>1. DOMAIN g[k] \subseteq
            DOMAIN g[k - 1] \cup (HourOf(s[k].ts) .. HourOf(HoldsUntil(s, k, cap) - 1))
      BY <1>5 DEF Hourly
    <3>2. HoldsUntil(s, k, cap) - 1 \in 0 .. Horizon /\ s[k].ts \in 0 .. Horizon
      BY <1>b, <1>8
    <3>3. /\ HourOf(s[k].ts) \in Nat /\ HourOf(HoldsUntil(s, k, cap) - 1) \in Nat
          /\ HourOf(HoldsUntil(s, k, cap) - 1) <= H
      BY <1>2, <3>2
    <3>4. HourOf(s[k].ts) .. HourOf(HoldsUntil(s, k, cap) - 1) \subseteq 0 .. H
      BY <1>2, <3>3
    <3>5. DOMAIN g[k - 1] \subseteq 0 .. H /\ k \in 0 .. n
      BY <1>7, <2>2
    <3> QED
      BY <3>1, <3>4, <3>5
  <2>3. n \in S
    <3>1. n \in 0 .. n
      BY <1>7
    <3> HIDE DEF S
    <3> QED
      BY <1>7, <2>1, <2>2, <3>1, UpTo
  <2> QED
    BY <1>5, <2>3
<1>10. ASSUME NEW h \in 0 .. H
       PROVE  EnergyOf(byHour, h) = SumOf(power, h * HourTicks, (h + 1) * HourTicks - 1)
  <2>1. h \in Nat /\ (h + 1) * HourTicks - 1 <= last
    BY <1>2
  <2> QED
    BY <1>1, <1>2, <1>3, <1>4, <1>5, <2>1, HourSums
<1>11. SumOf([h \in 0 .. H |-> EnergyOf(byHour, h)], 0, H) =
         SumOf([i \in 1 .. n |-> IntervalEnergy(s, i, cap)], 1, n)
  <2>1. EndBy(s, cap, (H + 1) * HourTicks)
    <3>1. \A i \in 1 .. n : HoldsUntil(s, i, cap) <= last
      BY <1>b, <1>8
    <3>2. EndBy(s, cap, last)
      BY <3>1 DEF EndBy
    <3> QED
      BY <1>a, <3>2
  <2>2. SumOf([h \in 0 .. H |-> EnergyOf(g[Len(s) - 1], h)], 0, H) =
           SumOf([i \in 1 .. Len(s) - 1 |-> IntervalEnergy(s, i, cap)], 1, Len(s) - 1)
    BY <1>1, <1>b, <1>3, <1>5, <2>1, HoursSum
  <2>3. [h \in 0 .. H |-> EnergyOf(byHour, h)] = [h \in 0 .. H |-> EnergyOf(g[Len(s) - 1], h)]
    BY <1>5
  <2> QED
    BY <2>2, <2>3
<1>12. /\ Len(intervals) = n
       /\ [i \in DOMAIN intervals |-> intervals[i].energy] = [i \in 1 .. n |-> IntervalEnergy(s, i, cap)]
  <2>1. DOMAIN intervals = 1 .. n /\ \A i \in 1 .. n : intervals[i] = Piece(s, i, cap)
    BY <1>6
  <2>2. Len(intervals) = n
    <3> DEFINE P == {Piece(s, i, cap) : i \in 1 .. n}
    <3>1. intervals \in [1 .. n -> P]
      BY <1>6
    <3> HIDE DEF P
    <3> QED
      BY <1>7, <3>1
  <2>3. \A i \in 1 .. n : intervals[i].energy = IntervalEnergy(s, i, cap)
    <3> SUFFICES ASSUME NEW i \in 1 .. n PROVE intervals[i].energy = IntervalEnergy(s, i, cap)
      OBVIOUS
    <3>1. intervals[i] = [ts |-> s[i].ts, energy |-> IntervalEnergy(s, i, cap)]
      BY <2>1 DEF Piece
    <3> QED
      BY <3>1
  <2> HIDE DEF n
  <2> QED
    BY <2>1, <2>2, <2>3
<1>13. Totals(byHour, intervals, power)
  BY <1>9, <1>10, <1>11, <1>12 DEF Totals, H
<1> QED
  BY <1>13 DEF byHour, intervals, power, s, last

\* The last of them is the latest.
LEMMA LastIsLatest ==
  ASSUME NEW W, Timed(W, "at"), NEW f, NEW n, Enumerates(f, n, W), W # {}
  PROVE  /\ n \in Nat /\ n >= 1 /\ f[n] \in W /\ f[n].at \in Nat
         /\ \A r \in W : r.at \in Nat /\ r.at <= f[n].at
         /\ \A r \in W : r.at = f[n].at => r = f[n]
<1>1. n \in Nat /\ n >= 1 /\ n \in 1 .. n
  BY DEF Enumerates
<1>2. f[n] \in W /\ f[n].at \in Nat
  BY <1>1 DEF Enumerates, Timed
<1>3. ASSUME NEW r \in W PROVE r.at \in Nat /\ r.at <= f[n].at
  <2>1. PICK j \in 1 .. n : f[j] = r
    BY DEF Enumerates
  <2>2. r.at \in Nat
    BY DEF Timed
  <2>3. j < n => f[j].at < f[n].at
    BY <1>1 DEF Enumerates
  <2>4. j = n \/ j < n
    BY <1>1
  <2> QED
    BY <1>2, <2>1, <2>2, <2>3, <2>4
<1>4. \A r \in W : r.at = f[n].at => r = f[n]
  BY <1>2 DEF Timed
<1> QED
  BY <1>1, <1>2, <1>3, <1>4

LEMMA BordersAre ==
  ASSUME RowsTimed, NEW t \in Borders
  PROVE  t \in Nat /\ t \in Int /\ \E r \in ToSet(rows) : r.at = t
<1>1. PICK r \in ToSet(rows) : r.at = t
  BY DEF Borders
<1>2. t \in Nat
  BY <1>1, RowsAreTimed
<1> QED
  BY <1>1, <1>2

\* Cut in two, the order of a window is that of its parts.
Splits(W, cut, A, B) == A = {r \in W : r.at <= cut - 1} /\ B = {r \in W : r.at >= cut}

LEMMA PartsEnumerate ==
  ASSUME NEW W, Timed(W, "at"), NEW cut \in Nat, NEW A, NEW B, Splits(W, cut, A, B),
         NEW f, NEW n, Enumerates(f, n, W),
         NEW f1, NEW a, Enumerates(f1, a, A), NEW f2, NEW b, Enumerates(f2, b, B)
  PROVE  /\ a \in Nat /\ b \in Nat /\ n = a + b
         /\ \A i \in 1 .. a : f[i] = f1[i]
         /\ \A j \in 1 .. b : f[a + j] = f2[j]
<1> DEFINE h == [i \in 1 .. a + b |-> IF i <= a THEN f1[i] ELSE f2[i - a]]
<1>0. A = {r \in W : r.at <= cut - 1} /\ B = {r \in W : r.at >= cut}
  BY DEF Splits
<1>1. a \in Nat /\ b \in Nat /\ n \in Nat
  BY DEF Enumerates
<1>2. \A i \in 1 .. a : h[i] = f1[i] /\ h[i] \in A /\ i \in 1 .. a + b
  BY <1>1 DEF Enumerates
<1>3. \A j \in 1 .. b : h[a + j] = f2[j] /\ h[a + j] \in B /\ a + j \in 1 .. a + b
  <2> SUFFICES ASSUME NEW j \in 1 .. b
               PROVE  h[a + j] = f2[j] /\ h[a + j] \in B /\ a + j \in 1 .. a + b
    OBVIOUS
  <2>1. a + j \in 1 .. a + b /\ ~(a + j <= a) /\ a + j - a = j
    BY <1>1
  <2>2. h[a + j] = f2[j]
    <3>1. PICK x : x = a + j
      OBVIOUS
    <3>2. x \in 1 .. a + b /\ ~(x <= a) /\ x - a = j
      <4> HIDE DEF h
      <4> QED
        BY <1>1, <2>1, <3>1
    <3>3. h[x] = f2[x - a]
      BY <3>2
    <3> HIDE DEF h
    <3> QED
      BY <3>1, <3>2, <3>3
  <2> HIDE DEF h
  <2> QED
    BY <2>1, <2>2 DEF Enumerates
<1> HIDE DEF h
<1>4. \A i \in 1 .. a + b : i \in 1 .. a \/ \E j \in 1 .. b : i = a + j
  <2> SUFFICES ASSUME NEW i \in 1 .. a + b, i \notin 1 .. a PROVE \E j \in 1 .. b : i = a + j
    OBVIOUS
  <2>1. i - a \in 1 .. b /\ i = a + (i - a)
    BY <1>1
  <2> QED
    BY <2>1
<1>5. \A r \in W : r.at \in Nat /\ (r \in A \/ r \in B)
  BY <1>0 DEF Timed
<1>6. Enumerates(h, a + b, W)
  <2>1. \A i \in 1 .. a + b : h[i] \in W
    BY <1>0, <1>2, <1>3, <1>4
  <2>2. \A r \in W : \E i \in 1 .. a + b : h[i] = r
    <3> SUFFICES ASSUME NEW r \in W PROVE \E i \in 1 .. a + b : h[i] = r
      OBVIOUS
    <3>1. CASE r \in A
      <4>1. PICK i \in 1 .. a : f1[i] = r
        BY <3>1 DEF Enumerates
      <4> QED
        BY <1>2, <4>1
    <3>2. CASE r \in B
      <4>1. PICK j \in 1 .. b : f2[j] = r
        BY <3>2 DEF Enumerates
      <4> QED
        BY <1>3, <4>1
    <3> QED
      BY <1>5, <3>1, <3>2
  <2>3. ASSUME NEW i \in 1 .. a + b, NEW j \in 1 .. a + b, i < j PROVE h[i].at < h[j].at
    <3>1. CASE i \in 1 .. a /\ j \in 1 .. a
      BY <1>2, <2>3, <3>1 DEF Enumerates
    <3>2. CASE i \in 1 .. a /\ j \notin 1 .. a
      <4>1. h[i] \in A /\ h[j] \in B
        BY <1>2, <1>3, <1>4, <3>2
      <4>2. h[i].at \in Nat /\ h[j].at \in Nat /\ h[i].at <= cut - 1 /\ h[j].at >= cut
        BY <1>0, <1>5, <4>1
      <4> QED
        BY <4>2
    <3>3. CASE i \notin 1 .. a
      <4>1. j \notin 1 .. a
        BY <1>1, <2>3, <3>3
      <4>2. PICK k \in 1 .. b : i = a + k
        BY <1>4, <3>3
      <4>3. PICK l \in 1 .. b : j = a + l
        BY <1>4, <4>1
      <4>4. k < l
        BY <1>1, <2>3, <4>2, <4>3
      <4>5. f2[k].at < f2[l].at
        BY <4>4 DEF Enumerates
      <4> QED
        BY <1>3, <4>2, <4>3, <4>5
    <3> QED
      BY <3>1, <3>2, <3>3
  <2>4. a + b \in Nat
    BY <1>1
  <2> QED
    BY <2>1, <2>2, <2>3, <2>4 DEF Enumerates
<1>7. n = a + b /\ \A i \in 1 .. n : f[i] = h[i]
  BY <1>6, SameOrder
<1> QED
  BY <1>1, <1>2, <1>3, <1>7

\* The samples of a cut window.
Parts(s, s1, s2) ==
  /\ Len(s1) \in Nat /\ Len(s2) \in Nat /\ Len(s) = Len(s1) + Len(s2) /\ Len(s1) >= 1
  /\ \A i \in 1 .. Len(s1) : s[i] = s1[i]
  /\ \A j \in 1 .. Len(s2) : s[Len(s1) + j] = s2[j]

LEMMA SamplesCut ==
  ASSUME RowsTimed, NEW from \in Borders, NEW to \in Nat, NEW cut \in Nat, from < cut, cut <= to
  PROVE  /\ Parts(ListPowerSamples(from, to), ListPowerSamples(from, cut - 1),
                  ListPowerSamples(cut, to))
         /\ LastPowerSampleBefore(cut) = <<Last(ListPowerSamples(from, cut - 1))>>
<1> DEFINE s == ListPowerSamples(from, to)
           s1 == ListPowerSamples(from, cut - 1)
           s2 == ListPowerSamples(cut, to)
           W == RowsOf(from, to)
           A == RowsOf(from, cut - 1)
           B == RowsOf(cut, to)
<1>0. from \in Nat /\ from \in Int /\ to \in Int /\ cut \in Int /\ cut - 1 \in Int
  BY BordersAre
<1>1. PICK f : Enumerates(f, Len(s), W) /\ Sampled(s, f)
  BY <1>0, SamplesAre
<1>2. PICK f1 : Enumerates(f1, Len(s1), A) /\ Sampled(s1, f1)
  BY <1>0, SamplesAre
<1>3. PICK f2 : Enumerates(f2, Len(s2), B) /\ Sampled(s2, f2)
  BY <1>0, SamplesAre
<1>4. \A r \in ToSet(rows) : r.at \in Nat
  BY RowsAreTimed
<1>5. /\ Timed(W, "at") /\ Timed(A, "at")
      /\ Splits(W, cut, A, B)
  <2>1. Timed(W, "at") /\ Timed(A, "at")
    BY RowsAreTimed DEF RowsOf
  <2>2. A = {r \in W : r.at <= cut - 1} /\ B = {r \in W : r.at >= cut}
    BY <1>0, <1>4 DEF RowsOf
  <2> QED
    BY <2>1, <2>2 DEF Splits
<1>6. A # {} /\ A \subseteq ToSet(rows)
  <2>1. PICK r \in ToSet(rows) : r.at = from
    BY BordersAre
  <2>2. r \in A
    BY <1>0, <2>1 DEF RowsOf
  <2> QED
    BY <2>2 DEF RowsOf
<1> HIDE DEF s, s1, s2
<1>7. /\ Len(s1) \in Nat /\ Len(s2) \in Nat /\ Len(s) = Len(s1) + Len(s2)
      /\ \A i \in 1 .. Len(s1) : f[i] = f1[i]
      /\ \A j \in 1 .. Len(s2) : f[Len(s1) + j] = f2[j]
  <2> HIDE DEF W, A, B
  <2> QED
    BY <1>1, <1>2, <1>3, <1>5, PartsEnumerate
<1>8. /\ Len(s1) >= 1 /\ f1[Len(s1)] \in A /\ f1[Len(s1)].at \in Nat
      /\ \A r \in A : r.at \in Nat /\ r.at <= f1[Len(s1)].at
      /\ \A r \in A : r.at = f1[Len(s1)].at => r = f1[Len(s1)]
  <2> HIDE DEF A
  <2> QED
    BY <1>2, <1>5, <1>6, LastIsLatest
<1>9. Parts(s, s1, s2)
  <2>1. ASSUME NEW i \in 1 .. Len(s1) PROVE s[i] = s1[i]
    <3>1. i \in 1 .. Len(s)
      BY <1>7
    <3>2. /\ s[i] = [ts |-> f[i].at, value |-> f[i].value]
          /\ s1[i] = [ts |-> f1[i].at, value |-> f1[i].value]
      BY <1>1, <1>2, <3>1 DEF Sampled
    <3> QED
      BY <1>7, <3>2
  <2>2. ASSUME NEW j \in 1 .. Len(s2) PROVE s[Len(s1) + j] = s2[j]
    <3>1. Len(s1) + j \in 1 .. Len(s)
      BY <1>7
    <3>2. /\ s[Len(s1) + j] = [ts |-> f[Len(s1) + j].at, value |-> f[Len(s1) + j].value]
          /\ s2[j] = [ts |-> f2[j].at, value |-> f2[j].value]
      BY <1>1, <1>3, <3>1 DEF Sampled
    <3> QED
      BY <1>7, <3>2
  <2> QED
    BY <1>7, <1>8, <2>1, <2>2 DEF Parts
<1> DEFINE earlier == {r \in ToSet(rows) : r.at < cut}
           g == ByTime(earlier, "at")
           e == Cardinality(earlier)
<1>10. Timed(earlier, "at") /\ earlier # {} /\ A \subseteq earlier
  <2>1. earlier \in SUBSET ToSet(rows)
    OBVIOUS
  <2>2. Timed(earlier, "at")
    BY <2>1, RowsAreTimed
  <2>3. A \subseteq earlier
    BY <1>0, <1>4 DEF RowsOf
  <2> HIDE DEF earlier
  <2> QED
    BY <1>6, <2>2, <2>3
<1>11. LastPowerSampleBefore(cut) = <<[ts |-> g[e].at, value |-> g[e].value]>>
  BY <1>10 DEF LastPowerSampleBefore
<1>12. Enumerates(g, e, earlier)
  BY <1>10, ByTimeEnumerates
<1> HIDE DEF g, e
<1>13. /\ g[e] \in earlier /\ g[e].at \in Nat
       /\ \A r \in earlier : r.at \in Nat /\ r.at <= g[e].at
  <2> HIDE DEF earlier
  <2> QED
    BY <1>10, <1>12, LastIsLatest
<1>14. g[e] \in A
  <2>1. PICK r \in A : TRUE
    BY <1>6
  <2>2. r.at \in Nat /\ r.at >= from /\ r.at <= g[e].at
    BY <1>10, <1>13, <2>1 DEF RowsOf
  <2>3. g[e] \in ToSet(rows) /\ g[e].at < cut
    BY <1>13
  <2>4. g[e].at >= from /\ g[e].at <= cut - 1
    BY <1>0, <1>13, <2>2, <2>3
  <2> QED
    BY <2>3, <2>4 DEF RowsOf
<1>15. g[e] = f1[Len(s1)]
  <2>1. g[e].at <= f1[Len(s1)].at /\ f1[Len(s1)].at <= g[e].at
    BY <1>8, <1>10, <1>13, <1>14
  <2> QED
    BY <1>8, <1>13, <1>14, <2>1
<1>16. Last(s1) = [ts |-> g[e].at, value |-> g[e].value]
  <2>1. Len(s1) \in 1 .. Len(s1)
    BY <1>7, <1>8
  <2>2. s1[Len(s1)] = [ts |-> f1[Len(s1)].at, value |-> f1[Len(s1)].value]
    BY <1>2, <2>1 DEF Sampled
  <2> QED
    BY <1>15, <2>2 DEF Last
<1> QED
  BY <1>9, <1>11, <1>16 DEF s, s1, s2

\* The intervals of the parts, the second begun with the last sample of the first.
LEMMA PartsIntegrate ==
  ASSUME NEW s, Ordered(s), NEW s1, Ordered(s1), NEW s2, Ordered(s2), Parts(s, s1, s2),
         NEW cap \in Nat
  PROVE  IntegrateIntervals(s, cap) =
           IntegrateIntervals(s1, cap) \o IntegrateIntervals(<<Last(s1)>> \o s2, cap)
<1> DEFINE a == Len(s1)
           b == Len(s2)
           Q == [ts : Nat, value : Int]
           r == <<Last(s1)>> \o s2
<1>1. /\ a \in Nat /\ b \in Nat /\ Len(s) = a + b /\ a >= 1
      /\ \A i \in 1 .. a : s[i] = s1[i]
      /\ \A j \in 1 .. b : s[a + j] = s2[j]
  BY DEF Parts
<1>2. s \in Seq(Q) /\ s1 \in Seq(Q) /\ s2 \in Seq(Q)
  BY DEF Ordered
<1> HIDE DEF Q
<1>3. s1[a] = s[a] /\ s1[a] \in Q /\ Last(s1) = s1[a]
  BY <1>1, <1>2 DEF Last
<1>4. /\ r \in Seq(Q) /\ Len(r) = b + 1
      /\ r[1] = s[a]
      /\ \A j \in 1 .. b : r[j + 1] = s[a + j]
  <2>1. <<Last(s1)>> \in Seq(Q) /\ Len(<<Last(s1)>>) = 1 /\ <<Last(s1)>>[1] = s[a]
    BY <1>3
  <2> DEFINE one == <<Last(s1)>>
  <2> HIDE DEF one, a, b
  <2>2. one \in Seq(Q) /\ Len(one) = 1 /\ one[1] = s[a]
    BY <2>1 DEF one
  <2>3. r = one \o s2
    BY DEF one
  <2>4. r \in Seq(Q) /\ Len(r) = b + 1
    BY <1>1, <1>2, <2>2, <2>3 DEF b
  <2>5. r[1] = s[a]
    BY <1>1, <1>2, <2>2, <2>3 DEF b
  <2>6. \A j \in 1 .. b : r[j + 1] = s2[j]
    <3> SUFFICES ASSUME NEW j \in 1 .. b PROVE r[j + 1] = s2[j]
      OBVIOUS
    <3>1. j + 1 \in 1 .. Len(one) + Len(s2) /\ ~(j + 1 <= Len(one)) /\ j + 1 - Len(one) = j
      BY <1>1, <2>2 DEF b
    <3> QED
      BY <1>2, <2>2, <2>3, <3>1
  <2> QED
    BY <1>1, <2>4, <2>5, <2>6
<1> HIDE DEF r, a, b
<1>5. \A i \in 1 .. b + 1 : r[i] = s[a + i - 1] /\ a + i - 1 \in 1 .. a + b
  <2> SUFFICES ASSUME NEW i \in 1 .. b + 1 PROVE r[i] = s[a + i - 1] /\ a + i - 1 \in 1 .. a + b
    OBVIOUS
  <2>1. a + i - 1 \in 1 .. a + b
    BY <1>1
  <2>2. CASE i = 1
    <3>1. a + i - 1 = a
      BY <1>1, <2>2
    <3> QED
      BY <1>4, <2>1, <2>2, <3>1
  <2>3. CASE i # 1
    <3>1. i - 1 \in 1 .. b /\ i - 1 + 1 = i /\ a + (i - 1) = a + i - 1
      BY <1>1, <2>3
    <3>2. r[i - 1 + 1] = s[a + (i - 1)]
      BY <1>4, <3>1
    <3> QED
      BY <2>1, <3>1, <3>2
  <2> QED
    BY <2>2, <2>3
<1>6. Ordered(r)
  <2>1. DOMAIN s = 1 .. a + b /\ DOMAIN r = 1 .. b + 1
    BY <1>1, <1>2, <1>4
  <2>2. \A i, j \in DOMAIN r : i < j => r[i].ts < r[j].ts
    <3> SUFFICES ASSUME NEW i \in 1 .. b + 1, NEW j \in 1 .. b + 1, i < j
                 PROVE  r[i].ts < r[j].ts
      BY <2>1
    <3>1. a + i - 1 \in DOMAIN s /\ a + j - 1 \in DOMAIN s /\ a + i - 1 < a + j - 1
      BY <1>1, <1>5, <2>1
    <3>2. s[a + i - 1].ts < s[a + j - 1].ts
      BY <3>1 DEF Ordered
    <3> QED
      BY <1>5, <3>2
  <2> QED
    BY <1>4, <2>2 DEF Ordered, Q
<1> DEFINE all == IntegrateIntervals(s, cap)
           left == IntegrateIntervals(s1, cap)
           right == IntegrateIntervals(r, cap)
           P == {Piece(s, i, cap) : i \in 1 .. a + b - 1}
<1>7. /\ all = [i \in 1 .. a + b - 1 |-> Piece(s, i, cap)]
      /\ left = [i \in 1 .. a - 1 |-> Piece(s1, i, cap)]
      /\ right = [i \in 1 .. b |-> Piece(r, i, cap)]
  <2>1. Len(s) - 1 = a + b - 1 /\ Len(s1) - 1 = a - 1 /\ Len(r) - 1 = b
    BY <1>1, <1>4 DEF a
  <2> QED
    BY <1>4, <1>6, <2>1, IntervalsAre
<1> HIDE DEF all, left, right
<1>8. \A i \in 1 .. a - 1 : left[i] = all[i] /\ left[i] \in P
  <2> SUFFICES ASSUME NEW i \in 1 .. a - 1 PROVE left[i] = all[i] /\ left[i] \in P
    OBVIOUS
  <2>1. i \in 1 .. a + b - 1 /\ i \in 1 .. a /\ i + 1 \in 1 .. a
    BY <1>1
  <2>2. Piece(s1, i, cap) = Piece(s, i, cap)
    BY <1>1, <2>1, SamePiece
  <2> QED
    BY <1>7, <2>1, <2>2
<1>9. \A j \in 1 .. b : right[j] = all[a - 1 + j] /\ right[j] \in P
  <2> SUFFICES ASSUME NEW j \in 1 .. b PROVE right[j] = all[a - 1 + j] /\ right[j] \in P
    OBVIOUS
  <2>1. a - 1 + j \in 1 .. a + b - 1 /\ j \in 1 .. b + 1 /\ j + 1 \in 1 .. b + 1
    BY <1>1
  <2>2. a + j - 1 = a - 1 + j /\ a + (j + 1) - 1 = (a - 1 + j) + 1
    BY <1>1
  <2>3. r[j] = s[a - 1 + j] /\ r[j + 1] = s[(a - 1 + j) + 1]
    BY <1>5, <2>1, <2>2
  <2>4. Piece(r, j, cap) = Piece(s, a - 1 + j, cap)
    BY <2>3, SamePiece
  <2> QED
    BY <1>7, <2>1, <2>4
<1>10. /\ left \in Seq(P) /\ Len(left) = a - 1 /\ right \in Seq(P) /\ Len(right) = b
  <2>1. left \in [1 .. a - 1 -> P] /\ right \in [1 .. b -> P]
    BY <1>7, <1>8, <1>9
  <2> HIDE DEF P
  <2> QED
    BY <1>1, <2>1
<1> HIDE DEF P
<1> DEFINE cat == left \o right
<1>11. cat \in Seq(P) /\ Len(cat) = a + b - 1
  <2>1. cat \in Seq(P) /\ Len(cat) = Len(left) + Len(right)
    BY <1>10
  <2>2. a - 1 + b = a + b - 1
    BY <1>1
  <2> QED
    BY <1>10, <2>1, <2>2
<1>12. \A i \in 1 .. a + b - 1 : cat[i] = all[i]
  <2> SUFFICES ASSUME NEW i \in 1 .. a + b - 1 PROVE cat[i] = all[i]
    OBVIOUS
  <2>1. CASE i <= a - 1
    <3>1. i \in 1 .. a - 1
      BY <1>1, <2>1
    <3>2. cat[i] = left[i]
      BY <1>1, <1>10, <3>1
    <3> QED
      BY <1>8, <3>1, <3>2
  <2>2. CASE ~(i <= a - 1)
    <3>1. i - (a - 1) \in 1 .. b /\ a - 1 + (i - (a - 1)) = i
      BY <1>1, <2>2
    <3>2. cat[i] = right[i - (a - 1)]
      BY <1>1, <1>10, <2>2
    <3>3. right[i - (a - 1)] = all[a - 1 + (i - (a - 1))]
      BY <1>9, <3>1
    <3> QED
      BY <3>1, <3>2, <3>3
  <2> QED
    BY <2>1, <2>2
<1> HIDE DEF cat
<1>13. cat = [i \in 1 .. a + b - 1 |-> cat[i]]
  BY <1>1, <1>11
<1>14. all = [i \in 1 .. a + b - 1 |-> all[i]]
  BY <1>7
<1>15. cat = all
  BY <1>12, <1>13, <1>14
<1> QED
  BY <1>15 DEF cat, all, left, right, r

\* The last measurement.
LEMMA LastSampled ==
  ASSUME RowsTimed, NEW from \in Borders, NEW to \in Borders, to = Max(Borders)
  PROVE  Last(ListPowerSamples(from, to)) =
           [ts |-> LastMeasurement.at, value |-> LastMeasurement.value]
<1> DEFINE s == ListPowerSamples(from, to)
           W == RowsOf(from, to)
           n == Len(s)
           R == ToSet(rows)
<1>1. PICK f : Enumerates(f, n, W) /\ Sampled(s, f)
  BY BordersAre, SamplesAre
<1>2. \A r \in R : r.at \in Nat
  BY RowsAreTimed
<1>3. Timed(R, "at") /\ Timed(W, "at") /\ R # {}
  <2>1. W \in SUBSET R /\ R \in SUBSET R
    BY DEF RowsOf
  <2>2. R # {}
    BY DEF Borders
  <2> HIDE DEF R, W
  <2> QED
    BY <2>1, <2>2, RowsAreTimed DEF R
<1>4. PICK m \in R : \A q \in R : q.at <= m.at
  <2> HIDE DEF R
  <2> QED
    BY <1>3, LatestExists
<1>5. m.at = to
  <2>1. m.at \in Borders /\ \A t \in Borders : t <= m.at
    BY <1>4 DEF Borders
  <2>2. \A t \in Borders : t \in Int
    BY BordersAre
  <2> DEFINE D == Borders
  <2> HIDE DEF D
  <2>3. \E x \in D : \A y \in D : x >= y
    BY <2>1, <2>2 DEF D
  <2>4. Max(D) \in D /\ \A y \in D : Max(D) >= y
    BY <2>3 DEF Max
  <2>5. to >= m.at /\ m.at >= to
    BY <2>1, <2>2, <2>4 DEF D
  <2> QED
    BY <2>1, <2>2, <2>5
<1>6. m \in W /\ W # {}
  <2>1. from \in Borders /\ \A r \in R : r.at <= to
    BY <1>4, <1>5
  <2>2. from <= to
    <3>1. PICK r \in R : r.at = from
      BY BordersAre
    <3> QED
      BY <2>1, <3>1
  <2>3. to \in Nat
    BY BordersAre
  <2> QED
    BY <1>4, <1>5, <2>2, <2>3 DEF RowsOf
<1>7. /\ n \in Nat /\ n >= 1 /\ f[n] \in W
      /\ \A r \in W : r.at \in Nat /\ r.at <= f[n].at
      /\ \A r \in W : r.at = f[n].at => r = f[n]
  <2> HIDE DEF W, n
  <2> QED
    BY <1>1, <1>3, <1>6, LastIsLatest
<1>8. f[n] = m
  <2>1. f[n] \in R /\ m.at <= f[n].at /\ f[n].at <= m.at /\ m.at \in Nat /\ f[n].at \in Nat
    BY <1>2, <1>4, <1>6, <1>7 DEF RowsOf
  <2> QED
    BY <1>6, <1>7, <2>1
<1>9. LastMeasurement = m
  <2>1. LastMeasurement \in R /\ \A q \in R : q.at <= LastMeasurement.at
    BY <1>4 DEF LastMeasurement
  <2>2. LastMeasurement.at = m.at
    <3>1. LastMeasurement.at \in Nat /\ m.at \in Nat
      BY <1>2, <1>4, <2>1
    <3> QED
      BY <1>4, <2>1, <3>1
  <2> QED
    BY <1>4, <2>1, <2>2 DEF RowsTimed
<1>10. Last(s) = s[n] /\ s[n] = [ts |-> f[n].at, value |-> f[n].value]
  <2>1. n \in 1 .. n
    BY <1>7
  <2> QED
    BY <1>1, <2>1 DEF Last, Sampled
<1> QED
  BY <1>8, <1>9, <1>10

\* Summed up, the measurements are the integral of the power known at each
\* moment, whatever their order, cap and hours; a window cut in two has the same
\* intervals, and the last sample is the last measurement (integrate_hourly,
\* integrate_intervals, the sample queries, get_last_measurements).
THEOREM EnergyAddsUp == PastSpec => []EnergyIsExact
<1>1. ASSUME PastInv PROVE EnergyIsExact
  <2>1. TelemetryTypeOK /\ MeasuredOnce /\ now \in Nat /\ Horizon \in Nat
    BY <1>1, ClockAssumption DEF PastInv, PastTypeOK
  <2>2. RowsTimed
    BY <2>1 DEF RowsTimed, TelemetryTypeOK, MeasuredOnce
  <2>3. RowsPast
    <3>1. \A r \in ToSet(rows) : r.at \in Nat /\ r.at < now /\ now <= Horizon
      BY <2>1, TimesTyped DEF MeasuredOnce
    <3> QED
      BY <2>1, <3>1 DEF RowsPast
  <2>4. SUFFICES ASSUME NEW from \in Borders, NEW to \in Borders, NEW cap \in 0 .. Horizon
        PROVE  /\ Totals(IntegrateHourly(ListPowerSamples(from, to), cap),
                         IntegrateIntervals(ListPowerSamples(from, to), cap),
                         [t \in 0 .. NextHour(Horizon) |-> PowerAt(t, from, to, cap)])
               /\ \A cut \in {t \in Borders : from < t /\ t <= to} :
                    IntegrateIntervals(ListPowerSamples(from, to), cap) =
                      IntegrateIntervals(ListPowerSamples(from, cut - 1), cap)
                      \o IntegrateIntervals(LastPowerSampleBefore(cut)
                                             \o ListPowerSamples(cut, to), cap)
               /\ to = Max(Borders) =>
                    Last(ListPowerSamples(from, to)) =
                      [ts |-> LastMeasurement.at, value |-> LastMeasurement.value]
    BY ZenonT(40) DEF EnergyIsExact, Totals
  <2>5. from \in Nat /\ to \in Nat /\ cap \in Nat
    BY <2>1, <2>2, BordersAre
  <2>6. Len(ListPowerSamples(from, to)) \in Nat
    BY <2>2, <2>3, <2>5, SamplesPast
  <2>7. Totals(IntegrateHourly(ListPowerSamples(from, to), cap),
               IntegrateIntervals(ListPowerSamples(from, to), cap),
               [t \in 0 .. NextHour(Horizon) |-> PowerAt(t, from, to, cap)])
    <3>1. CASE Len(ListPowerSamples(from, to)) < 2
      BY <2>2, <2>3, <2>5, <3>1, NothingToAddUp
    <3>2. CASE Len(ListPowerSamples(from, to)) >= 2
      BY <2>2, <2>3, <2>5, <3>2, AllAddedUp
    <3> QED
      BY <2>6, <3>1, <3>2
  <2>8. ASSUME NEW cut \in {t \in Borders : from < t /\ t <= to}
        PROVE  IntegrateIntervals(ListPowerSamples(from, to), cap) =
                 IntegrateIntervals(ListPowerSamples(from, cut - 1), cap)
                 \o IntegrateIntervals(LastPowerSampleBefore(cut)
                                        \o ListPowerSamples(cut, to), cap)
    <3>1. cut \in Nat /\ from < cut /\ cut <= to
      BY <2>2, BordersAre
    <3>2. from \in Int /\ to \in Int /\ cut \in Int /\ cut - 1 \in Int
      BY <2>5, <3>1
    <3>3. /\ Ordered(ListPowerSamples(from, to))
          /\ Ordered(ListPowerSamples(from, cut - 1))
          /\ Ordered(ListPowerSamples(cut, to))
      BY <2>2, <2>3, <3>2, SamplesPast
    <3>4. /\ Parts(ListPowerSamples(from, to), ListPowerSamples(from, cut - 1),
                   ListPowerSamples(cut, to))
          /\ LastPowerSampleBefore(cut) = <<Last(ListPowerSamples(from, cut - 1))>>
      BY <2>2, <2>5, <3>1, SamplesCut
    <3> QED
      BY <2>5, <3>3, <3>4, PartsIntegrate
  <2>9. to = Max(Borders) =>
          Last(ListPowerSamples(from, to)) =
            [ts |-> LastMeasurement.at, value |-> LastMeasurement.value]
    BY <2>2, LastSampled
  <2> QED
    BY <2>7, <2>8, <2>9
<1> QED
  BY <1>1, PastInvariance, PTL
=============================================================================

------------------------- MODULE NatsConnectionProofs -------------------------
(***************************************************************************)
(* The connection of the NATS client and the answers to its calls, for     *)
(* every number of calls, connections, attempts and losses.                *)
(***************************************************************************)
EXTENDS NatsConnection, TLAPS

Live == {"connected", "reconnecting", "draining"}

Flags == \A b \in {shutdown, drainStarted, closing, strayed, quiet} : b \in BOOLEAN

\* Where each kind of call can be.
Places ==
  /\ \A p \in Publishers : pc[p] \in {"idle", "check", "lock", "connect", "publish", "nap", "done"}
  /\ \A a \in Askers : pc[a] \in {"idle", "connect", "subscribe", "publish", "wait", "done"}
  /\ \A x \in Closers : pc[x] \in {"idle", "drain", "close", "done"}

\* A call subscribes before it publishes, on a connection that was made, and
\* the agent has a message only of a call that has come so far.
Subscribed ==
  /\ subs \in [Askers -> Connections \cup {None}]
  /\ \A a \in Askers :
       /\ pc[a] \in {"idle", "connect", "subscribe"} => subs[a] = None
       /\ pc[a] \in {"publish", "wait"} => subs[a] # None
       /\ subs[a] # None => conn[subs[a]] # "unused"
       /\ a \in reached => pc[a] \in {"publish", "wait", "done"}

\* A connection drains only once its client is shut down.
DrainsShutDown == Is("draining") => shutdown

\* Unless it strayed, one call at most connects, and for a client that has no
\* connection which could come back.
ConnectsOnce ==
  ~strayed => \A c \in Calls : pc[c] = "connect" =>
    /\ \A d \in Calls : pc[d] = "connect" => c = d
    /\ nc # None => conn[nc] \notin Live

\* Once quiet, no publisher is at work and no call connects.
StaysQuiet ==
  quiet => /\ closing
           /\ \A p \in Publishers : ~InProgress(p)
           /\ \A c \in Calls : pc[c] # "connect"

IInv ==
  /\ TypeOK /\ Flags /\ Places /\ Subscribed /\ DrainsShutDown
  /\ ConnectsOnce /\ StaysQuiet /\ QuietClose /\ NoStrayConnection

-----------------------------------------------------------------------------
LEMMA InitInv == Init => IInv
<1> SUFFICES ASSUME Init PROVE IInv
  OBVIOUS
<1> USE DEF Init
<1>1. TypeOK /\ Flags
  BY DEF TypeOK, Flags, Statuses, Waits
<1>2. Places /\ Subscribed
  BY DEF Places, Subscribed, Calls
<1>3. DrainsShutDown /\ ConnectsOnce
  BY DEF DrainsShutDown, ConnectsOnce, Is
<1>4. StaysQuiet /\ QuietClose /\ NoStrayConnection
  BY DEF StaysQuiet, QuietClose, NoStrayConnection
<1> QED
  BY <1>1, <1>2, <1>3, <1>4 DEF IInv

LEMMA AskOrder == AskSteps[1] = "subscribe" /\ After("subscribe") = "publish" /\ After("publish") = "wait"
<1>1. AskSteps[1] = "subscribe" /\ AskSteps[2] = "publish" /\ AskSteps[3] = "wait"
  BY DEF AskSteps
<1>2. (CHOOSE i \in 1..3 : AskSteps[i] = "subscribe") = 1
  BY <1>1
<1>3. (CHOOSE i \in 1..3 : AskSteps[i] = "publish") = 2
  BY <1>1
<1> QED
  BY <1>1, <1>2, <1>3 DEF After

-----------------------------------------------------------------------------
(* What the steps of calls have in common, as facts about the client. *)

\* The client as one step may change it, and what it keeps for the other calls.
ClientKept ==
  /\ conn' \in [Connections -> Statuses]
  /\ \A k \in Connections : conn[k] # "unused" => conn'[k] # "unused"
  /\ nc' \in Connections \cup {None} /\ js' = nc'
  /\ \A b \in {shutdown', drainStarted', closing', strayed'} : b \in BOOLEAN
  /\ DrainsShutDown' /\ NoStrayConnection'
  /\ strayed => strayed'
  /\ closing => closing'

\* No call begins to connect, and a dead connection stays dead.
LEMMA NoNewConnect ==
  ASSUME IInv, strayed => strayed',
         \A c \in Calls : pc'[c] = "connect" => pc[c] = "connect",
         \/ \A c \in Calls : pc'[c] # "connect"
         \/ nc' = None
         \/ nc' = nc /\ (conn[nc] \notin Live => conn'[nc] \notin Live)
  PROVE  ConnectsOnce'
BY DEF IInv, ConnectsOnce, Flags

LEMMA BeginConnectKeeps ==
  ASSUME IInv, NEW c \in Calls, BeginConnect(c), ~HasConnection
  PROVE  ClientKept /\ ConnectsOnce'
<1>1. /\ ~shutdown /\ pc' = [pc EXCEPT ![c] = "connect"]
      /\ strayed' = (strayed \/ Is("reconnecting") \/ \E d \in Calls : pc[d] = "connect")
      /\ UNCHANGED <<conn, nc, js, shutdown, drainStarted, closing>>
  BY DEF BeginConnect, MayConnect, Goto
<1>2. strayed' \in BOOLEAN
  BY <1>1
<1>3. ClientKept
  BY <1>1, <1>2 DEF IInv, TypeOK, Flags, ClientKept, DrainsShutDown, NoStrayConnection, Is
<1>4. ~strayed' /\ nc # None => conn[nc] \notin Live
  BY <1>1 DEF IInv, DrainsShutDown, HasConnection, Is, Live
<1>5. ~strayed' => \A d \in Calls : pc[d] # "connect"
  BY <1>1
<1>6. \A d \in Calls : pc'[d] = IF d = c THEN "connect" ELSE pc[d]
  BY <1>1 DEF IInv, TypeOK
<1>7. ConnectsOnce'
  BY <1>1, <1>4, <1>5, <1>6 DEF ConnectsOnce
<1> QED
  BY <1>3, <1>7

LEMMA ConnectedKeeps ==
  ASSUME IInv, NEW c \in Calls, pc[c] = "connect", NEW k \in Connections, Connected(k)
  PROVE  /\ ClientKept /\ UNCHANGED shutdown
         /\ ~strayed' => \A d \in Calls \ {c} : pc[d] # "connect"
<1>1. /\ conn' = [conn EXCEPT ![k] = "connected"] /\ nc' = k /\ js' = k
      /\ drainStarted' = FALSE /\ strayed' = (strayed \/ shutdown)
      /\ UNCHANGED <<shutdown, closing>>
  BY DEF Connected
<1>2. DrainsShutDown' /\ strayed' \in BOOLEAN
  BY <1>1 DEF DrainsShutDown, Is, IInv, TypeOK
<1>3. NoStrayConnection'
  BY <1>1, ConnectionsAssumption DEF IInv, TypeOK, NoStrayConnection, ConnectsOnce, Live
<1>4. ClientKept
  BY <1>1, <1>2, <1>3 DEF IInv, TypeOK, Flags, ClientKept, Statuses
<1> QED
  BY <1>1, <1>4 DEF IInv, ConnectsOnce

LEMMA RecoverKeeps ==
  ASSUME IInv, Recover
  PROVE  ClientKept /\ UNCHANGED <<conn, closing, strayed>> /\ (nc' = nc \/ nc' = None)
<1>1. UNCHANGED <<conn, closing, strayed>> /\ (nc' = nc \/ nc' = None)
  BY DEF Recover, Client
<1>2. js' = nc' /\ shutdown' \in BOOLEAN /\ drainStarted' \in BOOLEAN
  BY DEF Recover, Client, IInv, TypeOK, Flags
<1>3. DrainsShutDown' /\ NoStrayConnection'
  BY DEF Recover, Client, IInv, TypeOK, DrainsShutDown, NoStrayConnection, Is
<1> QED
  BY <1>1, <1>2, <1>3 DEF IInv, TypeOK, Flags, ClientKept

LEMMA SameClient ==
  ASSUME IInv, UNCHANGED Client
  PROVE  ClientKept
BY DEF Client, IInv, TypeOK, Flags, ClientKept, DrainsShutDown, NoStrayConnection, Is

\* A step of a publisher or an asker, once what it does to the client is known.
LEMMA CallStep ==
  ASSUME IInv, ClientKept, ConnectsOnce', UNCHANGED quiet,
         pc' \in [Calls -> Waits], Places', Subscribed',
         lock' \in Publishers \cup {None},
         \A x \in Closers : pc'[x] = pc[x],
         \A a \in Askers : subs'[a] # None /\ pc'[a] = "done" => a \in leaked',
         quiet => /\ UNCHANGED <<shutdown, nc>>
                  /\ \A p \in Publishers : ~InProgress(p)'
                  /\ \A c \in Calls : pc'[c] # "connect"
  PROVE  IInv'
<1> USE DEF IInv
<1>1. TypeOK'
  BY DEF TypeOK, ClientKept
<1>2. Flags'
  BY DEF Flags, ClientKept
<1>3. StaysQuiet'
  BY DEF StaysQuiet, ClientKept, Flags
<1>4. QuietClose'
  BY DEF QuietClose, InProgress
<1> QED
  BY <1>1, <1>2, <1>3, <1>4 DEF ClientKept

\* The same for a step of a publisher.
LEMMA PublisherStep ==
  ASSUME IInv, NEW p \in Publishers, NEW w \in {"check", "lock", "connect", "publish", "nap", "done"},
         pc' = [pc EXCEPT ![p] = w],
         InProgress(p) \/ (closing => w = "done" /\ UNCHANGED <<shutdown, nc>>),
         ClientKept, ConnectsOnce', UNCHANGED <<Asking, quiet>>,
         lock' \in Publishers \cup {None}
  PROVE  IInv'
<1>1. /\ \A c \in Calls : pc'[c] = IF c = p THEN w ELSE pc[c]
      /\ p \in Calls /\ p \notin Askers /\ p \notin Closers
  BY CallsAssumption DEF IInv, TypeOK, Calls
<1>2. \A a \in Askers : pc'[a] = pc[a] /\ a \in Calls
  BY <1>1 DEF Calls
<1>3. \A x \in Closers : pc'[x] = pc[x] /\ x \in Calls
  BY <1>1 DEF Calls
<1>4. Places'
  BY <1>1, <1>2, <1>3 DEF IInv, Places, Calls
<1>5. pc' \in [Calls -> Waits]
  BY DEF IInv, TypeOK, Waits
<1>6. UNCHANGED <<subs, reached, heard, leaked>>
  BY DEF Asking
<1>7. Subscribed'
  BY <1>2, <1>6 DEF IInv, Subscribed, ClientKept
<1>8. \A a \in Askers : subs'[a] # None /\ pc'[a] = "done" => a \in leaked'
  BY <1>2, <1>6 DEF IInv, TypeOK
<1>9. quiet => /\ UNCHANGED <<shutdown, nc>>
               /\ \A q \in Publishers : ~InProgress(q)'
               /\ \A c \in Calls : pc'[c] # "connect"
  BY <1>1 DEF IInv, StaysQuiet, InProgress, Calls
<1> QED
  BY <1>3, <1>4, <1>5, <1>7, <1>8, <1>9, CallStep

-----------------------------------------------------------------------------
(* The publishers. *)

LEMMA StartPublishInv ==
  ASSUME IInv, NEW p \in Publishers, StartPublish(p)
  PROVE  IInv'
<1>1. /\ pc[p] = "idle" /\ UNCHANGED <<Client, lock, Asking, quiet>>
      /\ \E w \in {"check", "done"} : pc' = [pc EXCEPT ![p] = w] /\ (closing => w = "done")
  BY DEF StartPublish, Goto
<1>2. UNCHANGED <<shutdown, nc, conn, strayed>>
  BY <1>1 DEF Client
<1>3. ClientKept
  BY <1>1, SameClient
<1>4. ConnectsOnce'
  BY <1>1, <1>2, NoNewConnect DEF IInv, TypeOK
<1>5. lock' \in Publishers \cup {None}
  BY <1>1 DEF IInv, TypeOK
<1> QED
  BY <1>1, <1>2, <1>3, <1>4, <1>5, PublisherStep

LEMMA CheckDrainingInv ==
  ASSUME IInv, NEW p \in Publishers, CheckDraining(p)
  PROVE  IInv'
<1>1. /\ pc[p] = "check" /\ UNCHANGED <<lock, Asking, quiet>>
      /\ Recover \/ UNCHANGED Client
      /\ \E w \in {"nap", "lock"} : pc' = [pc EXCEPT ![p] = w]
  BY DEF CheckDraining, Goto
<1>2. ClientKept /\ UNCHANGED <<conn, strayed>> /\ (nc' = nc \/ nc' = None)
  BY <1>1, SameClient, RecoverKeeps DEF Client
<1>3. ConnectsOnce'
  BY <1>1, <1>2, NoNewConnect DEF IInv, TypeOK
<1>4. lock' \in Publishers \cup {None} /\ InProgress(p)
  BY <1>1 DEF IInv, TypeOK, InProgress
<1> QED
  BY <1>1, <1>2, <1>3, <1>4, PublisherStep

LEMMA AcquireInv ==
  ASSUME IInv, NEW p \in Publishers, Acquire(p)
  PROVE  IInv'
<1>1. pc[p] = "lock" /\ lock' = p /\ UNCHANGED <<Asking, quiet>>
  BY DEF Acquire
<1>2. lock' \in Publishers \cup {None} /\ InProgress(p)
  BY <1>1 DEF InProgress
<1>3. CASE BeginConnect(p) /\ ~HasConnection
  <2>1. ClientKept /\ ConnectsOnce'
    BY <1>3, BeginConnectKeeps DEF Calls
  <2>2. pc' = [pc EXCEPT ![p] = "connect"]
    BY <1>3 DEF BeginConnect, Goto
  <2> QED
    BY <1>1, <1>2, <2>1, <2>2, PublisherStep
<1>4. CASE UNCHANGED Client /\ \E w \in {"publish", "nap"} : pc' = [pc EXCEPT ![p] = w]
  <2>1. ClientKept /\ UNCHANGED <<conn, nc, strayed>>
    BY <1>4, SameClient DEF Client
  <2>2. ConnectsOnce'
    BY <1>4, <2>1, NoNewConnect DEF IInv, TypeOK
  <2> QED
    BY <1>1, <1>2, <1>4, <2>1, <2>2, PublisherStep
<1> QED
  BY <1>3, <1>4 DEF Acquire, Goto

LEMMA PublisherConnectsInv ==
  ASSUME IInv, NEW p \in Publishers, PublisherConnects(p)
  PROVE  IInv'
<1>1. /\ pc[p] = "connect" /\ UNCHANGED <<lock, Asking, quiet>>
      /\ \E w \in {"publish", "nap"} : pc' = [pc EXCEPT ![p] = w]
      /\ (\E k \in Connections : Connected(k)) \/ UNCHANGED Client
  BY DEF PublisherConnects, Goto
<1>2. lock' \in Publishers \cup {None} /\ InProgress(p) /\ p \in Calls
  BY <1>1 DEF IInv, TypeOK, InProgress, Calls
<1>3. CASE \E k \in Connections : Connected(k)
  <2>1. ClientKept /\ (~strayed' => \A d \in Calls \ {p} : pc[d] # "connect")
    BY <1>1, <1>2, <1>3, ConnectedKeeps
  <2>2. ConnectsOnce'
    BY <1>1, <2>1 DEF ConnectsOnce, IInv, TypeOK
  <2> QED
    BY <1>1, <1>2, <2>1, <2>2, PublisherStep
<1>4. CASE UNCHANGED Client
  <2>1. ClientKept /\ UNCHANGED <<conn, nc, strayed>>
    BY <1>4, SameClient DEF Client
  <2>2. ConnectsOnce'
    BY <1>1, <2>1, NoNewConnect DEF IInv, TypeOK
  <2> QED
    BY <1>1, <1>2, <2>1, <2>2, PublisherStep
<1> QED
  BY <1>1, <1>3, <1>4

LEMMA PublishEndsInv ==
  ASSUME IInv, NEW p \in Publishers, Published(p) \/ PublishFails(p) \/ WakeUp(p)
  PROVE  IInv'
<1>1. /\ InProgress(p) /\ UNCHANGED <<Asking, quiet>>
      /\ Recover \/ UNCHANGED Client
      /\ \E w \in {"nap", "check", "done"} : pc' = [pc EXCEPT ![p] = w]
  BY DEF Published, PublishFails, WakeUp, InProgress, Goto
<1>2. lock' \in Publishers \cup {None}
  BY DEF Published, PublishFails, WakeUp, Release, IInv, TypeOK
<1>3. ClientKept /\ UNCHANGED <<conn, strayed>> /\ (nc' = nc \/ nc' = None)
  BY <1>1, SameClient, RecoverKeeps DEF Client
<1>4. ConnectsOnce'
  BY <1>1, <1>3, NoNewConnect DEF IInv, TypeOK
<1> QED
  BY <1>1, <1>2, <1>3, <1>4, PublisherStep

-----------------------------------------------------------------------------
(* The askers. *)

\* A step of an asker that leaves its subscription alone.
LEMMA AskerStep ==
  ASSUME IInv, NEW a \in Askers,
         NEW w \in {"connect", "subscribe", "publish", "wait", "done"},
         pc' = [pc EXCEPT ![a] = w],
         quiet => w # "connect" /\ UNCHANGED <<shutdown, nc>>,
         ClientKept, ConnectsOnce', UNCHANGED <<lock, quiet>>,
         subs' = [subs EXCEPT ![a] = subs'[a]], subs'[a] \in Connections \cup {None},
         w \in {"connect", "subscribe"} => subs'[a] = None,
         w \in {"publish", "wait"} => subs'[a] # None,
         subs'[a] # None => conn'[subs'[a]] # "unused",
         reached' = reached, a \in reached => w \in {"publish", "wait", "done"},
         leaked \subseteq leaked', subs'[a] # None /\ w = "done" => a \in leaked'
  PROVE  IInv'
<1>1. /\ \A c \in Calls : pc'[c] = IF c = a THEN w ELSE pc[c]
      /\ a \in Calls /\ a \notin Publishers /\ a \notin Closers
  BY CallsAssumption DEF IInv, TypeOK, Calls
<1>2. \A p \in Publishers : pc'[p] = pc[p] /\ p \in Calls
  BY <1>1 DEF Calls
<1>3. \A x \in Closers : pc'[x] = pc[x] /\ x \in Calls
  BY <1>1 DEF Calls
<1>4. \A b \in Askers : pc'[b] = (IF b = a THEN w ELSE pc[b]) /\ b \in Calls
  BY <1>1 DEF Calls
<1>5. \A b \in Askers \ {a} : subs'[b] = subs[b]
  BY DEF IInv, Subscribed
<1>6. Places'
  BY <1>2, <1>3, <1>4 DEF IInv, Places
<1>7. pc' \in [Calls -> Waits]
  BY DEF IInv, TypeOK, Waits
<1>8. Subscribed'
  <2>1. subs' \in [Askers -> Connections \cup {None}]
    BY DEF IInv, Subscribed
  <2>2. \A b \in Askers \ {a} :
          /\ pc'[b] \in {"idle", "connect", "subscribe"} => subs'[b] = None
          /\ pc'[b] \in {"publish", "wait"} => subs'[b] # None
          /\ subs'[b] # None => conn'[subs'[b]] # "unused"
          /\ b \in reached => pc'[b] \in {"publish", "wait", "done"}
    BY <1>4, <1>5 DEF IInv, Subscribed, ClientKept
  <2> QED
    BY <1>4, <2>1, <2>2 DEF Subscribed
<1>9. \A b \in Askers : subs'[b] # None /\ pc'[b] = "done" => b \in leaked'
  BY <1>4, <1>5 DEF IInv, TypeOK
<1>10. lock' \in Publishers \cup {None}
  BY DEF IInv, TypeOK
<1>11. quiet => /\ UNCHANGED <<shutdown, nc>>
                /\ \A p \in Publishers : ~InProgress(p)'
                /\ \A c \in Calls : pc'[c] # "connect"
  BY <1>1, <1>2 DEF IInv, StaysQuiet, InProgress
<1> QED
  BY <1>3, <1>6, <1>7, <1>8, <1>9, <1>10, <1>11, CallStep

\* The same where neither client nor subscriptions change.
LEMMA AskerMoves ==
  ASSUME IInv, NEW a \in Askers,
         NEW w \in {"subscribe", "publish", "wait", "done"},
         pc' = [pc EXCEPT ![a] = w], UNCHANGED <<Client, lock, subs, reached, quiet>>,
         w = "subscribe" => pc[a] \in {"idle", "connect"},
         w \in {"publish", "wait"} => pc[a] \in {"publish", "wait"},
         leaked \subseteq leaked', subs[a] # None /\ w = "done" => a \in leaked'
  PROVE  IInv'
<1>1. ClientKept /\ UNCHANGED <<conn, nc, shutdown, strayed>>
  BY SameClient DEF Client
<1>2. ConnectsOnce'
  BY <1>1, NoNewConnect DEF IInv, TypeOK
<1>3. /\ subs' = [subs EXCEPT ![a] = subs'[a]] /\ subs'[a] \in Connections \cup {None}
      /\ w = "subscribe" => subs'[a] = None /\ a \notin reached
      /\ w \in {"publish", "wait"} => subs'[a] # None
      /\ subs'[a] # None => conn'[subs'[a]] # "unused"
  BY <1>1 DEF IInv, Subscribed
<1> QED
  BY <1>1, <1>2, <1>3, AskerStep

LEMMA StartAskInv ==
  ASSUME IInv, NEW a \in Askers, StartAsk(a)
  PROVE  IInv'
<1>1. pc[a] = "idle" /\ UNCHANGED <<lock, subs, reached, leaked, quiet>> /\ a \in Calls
  BY DEF StartAsk, Asking, Calls
<1>2. subs[a] = None /\ a \notin reached
  BY <1>1 DEF IInv, Subscribed
<1>3. CASE BeginConnect(a) /\ ~HasConnection
  <2>1. ClientKept /\ ConnectsOnce'
    BY <1>1, <1>3, BeginConnectKeeps
  <2>2. pc' = [pc EXCEPT ![a] = "connect"] /\ ~shutdown
    BY <1>3 DEF BeginConnect, Goto, MayConnect
  <2>3. ~quiet
    BY <2>2 DEF IInv, QuietClose
  <2>4. subs' = [subs EXCEPT ![a] = subs'[a]] /\ subs'[a] = None
    BY <1>1, <1>2 DEF IInv, Subscribed
  <2> QED
    BY <1>1, <1>2, <2>1, <2>2, <2>3, <2>4, AskerStep
<1>4. CASE UNCHANGED Client /\ \E w \in {"subscribe", "done"} : pc' = [pc EXCEPT ![a] = w]
  BY <1>1, <1>2, <1>4, AskerMoves
<1> QED
  BY <1>3, <1>4, AskOrder DEF StartAsk, Goto

LEMMA AskerConnectsInv ==
  ASSUME IInv, NEW a \in Askers, AskerConnects(a)
  PROVE  IInv'
<1>1. pc[a] = "connect" /\ UNCHANGED <<lock, subs, reached, leaked, quiet>> /\ a \in Calls
  BY DEF AskerConnects, Asking, Calls
<1>2. subs[a] = None /\ a \notin reached /\ ~quiet
  BY <1>1 DEF IInv, Subscribed, StaysQuiet
<1>3. CASE (\E k \in Connections : Connected(k)) /\ pc' = [pc EXCEPT ![a] = "subscribe"]
  <2>1. ClientKept /\ (~strayed' => \A d \in Calls \ {a} : pc[d] # "connect")
    BY <1>1, <1>3, ConnectedKeeps
  <2>2. ConnectsOnce'
    BY <1>1, <1>3, <2>1 DEF ConnectsOnce, IInv, TypeOK
  <2>3. subs' = [subs EXCEPT ![a] = subs'[a]] /\ subs'[a] = None
    BY <1>1, <1>2 DEF IInv, Subscribed
  <2> QED
    BY <1>1, <1>2, <1>3, <2>1, <2>2, <2>3, AskerStep
<1>4. CASE UNCHANGED Client /\ pc' = [pc EXCEPT ![a] = "done"]
  BY <1>1, <1>2, <1>4, AskerMoves
<1> QED
  BY <1>3, <1>4, AskOrder DEF AskerConnects, Goto

LEMMA SubscribeInv ==
  ASSUME IInv, NEW a \in Askers, Subscribe(a)
  PROVE  IInv'
<1>1. /\ pc[a] = "subscribe" /\ UNCHANGED <<Client, lock, reached, leaked, quiet>>
  BY DEF Subscribe
<1>2. subs[a] = None /\ a \notin reached
  BY <1>1 DEF IInv, Subscribed
<1>3. CASE /\ nc # None /\ conn[nc] \in {"connected", "reconnecting"}
           /\ pc' = [pc EXCEPT ![a] = "publish"] /\ subs' = [subs EXCEPT ![a] = nc]
  <2>1. ClientKept /\ UNCHANGED <<conn, nc, shutdown, strayed>>
    BY <1>1, SameClient DEF Client
  <2>2. ConnectsOnce'
    BY <1>3, <2>1, NoNewConnect DEF IInv, TypeOK
  <2>3. subs'[a] = nc /\ nc \in Connections
    BY <1>3 DEF IInv, Subscribed, TypeOK
  <2> QED
    BY <1>1, <1>2, <1>3, <2>1, <2>2, <2>3, AskerStep
<1>4. CASE pc' = [pc EXCEPT ![a] = "done"] /\ UNCHANGED subs
  BY <1>1, <1>2, <1>4, AskerMoves
<1> QED
  BY <1>3, <1>4, AskOrder DEF Subscribe, Goto

LEMMA AskPublishedInv ==
  ASSUME IInv, NEW a \in Askers, AskPublished(a) \/ AskFails(a)
  PROVE  IInv'
<1>1. pc[a] = "publish" /\ UNCHANGED <<Client, lock, subs, reached, quiet>>
  BY DEF AskPublished, AskFails, Asking
<1>2. CASE pc' = [pc EXCEPT ![a] = "wait"] /\ UNCHANGED leaked
  BY <1>1, <1>2, AskerMoves
<1>3. CASE /\ pc' = [pc EXCEPT ![a] = "done"]
           /\ leaked' = IF subs[a] # None THEN leaked \cup {a} ELSE leaked
  BY <1>1, <1>3, AskerMoves
<1> QED
  BY <1>2, <1>3, AskOrder DEF AskPublished, AskFails, Goto, Asking

LEMMA EndWaitInv ==
  ASSUME IInv, NEW a \in Askers, EndWait(a)
  PROVE  IInv'
<1>1. /\ pc[a] = "wait" /\ pc' = [pc EXCEPT ![a] = "done"] /\ subs' = [subs EXCEPT ![a] = None]
      /\ UNCHANGED <<Client, lock, reached, leaked, quiet>>
  BY DEF EndWait, Goto, Unsubscribe
<1>2. ClientKept /\ UNCHANGED <<conn, nc, shutdown, strayed>>
  BY <1>1, SameClient DEF Client
<1>3. ConnectsOnce'
  BY <1>1, <1>2, NoNewConnect DEF IInv, TypeOK
<1>4. subs'[a] = None
  BY <1>1 DEF IInv, Subscribed
<1> QED
  BY <1>1, <1>2, <1>3, <1>4, AskerStep

\* The broker and the agent: a message arrives, its answer is published.
LEMMA DeliverInv ==
  ASSUME IInv, NEW a \in Askers, Deliver(a) \/ Answer(a)
  PROVE  IInv'
<1>1. /\ UNCHANGED <<Client, lock, pc, subs, leaked, quiet>>
      /\ \/ pc[a] = "publish" /\ reached' = reached \cup {a}
         \/ reached' = reached \ {a}
  BY DEF Deliver, Answer
<1>2. UNCHANGED <<conn, nc, js, shutdown, drainStarted, closing, strayed>>
  BY <1>1 DEF Client
<1>3. Subscribed'
  BY <1>1, <1>2 DEF IInv, Subscribed
<1> QED
  BY <1>1, <1>2, <1>3 DEF IInv, TypeOK, Flags, Places, DrainsShutDown, ConnectsOnce,
                          StaysQuiet, QuietClose, NoStrayConnection, InProgress, Is

-----------------------------------------------------------------------------
(* The calls of close, and the connections themselves. *)

\* A step of a closer.
LEMMA CloserStep ==
  ASSUME IInv, NEW x \in Closers, NEW w \in {"drain", "close", "done"},
         pc' = [pc EXCEPT ![x] = w],
         ClientKept, nc' = nc \/ nc' = None,
         \A k \in Connections : conn[k] \notin Live => conn'[k] \notin Live,
         UNCHANGED <<lock, subs, reached, leaked>>,
         quiet => shutdown',
         quiet /\ ~InProgress(x)' => IF InProgress(x) THEN nc' = None ELSE nc' = nc,
         quiet' => /\ quiet \/ ((nc' = None \/ InProgress(x)') /\ shutdown' /\ closing')
                   /\ quiet \/ \A c \in Calls : ~InProgress(c),
         quiet' \in BOOLEAN
  PROVE  IInv'
<1>1. /\ \A c \in Calls : pc'[c] = IF c = x THEN w ELSE pc[c]
      /\ x \in Calls /\ x \notin Publishers /\ x \notin Askers
  BY CallsAssumption DEF IInv, TypeOK, Calls
<1>2. \A p \in Publishers : pc'[p] = pc[p] /\ p \in Calls
  BY <1>1 DEF Calls
<1>3. \A a \in Askers : pc'[a] = pc[a] /\ a \in Calls
  BY <1>1 DEF Calls
<1>4. \A y \in Closers : pc'[y] = (IF y = x THEN w ELSE pc[y]) /\ y \in Calls
  BY <1>1 DEF Calls
<1>5. TypeOK'
  BY <1>3 DEF IInv, TypeOK, ClientKept, Waits
<1>6. Flags' /\ Places'
  BY <1>2, <1>3, <1>4 DEF IInv, Flags, Places, ClientKept
<1>7. Subscribed'
  BY <1>3 DEF IInv, Subscribed, ClientKept
<1>8. strayed => strayed'
  BY DEF ClientKept
<1>9. \A c \in Calls : pc'[c] = "connect" => pc[c] = "connect"
  BY <1>1
<1>10. nc' # None /\ conn[nc] \notin Live => conn'[nc] \notin Live
  BY DEF IInv, TypeOK, ClientKept
<1>11. ConnectsOnce'
  BY <1>8, <1>9, <1>10, NoNewConnect
<1>12. StaysQuiet'
  BY <1>1, <1>2 DEF IInv, StaysQuiet, Flags, ClientKept, InProgress
<1>13. QuietClose'
  <2>1. CASE quiet
    <3>1. ASSUME \A y \in Closers : ~InProgress(y)'
          PROVE  nc' = None
      <4>1. ~InProgress(x)'
        BY <3>1
      <4>2. CASE InProgress(x)
        BY <2>1, <4>1, <4>2
      <4>3. CASE ~InProgress(x)
        <5>1. \A y \in Closers : ~InProgress(y)
          BY <1>4, <3>1, <4>3 DEF InProgress
        <5> QED
          BY <2>1, <4>1, <4>3, <5>1 DEF IInv, QuietClose
      <4> QED
        BY <4>2, <4>3
    <3> QED
      BY <2>1, <3>1 DEF QuietClose
  <2>2. CASE ~quiet
    BY <2>2 DEF QuietClose
  <2> QED
    BY <2>1, <2>2
<1> QED
  BY <1>5, <1>6, <1>7, <1>11, <1>12, <1>13 DEF IInv, ClientKept

LEMMA StartCloseInv ==
  ASSUME IInv, NEW x \in Closers, NEW ofPublisher \in BOOLEAN, StartClose(x, ofPublisher)
  PROVE  IInv'
<1>1. /\ pc[x] = "idle" /\ closing' = (closing \/ ofPublisher)
      /\ quiet' = (quiet \/ /\ ofPublisher /\ ~closing /\ (shutdown => nc = None)
                            /\ \A c \in Calls : ~InProgress(c))
      /\ UNCHANGED <<nc, js, strayed, lock, subs, reached, leaked>>
  BY DEF StartClose, Asking
<1>2. closing' \in BOOLEAN /\ quiet' \in BOOLEAN /\ ~InProgress(x)
  BY <1>1 DEF InProgress
<1>3. quiet => shutdown
  BY DEF IInv, QuietClose
<1>4. CASE /\ shutdown \/ (ofPublisher /\ closing)
           /\ UNCHANGED <<conn, shutdown, drainStarted>> /\ pc' = [pc EXCEPT ![x] = "done"]
  <2>1. ClientKept
    BY <1>1, <1>2, <1>4 DEF IInv, TypeOK, Flags, ClientKept, DrainsShutDown, NoStrayConnection, Is
  <2> QED
    BY <1>1, <1>2, <1>3, <1>4, <2>1, CloserStep
<1>5. CASE /\ ~(shutdown \/ (ofPublisher /\ closing)) /\ shutdown' = TRUE /\ drainStarted' = TRUE
           /\ \/ nc = None /\ pc' = [pc EXCEPT ![x] = "done"] /\ UNCHANGED conn
              \/ /\ nc # None /\ pc' = [pc EXCEPT ![x] = "drain"]
                 /\ conn' = IF Is("connected") THEN [conn EXCEPT ![nc] = "draining"] ELSE conn
  <2>1. conn' \in [Connections -> Statuses]
    BY <1>5 DEF IInv, TypeOK, Statuses
  <2>2. \A k \in Connections :
          /\ conn'[k] = conn[k] \/ (k = nc /\ conn[k] = "connected" /\ conn'[k] = "draining")
    BY <1>5 DEF IInv, TypeOK, Is
  <2>3. \A k \in Connections : conn[k] \notin Live => conn'[k] \notin Live
    BY <2>2 DEF Live
  <2>4. NoStrayConnection'
    BY <1>1, <2>2 DEF IInv, NoStrayConnection
  <2>5. ClientKept
    BY <1>1, <1>2, <1>5, <2>1, <2>2, <2>4 DEF IInv, TypeOK, Flags, ClientKept, DrainsShutDown
  <2>6. nc # None => InProgress(x)'
    <3>1. x \in Calls
      BY DEF Calls
    <3> QED
      BY <1>5, <3>1 DEF InProgress, IInv, TypeOK
  <2> QED
    BY <1>1, <1>2, <1>3, <1>5, <2>3, <2>5, <2>6, CloserStep
<1> QED
  BY <1>4, <1>5 DEF StartClose, Goto

LEMMA DrainedInv ==
  ASSUME IInv, NEW x \in Closers, Drained(x)
  PROVE  IInv'
<1>1. /\ pc[x] = "drain" /\ pc' = [pc EXCEPT ![x] = "close"]
      /\ conn' = IF nc = None THEN conn ELSE [conn EXCEPT ![nc] = "closed"]
      /\ UNCHANGED <<nc, js, shutdown, drainStarted, closing, strayed, lock, subs, reached, leaked,
                     quiet>>
  BY DEF Drained, Goto, Asking
<1>2. conn' \in [Connections -> Statuses]
  BY <1>1 DEF IInv, TypeOK, Statuses
<1>3. \A k \in Connections : conn'[k] = conn[k] \/ conn'[k] = "closed"
  BY <1>1 DEF IInv, TypeOK
<1>4. NoStrayConnection'
  BY <1>1, <1>3 DEF IInv, NoStrayConnection
<1>5. DrainsShutDown'
  BY <1>1, <1>3 DEF IInv, TypeOK, DrainsShutDown, Is
<1>6. ClientKept
  BY <1>1, <1>2, <1>3, <1>4, <1>5 DEF IInv, TypeOK, Flags, ClientKept
<1>7. InProgress(x)'
  <2>1. x \in Calls
    BY DEF Calls
  <2> QED
    BY <1>1, <2>1 DEF InProgress, IInv, TypeOK
<1>8. \A k \in Connections : conn[k] \notin Live => conn'[k] \notin Live
  BY <1>3 DEF Live
<1>9. quiet => shutdown'
  BY <1>1 DEF IInv, QuietClose
<1> QED
  BY <1>1, <1>6, <1>7, <1>8, <1>9, CloserStep DEF IInv, Flags

LEMMA EndCloseInv ==
  ASSUME IInv, NEW x \in Closers, EndClose(x)
  PROVE  IInv'
<1>1. /\ pc[x] = "close" /\ pc' = [pc EXCEPT ![x] = "done"]
      /\ nc' = None /\ js' = None
      /\ strayed' = (strayed \/ (nc # None /\ conn[nc] # "closed"))
      /\ UNCHANGED <<conn, shutdown, drainStarted, closing, lock, subs, reached, leaked, quiet>>
  BY DEF EndClose, Goto, Asking
<1>2. NoStrayConnection'
  BY <1>1, ConnectionsAssumption DEF IInv, NoStrayConnection
<1>3. strayed' \in BOOLEAN
  BY <1>1
<1>4. ClientKept
  BY <1>1, <1>2, <1>3 DEF IInv, TypeOK, Flags, ClientKept, DrainsShutDown, Is
<1>5. InProgress(x)
  BY <1>1 DEF InProgress
<1>6. quiet => shutdown'
  BY <1>1 DEF IInv, QuietClose
<1>7. quiet' \in BOOLEAN
  BY <1>1 DEF IInv, Flags
<1>8. \A k \in Connections : conn[k] \notin Live => conn'[k] \notin Live
  BY <1>1
<1> QED
  BY <1>1, <1>4, <1>5, <1>6, <1>7, <1>8, CloserStep

LEMMA ConnectionInv ==
  ASSUME IInv, NEW k \in Connections, Lose(k) \/ Reconnect(k) \/ GiveUp(k)
  PROVE  IInv'
<1>1. /\ conn[k] \in Live
      /\ \E st \in {"connected", "reconnecting", "closed"} : conn' = [conn EXCEPT ![k] = st]
      /\ UNCHANGED <<nc, shutdown, drainStarted, closing, strayed, lock, pc, subs, reached,
                     leaked, quiet>>
      /\ js' = nc'
  BY DEF Lose, Reconnect, GiveUp, Live, Asking, IInv, TypeOK
<1>2. \A j \in Connections : /\ j # k => conn'[j] = conn[j]
                             /\ conn'[k] \in {"connected", "reconnecting", "closed"}
  BY <1>1 DEF IInv, TypeOK
<1>3. TypeOK' /\ Flags' /\ Places'
  BY <1>1 DEF IInv, TypeOK, Flags, Places, Statuses
<1>4. Subscribed'
  BY <1>1, <1>2 DEF IInv, Subscribed
<1>5. DrainsShutDown' /\ StaysQuiet' /\ QuietClose'
  BY <1>1, <1>2 DEF IInv, TypeOK, DrainsShutDown, StaysQuiet, QuietClose, InProgress, Is
<1>6. ConnectsOnce'
  BY <1>1, <1>2 DEF IInv, TypeOK, ConnectsOnce
<1>7. NoStrayConnection'
  BY <1>1, <1>2 DEF IInv, NoStrayConnection, Live
<1> QED
  BY <1>3, <1>4, <1>5, <1>6, <1>7 DEF IInv

LEMMA NextInv == IInv /\ [Next]_vars => IInv'
<1> SUFFICES ASSUME IInv, [Next]_vars PROVE IInv'
  OBVIOUS
<1>1. ASSUME NEW p \in Publishers, StartPublish(p) \/ PublishStep(p) PROVE IInv'
  BY <1>1, StartPublishInv, CheckDrainingInv, AcquireInv, PublisherConnectsInv, PublishEndsInv
     DEF PublishStep
<1>2. ASSUME NEW a \in Askers, StartAsk(a) \/ AskStep(a) \/ Deliver(a) \/ Answer(a) PROVE IInv'
  BY <1>2, StartAskInv, AskerConnectsInv, SubscribeInv, AskPublishedInv, EndWaitInv, DeliverInv
     DEF AskStep
<1>3. ASSUME NEW x \in Closers, NEW ofPublisher \in BOOLEAN, StartClose(x, ofPublisher) PROVE IInv'
  BY <1>3, StartCloseInv
<1>4. ASSUME NEW x \in Closers, CloseStep(x) PROVE IInv'
  BY <1>4, DrainedInv, EndCloseInv DEF CloseStep
<1>5. ASSUME NEW k \in Connections, Lose(k) \/ Reconnect(k) \/ GiveUp(k) PROVE IInv'
  BY <1>5, ConnectionInv
<1>6. CASE UNCHANGED vars
  BY <1>6 DEF vars, IInv, TypeOK, Flags, Places, Subscribed, DrainsShutDown, ConnectsOnce,
              StaysQuiet, QuietClose, NoStrayConnection, InProgress, Is
<1> QED
  BY <1>1, <1>2, <1>3, <1>4, <1>5, <1>6 DEF Next

-----------------------------------------------------------------------------
\* The inductive invariant holds however the calls take turns.
THEOREM Invariance == Spec => []IInv
BY InitInv, NextInv, PTL DEF Spec

\* The connection and the JetStream context of a client are of one another, and
\* only a call whose publish raised leaves a subscription.
THEOREM TypeCorrect == Spec => []TypeOK
<1>1. IInv => TypeOK
  BY DEF IInv
<1> QED
  BY <1>1, Invariance, PTL

\* A publisher that was closed while nothing was under way stays closed.
THEOREM QuietCloseIsFinal == Spec => []QuietClose
<1>1. IInv => QuietClose
  BY DEF IInv
<1> QED
  BY <1>1, Invariance, PTL

\* A connection nobody refers to any more comes only of a connect that overlapped
\* another or close, or that replaced a reconnecting one.
THEOREM OnlyStraysLeak == Spec => []NoStrayConnection
<1>1. IInv => NoStrayConnection
  BY DEF IInv
<1> QED
  BY <1>1, Invariance, PTL

\* While its connection is up, a call that still waits hears its answer: the
\* subscription stands before the message is published.
THEOREM AnswersAreHeard == Spec => AnswerIsHeard
<1>1. IInv => StepHears
  <2> SUFFICES ASSUME IInv, NEW a \in Askers, Answer(a), pc[a] # "done",
                      \A k \in Connections : conn[k] \in {"unused", "connected"}
               PROVE  a \in heard'
    BY DEF StepHears
  <2>1. a \in reached /\ heard' = IF subs[a] # None /\ conn[subs[a]] = "connected"
                                  THEN heard \cup {a} ELSE heard
    BY DEF Answer
  <2>2. subs[a] # None /\ subs[a] \in Connections /\ conn[subs[a]] # "unused"
    BY <2>1 DEF IInv, Subscribed
  <2> QED
    BY <2>1, <2>2
<1> QED
  BY <1>1, Invariance, PTL DEF Spec, AnswerIsHeard
=============================================================================

---------------------------- MODULE NatsConnection ----------------------------
(***************************************************************************)
(* NATSClient and NatsPublisher in one event loop.  Calls of publish, of   *)
(* publish_and_wait_for_ack and of close take turns at their awaits, while *)
(* connections are lost, come back or are given up.  A step is what a call *)
(* does from one await to the next.  The library, the broker and the agent *)
(* are external.                                                           *)
(***************************************************************************)
EXTENDS Naturals, FiniteSets

CONSTANTS
  Publishers,   \* calls of NatsPublisher.publish
  Askers,       \* calls of publish_and_wait_for_ack
  Closers,      \* calls of close: of the publisher's or the client's
  Connections,  \* bound: connections that can be made
  Retries,      \* attempts of publish
  MaxLosses,    \* bound: connections lost
  None

ASSUME RetriesAssumption == Retries \in Nat \ {0} /\ MaxLosses \in Nat

\* Connections are numbered in the order in which they are made.
ASSUME ConnectionsAssumption == Connections \subseteq Nat /\ None \notin Connections

\* A call is of one kind.
ASSUME CallsAssumption ==
  /\ Publishers \cap Askers = {} /\ Publishers \cap Closers = {} /\ Askers \cap Closers = {}

VARIABLES
  conn,      \* status of each connection
  nc, js,    \* the client's connection, and the one its JetStream context is of
  shutdown, drainStarted, closing,  \* _shutdown, _drain_started, publisher._closing
  lock,      \* the call that holds _publish_lock, or None
  pc,        \* the await each call is at
  attempt,   \* attempt of each publish
  using,     \* the JetStream context a call publishes with
  subs,      \* the connection each asker has subscribed on, or None
  reached,   \* messages of askers the agent has
  heard,     \* askers whose future is set
  leaked,    \* askers whose publish raised after they had subscribed
  losses,    \* connections lost so far
  strayed,   \* history: a connect began while another was in progress or while the
             \* old connection was reconnecting, or overlapped with close
  quiet      \* history: publisher.close found no call in progress, and no connection
             \* that came back after the client had been shut down

vars == <<conn, nc, js, shutdown, drainStarted, closing, lock, pc, attempt, using, subs,
          reached, heard, leaked, losses, strayed, quiet>>

Calls == Publishers \cup Askers \cup Closers

Client == <<conn, nc, js, shutdown, drainStarted, closing, strayed>>
Asking == <<subs, reached, heard, leaked>>

Statuses == {"unused", "connected", "reconnecting", "draining", "closed"}
Waits == {"idle", "check", "lock", "connect", "publish", "nap", "ensure", "subscribe",
          "wait", "drain", "close", "done"}

Is(status) == nc # None /\ conn[nc] = status

-----------------------------------------------------------------------------
Init ==
  /\ conn = [k \in Connections |-> "unused"]
  /\ nc = None /\ js = None
  /\ shutdown = FALSE /\ drainStarted = FALSE /\ closing = FALSE
  /\ lock = None
  /\ pc = [c \in Calls |-> "idle"]
  /\ attempt = [p \in Publishers |-> 0]
  /\ using = [c \in Calls |-> None]
  /\ subs = [a \in Askers |-> None]
  /\ reached = {} /\ heard = {} /\ leaked = {}
  /\ losses = 0
  /\ strayed = FALSE
  /\ quiet = FALSE

Goto(c, wait) == pc' = [pc EXCEPT ![c] = wait]

Forget(c) == using' = [using EXCEPT ![c] = None]

InProgress(c) == pc[c] \notin {"idle", "done"}

IsDraining == drainStarted \/ Is("closed") \/ Is("draining")

IsReady == ~shutdown /\ Is("connected") /\ ~IsDraining

\* Mutants: connect is called although there is a connection; after shutdown too.
NeverConnected == FALSE
ShutdownIgnored == TRUE

\* ensure_connected: nothing to do.
HasConnection == Is("connected")

\* connect raises once the client is shut down.
MayConnect == ~shutdown

\* connect up to its await, from a call that then waits at "connect".
BeginConnect(c) ==
  /\ MayConnect
  /\ Goto(c, "connect")
  /\ strayed' = (strayed \/ Is("reconnecting") \/ \E d \in Calls : pc[d] = "connect")
  /\ UNCHANGED <<conn, nc, js, shutdown, drainStarted, closing>>

\* nats.connect returns: the connection becomes the client's, whatever happened
\* to the client since.
Connected(k) ==
  /\ conn[k] = "unused" /\ \A j \in Connections : conn[j] = "unused" => ~(j < k)
  /\ conn' = [conn EXCEPT ![k] = "connected"]
  /\ nc' = k /\ js' = k
  /\ drainStarted' = FALSE
  /\ strayed' = (strayed \/ shutdown)
  /\ UNCHANGED <<shutdown, closing>>

-----------------------------------------------------------------------------
(* NatsPublisher.publish *)

StartPublish(p) ==
  /\ pc[p] = "idle"
  /\ IF closing THEN Goto(p, "done") /\ UNCHANGED attempt
     ELSE Goto(p, "check") /\ attempt' = [attempt EXCEPT ![p] = 1]
  /\ UNCHANGED <<Client, lock, using, Asking, losses, quiet>>

\* _recover_connection: a closed connection is dropped, and the client is no
\* longer shut down.
Recover ==
  IF Is("closed")
  THEN /\ nc' = None /\ js' = None
       /\ shutdown' = FALSE /\ drainStarted' = FALSE
       /\ UNCHANGED <<conn, closing, strayed>>
  ELSE UNCHANGED Client

\* The head of the loop: a draining connection is handled without the lock.
CheckDraining(p) ==
  /\ pc[p] = "check"
  /\ IF IsDraining THEN Recover /\ Goto(p, "nap") ELSE UNCHANGED Client /\ Goto(p, "lock")
  /\ UNCHANGED <<lock, attempt, using, Asking, losses, quiet>>

\* _ensure_ready_for_publish when the lock is acquired, and js.publish if it is.
Acquire(p) ==
  /\ pc[p] = "lock" /\ lock = None
  /\ lock' = p
  /\ \/ /\ IsReady
        /\ Goto(p, "publish") /\ using' = [using EXCEPT ![p] = js]
        /\ UNCHANGED Client
     \/ /\ ~IsReady /\ ~HasConnection
        /\ BeginConnect(p) /\ UNCHANGED using
     \/ /\ ~IsReady /\ (HasConnection \/ ~MayConnect)
        /\ Goto(p, "nap") /\ UNCHANGED <<Client, using>>
  /\ UNCHANGED <<attempt, Asking, losses, quiet>>

PublisherConnects(p) ==
  /\ p \in Publishers /\ pc[p] = "connect"
  /\ \/ /\ \E k \in Connections : Connected(k)
        /\ IF IsReady' THEN Goto(p, "publish") /\ using' = [using EXCEPT ![p] = js']
           ELSE Goto(p, "nap") /\ UNCHANGED using
     \/ Goto(p, "nap") /\ UNCHANGED <<Client, using>>
  /\ UNCHANGED <<lock, attempt, Asking, losses, quiet>>

Published(p) ==
  /\ p \in Publishers /\ pc[p] = "publish" /\ conn[using[p]] = "connected"
  /\ Goto(p, "done") /\ Forget(p) /\ lock' = None
  /\ UNCHANGED <<Client, attempt, Asking, losses, quiet>>

\* js.publish raises, or its five seconds are over.
PublishFails(p) ==
  /\ p \in Publishers /\ pc[p] = "publish"
  /\ IF attempt[p] < Retries
     THEN Recover /\ Goto(p, "nap") /\ UNCHANGED lock
     ELSE UNCHANGED Client /\ Goto(p, "done") /\ lock' = None
  /\ Forget(p)
  /\ UNCHANGED <<attempt, Asking, losses, quiet>>

\* Mutant: the lock is kept from one attempt to the next.
KeepLock(p) == lock

\* continue leaves the async with block.
Release(p) == IF lock = p THEN None ELSE lock

\* The backoff ends, with the lock if it was held.
WakeUp(p) ==
  /\ pc[p] = "nap"
  /\ lock' = Release(p)
  /\ IF attempt[p] < Retries
     THEN Goto(p, "check") /\ attempt' = [attempt EXCEPT ![p] = @ + 1]
     ELSE Goto(p, "done") /\ UNCHANGED attempt
  /\ UNCHANGED <<Client, using, Asking, losses, quiet>>

-----------------------------------------------------------------------------
(* publish_and_wait_for_ack: it does not take the lock. *)

\* Mutant: the subscription comes after the message.
PublishFirst == <<"publish", "subscribe", "wait">>

AskSteps == <<"subscribe", "publish", "wait">>

After(step) == AskSteps[(CHOOSE i \in 1 .. 3 : AskSteps[i] = step) + 1]

\* ensure_connected, and the JetStream context that will be used.
StartAsk(a) ==
  /\ pc[a] = "idle"
  /\ \/ /\ HasConnection
        /\ Goto(a, AskSteps[1]) /\ using' = [using EXCEPT ![a] = js]
        /\ UNCHANGED Client
     \/ ~HasConnection /\ BeginConnect(a) /\ UNCHANGED using
     \/ /\ ~HasConnection /\ ~MayConnect
        /\ Goto(a, "done") /\ UNCHANGED <<Client, using>>
  /\ UNCHANGED <<lock, attempt, Asking, losses, quiet>>

AskerConnects(a) ==
  /\ a \in Askers /\ pc[a] = "connect"
  /\ \/ /\ \E k \in Connections : Connected(k)
        /\ Goto(a, AskSteps[1]) /\ using' = [using EXCEPT ![a] = js']
     \/ Goto(a, "done") /\ UNCHANGED <<Client, using>>
  /\ UNCHANGED <<lock, attempt, Asking, losses, quiet>>

\* The subscription is made on the client's connection of that moment.
Subscribe(a) ==
  /\ pc[a] = "subscribe"
  /\ IF nc # None /\ conn[nc] \in {"connected", "reconnecting"}
     THEN Goto(a, After("subscribe")) /\ subs' = [subs EXCEPT ![a] = nc] /\ UNCHANGED using
     ELSE Goto(a, "done") /\ Forget(a) /\ UNCHANGED subs
  /\ UNCHANGED <<Client, lock, attempt, reached, heard, leaked, losses, quiet>>

\* The broker has the message; its confirmation is still awaited.
Deliver(a) ==
  /\ pc[a] = "publish" /\ conn[using[a]] = "connected"
  /\ reached' = reached \cup {a}
  /\ UNCHANGED <<Client, lock, pc, attempt, using, subs, heard, leaked, losses, quiet>>

AskPublished(a) ==
  /\ pc[a] = "publish" /\ a \in reached /\ conn[using[a]] = "connected"
  /\ Goto(a, After("publish")) /\ Forget(a)
  /\ UNCHANGED <<Client, lock, attempt, Asking, losses, quiet>>

\* The publish stands before the try: nothing unsubscribes.
AskFails(a) ==
  /\ a \in Askers /\ pc[a] = "publish"
  /\ Goto(a, "done") /\ Forget(a)
  /\ leaked' = IF subs[a] # None THEN leaked \cup {a} ELSE leaked
  /\ UNCHANGED <<Client, lock, attempt, subs, reached, heard, losses, quiet>>

\* The answer of the agent sets the future of whoever is subscribed.
Answer(a) ==
  /\ a \in reached
  /\ reached' = reached \ {a}
  /\ heard' = IF subs[a] # None /\ conn[subs[a]] = "connected" THEN heard \cup {a} ELSE heard
  /\ UNCHANGED <<Client, lock, pc, attempt, using, subs, leaked, losses, quiet>>

\* Mutant: a wait that ends leaves its subscription.
KeepSubscription(a) == subs

Unsubscribe(a) == [subs EXCEPT ![a] = None]

\* The future is set or the timeout is over; finally unsubscribe.
EndWait(a) ==
  /\ pc[a] = "wait"
  /\ Goto(a, "done")
  /\ subs' = Unsubscribe(a)
  /\ UNCHANGED <<Client, lock, attempt, using, reached, heard, leaked, losses, quiet>>

-----------------------------------------------------------------------------
(* close, of the publisher or, as when the application ends, of the client.  *)

StartClose(x, ofPublisher) ==
  /\ pc[x] = "idle"
  /\ closing' = (closing \/ ofPublisher)
  /\ quiet' = (quiet \/ /\ ofPublisher /\ ~closing /\ (shutdown => nc = None)
                         /\ \A c \in Calls : ~InProgress(c))
  /\ IF shutdown \/ (ofPublisher /\ closing)
     THEN UNCHANGED <<conn, shutdown, drainStarted>> /\ Goto(x, "done")
     ELSE /\ shutdown' = TRUE /\ drainStarted' = TRUE
          /\ IF nc = None THEN Goto(x, "done") /\ UNCHANGED conn
             ELSE /\ conn' = IF Is("connected") THEN [conn EXCEPT ![nc] = "draining"] ELSE conn
                  /\ Goto(x, "drain")
  /\ UNCHANGED <<nc, js, strayed, lock, attempt, using, Asking, losses>>

\* The drain is over or has failed; whichever connection the client has now is
\* closed next.
Drained(x) ==
  /\ pc[x] = "drain"
  /\ conn' = IF nc = None THEN conn ELSE [conn EXCEPT ![nc] = "closed"]
  /\ Goto(x, "close")
  /\ UNCHANGED <<nc, js, shutdown, drainStarted, closing, strayed, lock, attempt, using, Asking,
                 losses, quiet>>

EndClose(x) ==
  /\ pc[x] = "close"
  /\ nc' = None /\ js' = None
  /\ strayed' = (strayed \/ (nc # None /\ conn[nc] # "closed"))
  /\ Goto(x, "done")
  /\ UNCHANGED <<conn, shutdown, drainStarted, closing, lock, attempt, using, Asking,
                 losses, quiet>>

-----------------------------------------------------------------------------
(* Connections (external).  Draining ends with a closed connection before    *)
(* the call that drains hears of it.                                         *)

Lose(k) ==
  /\ conn[k] = "connected" /\ losses < MaxLosses
  /\ losses' = losses + 1
  /\ conn' = [conn EXCEPT ![k] = "reconnecting"]
  /\ UNCHANGED <<nc, js, shutdown, drainStarted, closing, strayed, lock, pc, attempt, using,
                 Asking, quiet>>

\* reconnected_cb: the context of the client's connection, whichever came back.
Reconnect(k) ==
  /\ conn[k] = "reconnecting"
  /\ conn' = [conn EXCEPT ![k] = "connected"]
  /\ js' = IF nc = None THEN js ELSE nc
  /\ UNCHANGED <<nc, shutdown, drainStarted, closing, strayed, lock, pc, attempt, using,
                 Asking, losses, quiet>>

\* max_reconnect_attempts, or the end of a drain.
GiveUp(k) ==
  /\ conn[k] \in {"reconnecting", "draining"}
  /\ conn' = [conn EXCEPT ![k] = "closed"]
  /\ UNCHANGED <<nc, js, shutdown, drainStarted, closing, strayed, lock, pc, attempt, using,
                 Asking, losses, quiet>>

-----------------------------------------------------------------------------
PublishStep(p) ==
  \/ CheckDraining(p) \/ Acquire(p) \/ PublisherConnects(p) \/ Published(p)
  \/ PublishFails(p) \/ WakeUp(p)

AskStep(a) == AskerConnects(a) \/ Subscribe(a) \/ AskPublished(a) \/ AskFails(a) \/ EndWait(a)

CloseStep(x) == Drained(x) \/ EndClose(x)

Next ==
  \/ \E p \in Publishers : StartPublish(p) \/ PublishStep(p)
  \/ \E a \in Askers : StartAsk(a) \/ AskStep(a) \/ Deliver(a) \/ Answer(a)
  \/ \E x \in Closers, ofPublisher \in BOOLEAN : StartClose(x, ofPublisher)
  \/ \E x \in Closers : CloseStep(x)
  \/ \E k \in Connections : Lose(k) \/ Reconnect(k) \/ GiveUp(k)

Spec == Init /\ [][Next]_vars

\* Awaits end: connect and publish have timeouts, drain too, naps are short.
FairSpec ==
  /\ Spec
  /\ \A p \in Publishers : WF_vars(PublishStep(p))
  /\ \A a \in Askers : WF_vars(AskStep(a))
  /\ \A x \in Closers : WF_vars(CloseStep(x))

-----------------------------------------------------------------------------
\* nc and js are of one connection; a subscription is left only by a call whose
\* publish raised.
TypeOK ==
  /\ conn \in [Connections -> Statuses]
  /\ nc \in Connections \cup {None} /\ js = nc
  /\ pc \in [Calls -> Waits]
  /\ \A a \in Askers : subs[a] # None /\ pc[a] = "done" => a \in leaked
  /\ lock \in Publishers \cup {None}

\* An answer that comes while the call waits and no connection is down is heard,
\* also when it comes before the publish is confirmed.
StepHears ==
  \A a \in Askers :
    /\ Answer(a) /\ pc[a] # "done"
    /\ \A k \in Connections : conn[k] \in {"unused", "connected"}
    => a \in heard'

AnswerIsHeard == [][StepHears]_vars

\* After a close of the publisher that met no call the client stays shut down,
\* and no later call brings a connection back.  (On a client that was shut down
\* before, it closes nothing: a connect still in progress then had left one open.)
QuietClose ==
  quiet => shutdown /\ ((\A x \in Closers : ~InProgress(x)) => nc = None)

\* No connection is open beside the client's, unless a connect overlapped with
\* another or with close, or replaced a connection that was about to come back.
NoStrayConnection ==
  ~strayed => \A k \in Connections :
                conn[k] \in {"connected", "reconnecting", "draining"} => k = nc

\* Every call returns or raises: no attempt keeps the lock, no wait lasts.
CallsEnd == <>[](\A c \in Calls : ~InProgress(c))
=============================================================================

--------------------------- MODULE Microcontrollers ---------------------------
(***************************************************************************)
(* MicrocontrollerService: the row of one microcontroller, the copies of   *)
(* its limit and sensors in its config column and in the agent's files,    *)
(* and the requests that change them.  The sessions of requests overlap:   *)
(* each loads the row, then commits what it changed.  A command to the     *)
(* agent is awaited with no row locked.                                    *)
(* The operations on the power provider are in PowerProviders, those on    *)
(* devices in DeviceRequests.                                              *)
(***************************************************************************)
EXTENDS Integers, Sequences, FiniteSets, Functions

CONSTANTS
  Requests,   \* HTTP requests; each is made at most once
  Jobs,       \* what a request may ask for
  Users,      \* owners
  Sensors,    \* sensor types
  Limits,     \* values of max_devices
  Versions,   \* what the rest of a config or of the agent's files may be
  None,       \* no value, not registered yet
  Gone        \* the microcontroller was deleted

ASSUME LimitsArePositive == Limits \subseteq Nat \ {0} /\ Limits # {}
ASSUME VersionsAssumption == Versions # {}

VARIABLES
  row,      \* the committed row, None or Gone
  agent,    \* the agent's files
  net,      \* commands the agent has not handled yet, in order
  handled,  \* commands the agent has carried out
  job, pc,
  mine,     \* the row as the session of a request holds it
  files,    \* the agent's files as a request has read them
  inbox,    \* the acknowledgement a request has received
  outcome,  \* how a request ended
  overlap,  \* history: two sessions have had the row loaded to change it
  alone     \* history: the last request, if nothing has overlapped it

request == <<job, pc, mine, files, inbox, outcome>>
vars == <<row, agent, net, handled, request, overlap, alone>>

Capability == [type : Sensors, by : Requests \cup {None}]
Config == [max : Limits, sensors : SUBSET Sensors, rest : Versions]
Row == [user : Users \cup {None}, max : Limits, caps : SUBSET Capability, config : Config]
Files == [max : Limits, sensors : SUBSET Sensors, rest : Versions]

\* What the agent answers with; only files that were asked for and are complete.
Acknowledgement == [ok : BOOLEAN, files : Files \cup {None}]

\* How a request ends: acknowledged or committed, refused or rejected, or unanswered.
Endings == {"ok", "invalid", "failed", "timeout"}

\* No row, no files, no answer and no ending is none of them.
ASSUME NullAssumption ==
  None \notin Row \cup Files \cup Acknowledgement \cup Endings \cup {Gone} /\ Gone \notin Row

Stored == row \notin {None, Gone}

\* assigned_sensors
Types(caps) == {c.type : c \in caps}
\* A capability row has an id of its own, so one written again is another row.
Capabilities(r, sensors) == {[type |-> s, by |-> r] : s \in Range(sensors)}

\* _sync_microcontroller_config: the copies in the config column.
SyncConfig(w) == [w EXCEPT !.config.max = w.max, !.config.sensors = Types(w.caps)]

\* _normalize_and_validate_sensors
ValidSensors(sensors) == IsInjective(sensors)

\* ADMIN_UPDATE_FIELDS; no field of USER_UPDATE_FIELDS is modelled.
SetFields(w, j) ==
  IF j.by # "admin" THEN w
  ELSE [w EXCEPT !.max = IF j.max = None THEN @ ELSE j.max,
                 !.user = IF j.user = None THEN @ ELSE j.user]

\* The row as the session of an update leaves it.
Updated(r, w, j) ==
  LET set == SetFields(w, j) IN
  SyncConfig(IF j.sensors = None THEN set
             ELSE [set EXCEPT !.caps = Capabilities(r, j.sensors)])

\* A flush writes the columns that differ from the loaded ones, deletes the
\* capabilities it has cleared by their ids and inserts the new ones.
Flushed(old, new) ==
  [f \in DOMAIN row |->
     IF f = "caps" THEN (row.caps \ (old.caps \ new.caps)) \cup (new.caps \ old.caps)
     ELSE IF new[f] = old[f] THEN row[f] ELSE new[f]]

\* uq_microcontroller_sensor_capability: two sessions insert the same sensor.
Duplicated(caps) == \E c, d \in caps : c # d /\ c.type = d.type

-----------------------------------------------------------------------------
NewConfig == [max |-> CHOOSE m \in Limits : TRUE, sensors |-> {},
              rest |-> CHOOSE v \in Versions : TRUE]

\* A microcontroller stored before, with no sensors yet; its agent agrees.
Existing(u, m) == SyncConfig([user |-> u, max |-> m, caps |-> {}, config |-> NewConfig])

Init ==
  /\ row \in {None} \cup {Existing(u, m) : u \in Users, m \in Limits}
  /\ agent = IF Stored THEN [max |-> row.max, sensors |-> {}, rest |-> row.config.rest]
             ELSE NewConfig
  /\ net = <<>> /\ handled = {}
  /\ job = [r \in Requests |-> None]
  /\ pc = [r \in Requests |-> "idle"]
  /\ mine = [r \in Requests |-> None]
  /\ files = [r \in Requests |-> None]
  /\ inbox = [r \in Requests |-> None]
  /\ outcome = [r \in Requests |-> None]
  /\ overlap = FALSE /\ alone = {}

RowJobs == {"register", "update", "config", "delete"}

\* What a request may ask for: fields of an update that are not set are None.
RegisterRequest(user, max, sensors) ==
  [op |-> "register", by |-> user, max |-> max, sensors |-> sensors]

UpdateRequest(by, max, user, sensors, sync) ==
  [op |-> "update", by |-> by, max |-> max, user |-> user, sensors |-> sensors, sync |-> sync]

ConfigRequest(rest, max) == [op |-> "config", by |-> "admin", rest |-> rest, max |-> max]

\* Every job is one of these or a command to the agent, on values the schemas admit.
ASSUME JobsAssumption ==
  \A r \in Requests : \A j \in Jobs[r] :
    /\ j.op \in RowJobs \cup {"read", "write", "restart"}
    /\ j.op = "register" => j.by \in Users /\ j.max \in Limits /\ Range(j.sensors) \subseteq Sensors
    /\ j.op = "update" => /\ j.max \in Limits \cup {None} /\ j.user \in Users \cup {None}
                          /\ j.sensors # None => Range(j.sensors) \subseteq Sensors
    /\ j.op = "config" => j.rest \in Versions
    /\ j.op = "write" => j.files \in Files

\* Who finds the microcontroller: get_by_id or get_for_user_by_uuid.
Finds(j) ==
  IF j.op = "register" THEN row = None
  ELSE Stored /\ j.by \in {"admin", row.user}

\* The session of a request loads the row; a request that finds none is refused.
Begin(r) ==
  /\ pc[r] = "idle"
  /\ \E j \in Jobs[r] : Finds(j) /\ job' = [job EXCEPT ![r] = j]
  /\ pc' = [pc EXCEPT ![r] = IF job'[r].op \in RowJobs THEN "loaded" ELSE "publish"]
  /\ mine' = [mine EXCEPT ![r] = row]
  /\ LET others == {q \in Requests \ {r} : pc[q] \notin {"idle", "done"}} IN
     /\ overlap' = (overlap \/ (job'[r].op \in RowJobs /\ \E q \in others : pc[q] = "loaded"))
     /\ alone' = IF others = {} /\ net = <<>> THEN {r} ELSE {}
  /\ UNCHANGED <<row, agent, net, handled, files, inbox, outcome>>

Ended(r, how) ==
  /\ pc' = [pc EXCEPT ![r] = "done"]
  /\ outcome' = [outcome EXCEPT ![r] = how]
  /\ mine' = [mine EXCEPT ![r] = None]
  /\ inbox' = [inbox EXCEPT ![r] = None]
  /\ UNCHANGED <<agent, net, handled, job, files, overlap, alone>>

\* _register_microcontroller: the row, and at a second flush its config.
Register(r) ==
  /\ pc[r] = "loaded" /\ job[r].op = "register"
  /\ LET j == job[r] IN
     IF ValidSensors(j.sensors)
     THEN /\ row' = SyncConfig([user |-> j.by, max |-> j.max,
                                caps |-> Capabilities(r, j.sensors), config |-> NewConfig])
          /\ Ended(r, "ok")
     ELSE UNCHANGED row /\ Ended(r, "invalid")

\* _update_microcontroller.  A host that brings the agent up to date goes on
\* with the refreshed object.
Update(r) ==
  /\ pc[r] = "loaded" /\ job[r].op = "update"
  /\ job[r].sensors # None => ValidSensors(job[r].sensors)
  /\ Stored
  /\ LET new == Updated(r, mine[r], job[r]) IN
     /\ ~Duplicated(Flushed(mine[r], new).caps)
     /\ row' = Flushed(mine[r], new)
  /\ IF job[r].sync
     THEN /\ mine' = [mine EXCEPT ![r] = row']
          /\ pc' = [pc EXCEPT ![r] = "publish"]
          /\ UNCHANGED <<agent, net, handled, job, files, inbox, outcome, overlap, alone>>
     ELSE Ended(r, "ok")

\* An update that is refused, finds the row deleted or loses to a unique index
\* writes nothing.
UpdateFails(r) ==
  /\ pc[r] = "loaded" /\ job[r].op = "update"
  /\ \/ job[r].sensors # None /\ ~ValidSensors(job[r].sensors)
     \/ ~Stored
     \/ Stored /\ Duplicated(Flushed(mine[r], Updated(r, mine[r], job[r])).caps)
  /\ UNCHANGED row
  /\ Ended(r, "failed")

\* Mutant: the request may replace device_max too.
ConfigWithLimit(config, j) ==
  [config EXCEPT !.rest = j.rest, !.max = IF j.max = None THEN @ ELSE j.max]

\* update_microcontroller_config drops uuid and device_max from the request.
ConfigUpdated(config, j) == [config EXCEPT !.rest = j.rest]

\* The whole JSON document is written.  Other services that edit the config
\* column of a row they have loaded do the same.
UpdateConfig(r) ==
  /\ pc[r] = "loaded" /\ job[r].op = "config"
  /\ IF Stored
     THEN /\ row' = Flushed(mine[r], [mine[r] EXCEPT !.config = ConfigUpdated(@, job[r])])
          /\ Ended(r, "ok")
     ELSE UNCHANGED row /\ Ended(r, "failed")

\* delete_for_user, delete_by_id.  The agent is not told.
Delete(r) ==
  /\ pc[r] = "loaded" /\ job[r].op = "delete"
  /\ row' = Gone
  /\ Ended(r, "ok")

-----------------------------------------------------------------------------
(* Commands to the agent. *)

\* The command a request sends next: a sync reads the files, then writes them.
Command(r) ==
  CASE job[r].op = "update" -> IF files[r] = None THEN "read" ELSE "write"
    [] OTHER -> job[r].op

\* Mutant: the sync rebuilds the files from the config column.
FilesFromConfig(r) ==
  [max |-> mine[r].max, sensors |-> IF Stored THEN Types(row.caps) ELSE {},
   rest |-> mine[r].config.rest]

\* sync_agent_config_from_microcontroller: the files it has read, with the limit
\* of the session's object and the sensors, which its refresh left to be loaded.
SyncedFiles(r) ==
  [files[r] EXCEPT !.max = mine[r].max,
                   !.sensors = IF Stored THEN Types(row.caps) ELSE {}]

Publish(r) ==
  /\ pc[r] = "publish"
  /\ net' = Append(net,
       [id |-> <<r, Command(r)>>, command |-> Command(r),
        files |-> IF Command(r) # "write" THEN None
                  ELSE IF job[r].op = "update" THEN SyncedFiles(r) ELSE job[r].files])
  /\ pc' = [pc EXCEPT ![r] = "waiting"]
  /\ UNCHANGED <<row, agent, handled, job, mine, files, inbox, outcome, overlap, alone>>

\* Mutant: any acknowledgement of the microcontroller will do.
AnyAcknowledgement(r, id) == TRUE

\* _ack_command_id: the predicate of the wait.
Acknowledges(r, id) == id = <<r, Command(r)>>

\* The agent carries out or rejects the oldest command.  Its acknowledgement may
\* be lost; one of an older agent lacks the files.
AgentHandles ==
  /\ net # <<>>
  /\ LET m == Head(net) IN
     \E ok, complete, lost \in BOOLEAN :
       LET answer == [ok |-> ok, files |-> IF m.command = "read" /\ ok /\ complete
                                           THEN agent ELSE None] IN
       /\ agent' = IF ok /\ m.command = "write" THEN m.files ELSE agent
       /\ handled' = IF ok THEN handled \cup {m.id} ELSE handled
       /\ inbox' = [r \in Requests |->
            IF ~lost /\ pc[r] = "waiting" /\ inbox[r] = None /\ Acknowledges(r, m.id)
            THEN answer ELSE inbox[r]]
  /\ net' = Tail(net)
  /\ UNCHANGED <<row, job, pc, mine, files, outcome, overlap, alone>>

\* A rejected command: 400.  Files that are incomplete: 502 or 409.
AgentRefuses(r) ==
  /\ pc[r] = "waiting" /\ inbox[r] # None
  /\ ~inbox[r].ok \/ (Command(r) = "read" /\ inbox[r].files = None)
  /\ UNCHANGED row
  /\ Ended(r, "failed")

\* The sync has the files: on to its second command.
FilesRead(r) ==
  /\ pc[r] = "waiting" /\ inbox[r] # None
  /\ job[r].op = "update" /\ Command(r) = "read" /\ inbox[r].files # None
  /\ files' = [files EXCEPT ![r] = inbox[r].files]
  /\ inbox' = [inbox EXCEPT ![r] = None]
  /\ pc' = [pc EXCEPT ![r] = "publish"]
  /\ UNCHANGED <<row, agent, net, handled, job, mine, outcome, overlap, alone>>

\* get_agent_config_files, update_agent_config_files, reboot_agent, update_agent,
\* and the end of a sync.
Acknowledged(r) ==
  /\ pc[r] = "waiting" /\ inbox[r] # None /\ inbox[r].ok
  /\ IF Command(r) = "read"
     THEN job[r].op = "read" /\ inbox[r].files # None
     ELSE TRUE
  /\ UNCHANGED row
  /\ Ended(r, "ok")

\* 15 seconds without an acknowledgement: 504.  The command stays in the stream.
Timeout(r) ==
  /\ pc[r] = "waiting" /\ inbox[r] = None
  /\ UNCHANGED row
  /\ Ended(r, "timeout")

Next ==
  \/ AgentHandles
  \/ \E r \in Requests :
       \/ Begin(r) \/ Register(r) \/ Update(r) \/ UpdateFails(r)
       \/ UpdateConfig(r) \/ Delete(r)
       \/ Publish(r) \/ AgentRefuses(r) \/ FilesRead(r) \/ Acknowledged(r) \/ Timeout(r)

Spec == Init /\ [][Next]_vars

-----------------------------------------------------------------------------
Agree(w) == w.config.max = w.max /\ w.config.sensors = Types(w.caps)

\* The config column of the row repeats its limit and its sensors as long as no
\* two sessions had it loaded at once to change it, whatever waits for the agent,
\* and again after every update that had the microcontroller to itself.
CopiesAgree ==
  Stored /\ (~overlap \/ \E r \in alone : outcome[r] = "ok" /\ job[r].op \in {"register", "update"})
    => Agree(row)

\* A sync that had the microcontroller to itself and was acknowledged leaves the
\* agent with the row's limit and sensors, and everything else in its files as
\* it was read.
SyncIsExact ==
  \A r \in alone : outcome[r] = "ok" /\ job[r].op = "update" /\ job[r].sync =>
    agent = [files[r] EXCEPT !.max = row.max, !.sensors = Types(row.caps)]

\* Whatever else is under way, a request that reports success was carried out by
\* the agent: an acknowledgement of another request never stands for its own.
OkWasCarriedOut ==
  \A r \in Requests :
    outcome[r] = "ok" /\ (job[r].op \in {"read", "write", "restart"}
                          \/ (job[r].op = "update" /\ job[r].sync))
      => <<r, Command(r)>> \in handled
=============================================================================

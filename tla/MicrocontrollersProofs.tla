------------------------ MODULE MicrocontrollersProofs ------------------------
(***************************************************************************)
(* The copies of a microcontroller's limit and sensors, for every number   *)
(* of requests, sensors and limits and whatever the requests ask for.      *)
(***************************************************************************)
EXTENDS Microcontrollers, TLAPS, SequenceTheorems

(* What the operators on rows return. *)

LEMMA TypesAreSensors ==
  ASSUME NEW caps \in SUBSET Capability
  PROVE  Types(caps) \subseteq Sensors
BY DEF Types, Capability

LEMMA CapabilitiesAreTyped ==
  ASSUME NEW r \in Requests, NEW s, Range(s) \subseteq Sensors
  PROVE  Capabilities(r, s) \subseteq Capability
BY DEF Capabilities, Capability

\* The copies are those of the row that is copied, which stays what it is.
LEMMA SyncConfigAgrees ==
  ASSUME NEW w \in Row
  PROVE  SyncConfig(w) \in Row /\ Agree(SyncConfig(w))
<1>1. Types(w.caps) \subseteq Sensors
  BY TypesAreSensors DEF Row
<1> DEFINE T == Types(w.caps)
<1> HIDE DEF T
<1>2. /\ w = [user |-> w.user, max |-> w.max, caps |-> w.caps, config |-> w.config]
      /\ w.user \in Users \cup {None} /\ w.max \in Limits /\ w.caps \in SUBSET Capability
      /\ w.config = [max |-> w.config.max, sensors |-> w.config.sensors, rest |-> w.config.rest]
      /\ w.config.rest \in Versions
  BY DEF Row, Config
<1> DEFINE v == [w EXCEPT !.config.max = w.max]
<1>4. v = [user |-> w.user, max |-> w.max, caps |-> w.caps,
           config |-> [max |-> w.max, sensors |-> w.config.sensors, rest |-> w.config.rest]]
  BY <1>2
<1>5. SyncConfig(w) = [v EXCEPT !.config.sensors = T]
  BY DEF SyncConfig, T
<1> HIDE DEF v
<1>3. SyncConfig(w) =
        [user |-> w.user, max |-> w.max, caps |-> w.caps,
         config |-> [max |-> w.max, sensors |-> T, rest |-> w.config.rest]]
  BY <1>4, <1>5
<1> QED
  BY <1>1, <1>2, <1>3 DEF Row, Config, Agree, T

LEMMA NewConfigIsTyped == NewConfig \in Config /\ NewConfig \in Files
<1>1. (CHOOSE m \in Limits : TRUE) \in Limits /\ (CHOOSE v \in Versions : TRUE) \in Versions
  BY LimitsArePositive, VersionsAssumption
<1> QED
  BY <1>1 DEF NewConfig, Config, Files

LEMMA UpdatedAgrees ==
  ASSUME NEW r \in Requests, NEW j \in Jobs[r], j.op = "update", NEW w \in Row
  PROVE  Updated(r, w, j) \in Row /\ Agree(Updated(r, w, j))
<1> DEFINE set == SetFields(w, j)
           new == IF j.sensors = None THEN set
                  ELSE [set EXCEPT !.caps = Capabilities(r, j.sensors)]
<1>1. /\ j.max \in Limits \cup {None} /\ j.user \in Users \cup {None}
      /\ j.sensors # None => Range(j.sensors) \subseteq Sensors
  BY JobsAssumption
<1>2. set \in Row
  BY <1>1 DEF SetFields, Row
<1>3. j.sensors # None => Capabilities(r, j.sensors) \subseteq Capability
  BY <1>1, CapabilitiesAreTyped
<1> HIDE DEF set
<1>4. new \in Row
  BY <1>2, <1>3 DEF Row
<1>5. Updated(r, w, j) = SyncConfig(new)
  BY DEF Updated, set
<1> HIDE DEF new
<1> QED
  BY <1>4, <1>5, SyncConfigAgrees

\* A flush leaves a row of the same shape, and just the session's row when
\* nothing was committed since it was loaded.
LEMMA FlushedFields ==
  ASSUME NEW old, NEW new, row \in Row
  PROVE  Flushed(old, new) =
           [user   |-> IF new.user = old.user THEN row.user ELSE new.user,
            max    |-> IF new.max = old.max THEN row.max ELSE new.max,
            caps   |-> (row.caps \ (old.caps \ new.caps)) \cup (new.caps \ old.caps),
            config |-> IF new.config = old.config THEN row.config ELSE new.config]
<1>1. DOMAIN row = {"user", "max", "caps", "config"}
  BY DEF Row
<1> DEFINE new_(f) == IF f = "caps" THEN (row.caps \ (old.caps \ new.caps)) \cup (new.caps \ old.caps)
                     ELSE IF new[f] = old[f] THEN row[f] ELSE new[f]
<1>2. Flushed(old, new) = [f \in {"user", "max", "caps", "config"} |-> new_(f)]
  BY <1>1 DEF Flushed
<1>3. [f \in {"user", "max", "caps", "config"} |-> new_(f)] =
        [user |-> new_("user"), max |-> new_("max"), caps |-> new_("caps"), config |-> new_("config")]
  <2> HIDE DEF new_
  <2> QED
    OBVIOUS
<1> QED
  BY <1>2, <1>3

LEMMA FlushedIsRow ==
  ASSUME NEW old \in Row, NEW new \in Row, row \in Row
  PROVE  Flushed(old, new) \in Row
BY FlushedFields DEF Row

LEMMA FlushedAlone ==
  ASSUME NEW new \in Row, row \in Row
  PROVE  Flushed(row, new) = new
<1>1. (row.caps \ (row.caps \ new.caps)) \cup (new.caps \ row.caps) = new.caps
  OBVIOUS
<1>2. Flushed(row, new) =
        [user   |-> IF new.user = row.user THEN row.user ELSE new.user,
         max    |-> IF new.max = row.max THEN row.max ELSE new.max,
         caps   |-> (row.caps \ (row.caps \ new.caps)) \cup (new.caps \ row.caps),
         config |-> IF new.config = row.config THEN row.config ELSE new.config]
  BY FlushedFields
<1>3. @ = [user |-> new.user, max |-> new.max, caps |-> new.caps, config |-> new.config]
  BY <1>1
<1>4. @ = new
  BY DEF Row
<1> QED
  BY <1>2, <1>3, <1>4

LEMMA ConfigUpdatedIsTyped ==
  ASSUME NEW r \in Requests, NEW j \in Jobs[r], j.op = "config", NEW w \in Row
  PROVE  LET new == [w EXCEPT !.config = ConfigUpdated(@, j)]
         IN  new \in Row /\ (Agree(w) => Agree(new))
<1>1. j.rest \in Versions
  BY JobsAssumption
<1> QED
  BY <1>1 DEF ConfigUpdated, Row, Config, Agree

-----------------------------------------------------------------------------
(* The inductive invariant. *)

Points == {"idle", "loaded", "publish", "waiting", "done"}
Commands == {"read", "write", "restart"}
AnyJob == UNION {Jobs[r] : r \in Requests}
Messages == [id : Requests \X Commands, command : Commands, files : Files \cup {None}]

SystemOK ==
  /\ row \in Row \cup {None, Gone}
  /\ agent \in Files
  /\ net \in Seq(Messages)
  /\ overlap \in BOOLEAN

\* Only a message that writes carries files, and it does.
MessagesCarryFiles ==
  \A i \in 1..Len(net) : net[i].command = "write" => net[i].files \in Files

RequestsOK ==
  /\ pc \in [Requests -> Points]
  /\ job \in [Requests -> AnyJob \cup {None}]
  /\ mine \in [Requests -> Row \cup {None, Gone}]
  /\ files \in [Requests -> Files \cup {None}]
  /\ inbox \in [Requests -> Acknowledgement \cup {None}]
  /\ outcome \in [Requests -> Endings \cup {None}]

\* Where a request is tells what it was made for and what its session holds.
RequestShape ==
  \A r \in Requests :
    /\ pc[r] # "idle" => job[r] \in Jobs[r]
    /\ pc[r] = "loaded" => job[r].op \in RowJobs /\ (job[r].op # "register" => mine[r] \in Row)
    /\ pc[r] \in {"publish", "waiting"} =>
         /\ job[r].op \in {"update"} \cup Commands
         /\ job[r].op = "update" => job[r].sync
         /\ mine[r] \in Row
    /\ outcome[r] # None <=> pc[r] = "done"
    /\ inbox[r] # None => pc[r] = "waiting"

\* Without an overlap one session at most has the row loaded to change it, and
\* what it has loaded is the row.
SessionsApart ==
  ~overlap =>
    /\ \A r, q \in Requests : pc[r] = "loaded" /\ pc[q] = "loaded" => r = q
    /\ \A r \in Requests : pc[r] = "loaded" => mine[r] = row
    /\ Stored => Agree(row)

\* A request that had the microcontroller to itself holds the row as it is.
AloneHoldsRow ==
  \A r \in alone :
    /\ r \in Requests /\ alone = {r}
    /\ \A q \in Requests \ {r} : pc[q] \in {"idle", "done"}
    /\ pc[r] = "loaded" => mine[r] = row
    /\ pc[r] \in {"publish", "waiting"} /\ job[r].op = "update" =>
         mine[r] = row /\ Stored /\ Agree(row)
    /\ outcome[r] = "ok" /\ job[r].op \in {"register", "update"} /\ Stored => Agree(row)

\* The stream then holds the one command it waits for, and once its write is
\* acknowledged the agent has the files it has sent.
AloneHoldsAgent ==
  \A r \in alone :
    /\ pc[r] \in {"loaded", "publish"} => net = <<>>
    /\ pc[r] = "waiting" /\ job[r].op = "update" =>
         /\ Len(net) <= 1 /\ (inbox[r] # None => net = <<>>)
         /\ Command(r) = "write" =>
              /\ net # <<>> => Head(net).command = "write" /\ Head(net).files = SyncedFiles(r)
              /\ inbox[r] # None /\ inbox[r].ok => agent = SyncedFiles(r)
    /\ outcome[r] = "ok" /\ job[r].op = "update" /\ job[r].sync => net = <<>> /\ Stored

\* A favourable answer in hand is about a command that was carried out.
AnswersAreOwn ==
  \A r \in Requests :
    inbox[r] # None /\ inbox[r].ok => <<r, Command(r)>> \in handled

Shape == SystemOK /\ MessagesCarryFiles /\ RequestsOK /\ RequestShape

IInv ==
  /\ Shape
  /\ SessionsApart /\ AloneHoldsRow /\ AloneHoldsAgent /\ AnswersAreOwn
  /\ SyncIsExact /\ OkWasCarriedOut

-----------------------------------------------------------------------------
(* Initial states, and what steps have in common. *)

LEMMA InitInv == Init => IInv
<1> SUFFICES ASSUME Init PROVE IInv
  OBVIOUS
<1> USE DEF Init
<1>1. /\ row \in Row \cup {None} /\ (Stored => Agree(row) /\ row.max \in Limits)
      /\ (Stored => row.config.rest \in Versions)
  <2>1. ASSUME NEW u \in Users, NEW m \in Limits
        PROVE  Existing(u, m) \in Row /\ Agree(Existing(u, m))
    <3>1. [user |-> u, max |-> m, caps |-> {}, config |-> NewConfig] \in Row
      BY NewConfigIsTyped DEF Row
    <3> QED
      BY <3>1, SyncConfigAgrees DEF Existing
  <2> QED
    BY <2>1 DEF Stored, Row, Config
<1>2. agent \in Files
  BY <1>1, NewConfigIsTyped DEF Files
<1>3. SystemOK
  <2>1. net \in Seq(Messages)
    BY EmptySeq, Zenon
  <2>2. row \in Row \cup {None, Gone}
    BY <1>1
  <2> QED
    BY <1>2, <2>1, <2>2 DEF SystemOK
<1>9. MessagesCarryFiles
  BY DEF MessagesCarryFiles
<1>4. RequestsOK /\ RequestShape
  BY DEF RequestsOK, RequestShape, Points
<1>5. SessionsApart
  BY <1>1 DEF SessionsApart
<1>6. AloneHoldsRow /\ AloneHoldsAgent /\ SyncIsExact
  BY DEF AloneHoldsRow, AloneHoldsAgent, SyncIsExact
<1>7. AnswersAreOwn
  BY DEF AnswersAreOwn
<1>8. OkWasCarriedOut
  BY NullAssumption DEF OkWasCarriedOut, Endings
<1> QED
  BY <1>3, <1>4, <1>5, <1>6, <1>7, <1>8, <1>9 DEF IInv, Shape

LEMMA CommandFrame ==
  ASSUME UNCHANGED <<job, files>>, NEW r
  PROVE  Command(r)' = Command(r)
BY DEF Command

\* A request that ends without a change of the row.
LEMMA EndedInv ==
  ASSUME IInv, NEW r \in Requests, NEW how \in Endings, pc[r] \in {"loaded", "waiting"},
         Ended(r, how), UNCHANGED row,
         how = "ok" => /\ pc[r] = "waiting" /\ inbox[r] # None /\ inbox[r].ok
                       /\ Command(r) = "read" => job[r].op = "read"
  PROVE  IInv'
<1> USE DEF IInv, Shape
<1>1. /\ pc' = [pc EXCEPT ![r] = "done"] /\ outcome' = [outcome EXCEPT ![r] = how]
      /\ mine' = [mine EXCEPT ![r] = None] /\ inbox' = [inbox EXCEPT ![r] = None]
      /\ UNCHANGED <<row, agent, net, handled, job, files, overlap, alone>>
  BY DEF Ended
<1>2. SystemOK' /\ MessagesCarryFiles'
  BY <1>1 DEF SystemOK, MessagesCarryFiles
<1>3. RequestsOK' /\ RequestShape'
  BY <1>1, NullAssumption DEF RequestsOK, RequestShape, Points
<1>4. SessionsApart'
  BY <1>1 DEF SessionsApart, RequestsOK, Stored
<1>5. AloneHoldsRow'
  BY <1>1 DEF AloneHoldsRow, RequestsOK, Stored, RequestShape, Commands
<1>6. \A q \in Requests : Command(q)' = Command(q)
  BY <1>1, CommandFrame
<1>11. ASSUME r \in alone, how = "ok", job[r].op = "update"
      PROVE  /\ Command(r) = "write" /\ net = <<>> /\ Stored
             /\ agent = [files[r] EXCEPT !.max = row.max, !.sensors = Types(row.caps)]
  <2>1. Command(r) = "write"
    BY <1>11 DEF Command
  <2> QED
    BY <1>11, <2>1 DEF AloneHoldsAgent, AloneHoldsRow, SyncedFiles
<1>12. \A q \in alone : q # r => pc[q] \in {"idle", "done"} /\ pc'[q] = pc[q] /\ outcome'[q] = outcome[q]
  BY <1>1 DEF AloneHoldsRow, RequestsOK
<1>13. pc'[r] = "done" /\ outcome'[r] = how /\ UNCHANGED Stored
  BY <1>1 DEF RequestsOK, Stored
<1>7. AloneHoldsAgent'
  BY <1>1, <1>11, <1>12, <1>13 DEF AloneHoldsAgent
<1>8. AnswersAreOwn'
  BY <1>1, <1>6 DEF AnswersAreOwn, RequestsOK
<1>9. SyncIsExact'
  <2> SUFFICES ASSUME NEW q \in alone, outcome'[q] = "ok", job[q].op = "update", job[q].sync
               PROVE  agent = [files[q] EXCEPT !.max = row.max, !.sensors = Types(row.caps)]
    BY <1>1, Zenon DEF SyncIsExact
  <2>1. CASE q = r
    BY <2>1, <1>11, <1>13
  <2>2. CASE q # r
    BY <2>2, <1>12 DEF SyncIsExact
  <2> QED
    BY <2>1, <2>2
<1>10. OkWasCarriedOut'
  BY <1>1, <1>6 DEF OkWasCarriedOut, AnswersAreOwn, RequestsOK
<1> QED
  BY <1>2, <1>3, <1>4, <1>5, <1>7, <1>8, <1>9, <1>10

\* A request that ends with a committed change of the row.
LEMMA CommittedInv ==
  ASSUME IInv, NEW r \in Requests, pc[r] = "loaded", Ended(r, "ok"),
         row' \in Row \cup {Gone},
         ~overlap /\ row' # Gone => Agree(row'),
         r \in alone /\ job[r].op \in {"register", "update"} /\ row' # Gone => Agree(row'),
         job[r].op = "update" => ~job[r].sync
  PROVE  IInv'
<1> USE DEF IInv, Shape
<1>1. /\ pc' = [pc EXCEPT ![r] = "done"] /\ outcome' = [outcome EXCEPT ![r] = "ok"]
      /\ mine' = [mine EXCEPT ![r] = None] /\ inbox' = [inbox EXCEPT ![r] = None]
      /\ UNCHANGED <<agent, net, handled, job, files, overlap, alone>>
  BY DEF Ended
<1>2. SystemOK' /\ MessagesCarryFiles'
  BY <1>1 DEF SystemOK, MessagesCarryFiles
<1>3. RequestsOK' /\ RequestShape'
  BY <1>1, NullAssumption DEF RequestsOK, RequestShape, Points, Endings
<1>4. SessionsApart'
  BY <1>1 DEF SessionsApart, RequestsOK, Stored
<1>11. \A q \in alone : q = r
  BY DEF AloneHoldsRow
<1>5. AloneHoldsRow'
  BY <1>1, <1>11 DEF AloneHoldsRow, RequestsOK, Stored
<1>6. \A q \in Requests : Command(q)' = Command(q)
  BY <1>1, CommandFrame
<1>12. job[r].op \in RowJobs
  BY DEF RequestShape
<1>7. AloneHoldsAgent'
  BY <1>1, <1>6, <1>11 DEF AloneHoldsAgent, AloneHoldsRow, RequestsOK
<1>8. AnswersAreOwn'
  BY <1>1, <1>6 DEF AnswersAreOwn, RequestsOK
<1>9. SyncIsExact'
  BY <1>1, <1>11 DEF SyncIsExact, RequestsOK
<1>10. OkWasCarriedOut'
  BY <1>1, <1>6, <1>12 DEF OkWasCarriedOut, RequestsOK, RowJobs
<1> QED
  BY <1>2, <1>3, <1>4, <1>5, <1>7, <1>8, <1>9, <1>10

-----------------------------------------------------------------------------
(* The requests. *)

LEMMA BeginInv ==
  ASSUME IInv, NEW r \in Requests, Begin(r)
  PROVE  IInv'
<1> USE DEF IInv, Shape
<1> DEFINE others == {q \in Requests \ {r} : pc[q] \notin {"idle", "done"}}
<1>1. PICK j \in Jobs[r] : Finds(j) /\ job' = [job EXCEPT ![r] = j]
  BY DEF Begin
<1>2. /\ pc[r] = "idle"
      /\ pc' = [pc EXCEPT ![r] = IF j.op \in RowJobs THEN "loaded" ELSE "publish"]
      /\ mine' = [mine EXCEPT ![r] = row]
      /\ overlap' = (overlap \/ (j.op \in RowJobs /\ \E q \in others : pc[q] = "loaded"))
      /\ alone' = IF others = {} /\ net = <<>> THEN {r} ELSE {}
      /\ UNCHANGED <<row, agent, net, handled, files, inbox, outcome>>
  <2>1. job'[r] = j
    BY <1>1 DEF RequestsOK
  <2> QED
    BY <2>1 DEF Begin
<1> HIDE DEF others
<1>3. j.op \in RowJobs \cup Commands /\ j.op \notin RowJobs \cap Commands
  BY JobsAssumption DEF Commands, RowJobs
<1>4. IF j.op = "register" THEN row = None ELSE row \in Row
  BY <1>1 DEF Finds, Stored, SystemOK
<1>5. outcome[r] = None /\ inbox[r] = None
  BY <1>2 DEF RequestShape
<1>6. SystemOK' /\ MessagesCarryFiles'
  BY <1>2 DEF SystemOK, MessagesCarryFiles
<1>7. RequestsOK'
  BY <1>1, <1>2 DEF RequestsOK, Points, AnyJob, SystemOK
<1>8. RequestShape'
  BY <1>1, <1>2, <1>3, <1>4, <1>5 DEF RequestShape, RequestsOK, RowJobs, Commands
<1>9. SessionsApart'
  BY <1>1, <1>2 DEF SessionsApart, RequestsOK, Stored, others
<1>10. AloneHoldsRow'
  BY <1>1, <1>2, <1>3, <1>5, NullAssumption DEF AloneHoldsRow, RequestsOK, RowJobs, Commands, others, Endings
<1>11. AloneHoldsAgent'
  BY <1>1, <1>2, <1>5, NullAssumption DEF AloneHoldsAgent, RequestsOK, Endings
<1>12. \A q \in Requests \ {r} : Command(q)' = Command(q)
  BY <1>1, <1>2 DEF Command, RequestsOK
<1>13. AnswersAreOwn'
  BY <1>2, <1>5, <1>12 DEF AnswersAreOwn, RequestsOK
<1>14. SyncIsExact'
  BY <1>1, <1>2, <1>5, NullAssumption DEF SyncIsExact, RequestsOK, Endings
<1>15. OkWasCarriedOut'
  BY <1>1, <1>2, <1>5, <1>12, NullAssumption DEF OkWasCarriedOut, RequestsOK, Endings
<1> QED
  BY <1>6, <1>7, <1>8, <1>9, <1>10, <1>11, <1>13, <1>14, <1>15

LEMMA RegisterInv ==
  ASSUME IInv, NEW r \in Requests, Register(r)
  PROVE  IInv'
<1> DEFINE new == SyncConfig([user |-> job[r].by, max |-> job[r].max,
                              caps |-> Capabilities(r, job[r].sensors), config |-> NewConfig])
<1>1. CASE ValidSensors(job[r].sensors)
  <2>1. job[r] \in Jobs[r]
    BY DEF IInv, Shape, RequestShape, Register
  <2>2. [user |-> job[r].by, max |-> job[r].max,
         caps |-> Capabilities(r, job[r].sensors), config |-> NewConfig] \in Row
    BY <2>1, JobsAssumption, CapabilitiesAreTyped, NewConfigIsTyped DEF Register, Row
  <2>3. new \in Row /\ Agree(new)
    BY <2>2, SyncConfigAgrees
  <2> HIDE DEF new
  <2>4. row' = new /\ Ended(r, "ok") /\ pc[r] = "loaded" /\ job[r].op = "register"
    BY <1>1 DEF Register, new
  <2> QED
    BY <2>3, <2>4, CommittedInv
<1>2. CASE ~ValidSensors(job[r].sensors)
  BY <1>2, EndedInv DEF Register, Endings
<1> QED
  BY <1>1, <1>2

LEMMA UpdateInv ==
  ASSUME IInv, NEW r \in Requests, Update(r)
  PROVE  IInv'
<1> DEFINE new == Updated(r, mine[r], job[r])
<1>1. /\ pc[r] = "loaded" /\ job[r].op = "update" /\ row \in Row
      /\ row' = Flushed(mine[r], new)
  BY DEF Update, Stored, IInv, Shape, SystemOK
<1>2. job[r] \in Jobs[r] /\ mine[r] \in Row
  BY <1>1 DEF IInv, Shape, RequestShape
<1>3. new \in Row /\ Agree(new)
  BY <1>1, <1>2, UpdatedAgrees
<1> HIDE DEF new
<1>4. row' \in Row
  BY <1>1, <1>2, <1>3, FlushedIsRow
<1>5. ASSUME mine[r] = row PROVE Agree(row')
  BY <1>1, <1>3, <1>5, FlushedAlone
<1>6. ~overlap \/ r \in alone => Agree(row')
  BY <1>1, <1>5 DEF IInv, SessionsApart, AloneHoldsRow
<1>7. CASE ~job[r].sync
  BY <1>1, <1>4, <1>6, <1>7, CommittedInv DEF Update
<1>8. CASE job[r].sync
  <2> USE DEF IInv, Shape
  <2>1. /\ mine' = [mine EXCEPT ![r] = row'] /\ pc' = [pc EXCEPT ![r] = "publish"]
        /\ UNCHANGED <<agent, net, handled, job, files, inbox, outcome, overlap, alone>>
    BY <1>8 DEF Update
  <2>2. Stored'
    BY <1>4, NullAssumption DEF Stored
  <2>3. SystemOK' /\ MessagesCarryFiles'
    BY <1>4, <2>1 DEF SystemOK, MessagesCarryFiles
  <2>4. RequestsOK' /\ RequestShape'
    BY <1>1, <1>4, <1>8, <2>1 DEF RequestsOK, RequestShape, Points
  <2>5. SessionsApart'
    BY <1>1, <1>6, <2>1 DEF SessionsApart, RequestsOK
  <2>6. \A q \in alone : q = r
    BY <1>1 DEF AloneHoldsRow
  <2>7. outcome[r] = None
    BY <1>1 DEF RequestShape
  <2>8. AloneHoldsRow'
    BY <1>1, <1>6, <2>1, <2>2, <2>6 DEF AloneHoldsRow, RequestsOK
  <2>9. \A q \in Requests : Command(q)' = Command(q)
    BY <2>1, CommandFrame
  <2>10. AloneHoldsAgent'
    BY <1>1, <2>1, <2>2, <2>6 DEF AloneHoldsAgent, RequestsOK
  <2>11. AnswersAreOwn' /\ OkWasCarriedOut'
    BY <2>1, <2>9 DEF AnswersAreOwn, OkWasCarriedOut
  <2>12. SyncIsExact'
    BY <2>1, <2>6, <2>7, NullAssumption DEF SyncIsExact, Endings
  <2> QED
    BY <2>3, <2>4, <2>5, <2>8, <2>10, <2>11, <2>12
<1> QED
  BY <1>7, <1>8

LEMMA UpdateConfigInv ==
  ASSUME IInv, NEW r \in Requests, UpdateConfig(r)
  PROVE  IInv'
<1> DEFINE new == [mine[r] EXCEPT !.config = ConfigUpdated(@, job[r])]
<1>1. CASE Stored
  <2>1. /\ pc[r] = "loaded" /\ job[r].op = "config" /\ row \in Row /\ Ended(r, "ok")
        /\ row' = Flushed(mine[r], new)
    BY <1>1 DEF UpdateConfig, Stored, IInv, Shape, SystemOK
  <2>2. job[r] \in Jobs[r] /\ mine[r] \in Row
    BY <2>1 DEF IInv, Shape, RequestShape
  <2>3. new \in Row /\ (Agree(mine[r]) => Agree(new))
    BY <2>1, <2>2, ConfigUpdatedIsTyped
  <2> HIDE DEF new
  <2>4. row' \in Row
    BY <2>1, <2>2, <2>3, FlushedIsRow
  <2>5. ~overlap => Agree(row')
    <3>1. ASSUME ~overlap PROVE mine[r] = row /\ Agree(row)
      BY <1>1, <2>1, <3>1 DEF IInv, SessionsApart
    <3> QED
      BY <2>1, <2>3, <3>1, FlushedAlone
  <2> QED
    BY <2>1, <2>4, <2>5, CommittedInv
<1>2. CASE ~Stored
  BY <1>2, EndedInv DEF UpdateConfig, Endings
<1> QED
  BY <1>1, <1>2

LEMMA DeleteInv ==
  ASSUME IInv, NEW r \in Requests, Delete(r)
  PROVE  IInv'
BY CommittedInv DEF Delete

-----------------------------------------------------------------------------
(* The commands. *)

LEMMA CommandIsTyped ==
  ASSUME Shape, NEW r \in Requests, pc[r] \in {"publish", "waiting"}
  PROVE  /\ Command(r) \in Commands
         /\ job[r].op # "update" => Command(r) = job[r].op
         /\ job[r].op = "update" => (Command(r) = "write" <=> files[r] # None)
                                     /\ (Command(r) = "read" <=> files[r] = None)
BY DEF Shape, RequestShape, Command, Commands

LEMMA PublishInv ==
  ASSUME IInv, NEW r \in Requests, Publish(r)
  PROVE  IInv'
<1> USE DEF IInv, Shape
<1> DEFINE sent == IF Command(r) # "write" THEN None
                   ELSE IF job[r].op = "update" THEN SyncedFiles(r) ELSE job[r].files
           m == [id |-> <<r, Command(r)>>, command |-> Command(r), files |-> sent]
<1>1. /\ pc[r] = "publish" /\ net' = Append(net, m)
      /\ pc' = [pc EXCEPT ![r] = "waiting"]
      /\ UNCHANGED <<row, agent, handled, job, mine, files, inbox, outcome, overlap, alone>>
  BY DEF Publish
<1>2. /\ Command(r) \in Commands
      /\ job[r].op # "update" => Command(r) = job[r].op
      /\ job[r].op = "update" => (Command(r) = "write" <=> files[r] # None)
  BY <1>1, CommandIsTyped
<1>3. Command(r) = "write" => sent \in Files
  <2>1. CASE Command(r) = "write" /\ job[r].op = "update"
    <3>1. files[r] \in Files /\ mine[r].max \in Limits
      BY <1>1, <1>2, <2>1 DEF RequestsOK, RequestShape, Row
    <3>2. Stored => Types(row.caps) \subseteq Sensors
      BY TypesAreSensors DEF SystemOK, Stored, Row
    <3>3. SyncedFiles(r) \in Files
      BY <3>1, <3>2 DEF SyncedFiles, Files
    <3> QED
      BY <2>1, <3>3
  <2>2. CASE Command(r) = "write" /\ job[r].op # "update"
    <3>1. job[r].op = "write" /\ job[r] \in Jobs[r]
      BY <1>1, <1>2, <2>2 DEF RequestShape
    <3> QED
      BY <2>2, <3>1, JobsAssumption
  <2> QED
    BY <2>1, <2>2
<1>4. Command(r) # "write" => sent = None
  OBVIOUS
<1>5. Command(r) = "write" /\ job[r].op = "update" => sent = SyncedFiles(r)
  OBVIOUS
<1> HIDE DEF sent
<1>6. m \in Messages
  BY <1>2, <1>3, <1>4 DEF Messages
<1>7. /\ net' \in Seq(Messages) /\ Len(net') = Len(net) + 1
      /\ \A i \in 1..Len(net) : net'[i] = net[i]
      /\ net'[Len(net) + 1] = m
  BY <1>1, <1>6, AppendProperties DEF SystemOK
<1>8. m.command = Command(r) /\ m.files = sent
  OBVIOUS
<1>9. net = <<>> => net' = <<m>>
  BY <1>1, <1>6
<1> HIDE DEF m
<1>10. SystemOK'
  BY <1>1, <1>7 DEF SystemOK
<1>11. MessagesCarryFiles'
  <2> SUFFICES ASSUME NEW i \in 1..Len(net'), net'[i].command = "write"
               PROVE  net'[i].files \in Files
    BY DEF MessagesCarryFiles
  <2>1. Len(net) \in Nat
    BY LenProperties DEF SystemOK
  <2>2. i \in 1..Len(net) \/ i = Len(net) + 1
    BY <1>7, <2>1
  <2> QED
    BY <1>3, <1>7, <1>8, <2>2 DEF MessagesCarryFiles
<1>12. RequestsOK' /\ RequestShape'
  BY <1>1 DEF RequestsOK, RequestShape, Points
<1>13. SessionsApart'
  BY <1>1 DEF SessionsApart, RequestsOK, Stored
<1>14. AloneHoldsRow'
  BY <1>1 DEF AloneHoldsRow, RequestsOK, Stored
<1>15. \A q \in Requests : Command(q)' = Command(q) /\ SyncedFiles(q)' = SyncedFiles(q)
  BY <1>1, CommandFrame DEF SyncedFiles, Stored
<1>16. outcome[r] = None /\ inbox[r] = None
  BY <1>1 DEF RequestShape
<1>17. \A q \in alone : q = r
  BY <1>1 DEF AloneHoldsRow
<1>18. AloneHoldsAgent'
  <2> SUFFICES ASSUME r \in alone
               PROVE  /\ Len(net') <= 1
                      /\ Command(r) = "write" /\ job[r].op = "update" =>
                           Head(net').command = "write" /\ Head(net').files = SyncedFiles(r)
    BY <1>1, <1>15, <1>16, <1>17, NullAssumption DEF AloneHoldsAgent, RequestsOK, Endings
  <2>1. net' = <<m>>
    BY <1>1, <1>9 DEF AloneHoldsAgent
  <2> QED
    BY <2>1, <1>5, <1>8
<1>19. AnswersAreOwn' /\ OkWasCarriedOut'
  BY <1>1, <1>15 DEF AnswersAreOwn, OkWasCarriedOut
<1>20. SyncIsExact'
  BY <1>1, <1>16, <1>17, NullAssumption DEF SyncIsExact, Endings
<1> QED
  BY <1>10, <1>11, <1>12, <1>13, <1>14, <1>18, <1>19, <1>20

\* The agent carries out the oldest command and acknowledges it, or not.
LEMMA AgentHandlesInv ==
  ASSUME IInv, AgentHandles
  PROVE  IInv'
<1> USE DEF IInv, Shape
<1> DEFINE m == Head(net)
<1>1. PICK ok \in BOOLEAN, complete \in BOOLEAN, lost \in BOOLEAN :
        LET answer == [ok |-> ok, files |-> IF m.command = "read" /\ ok /\ complete
                                            THEN agent ELSE None] IN
        /\ agent' = IF ok /\ m.command = "write" THEN m.files ELSE agent
        /\ handled' = IF ok THEN handled \cup {m.id} ELSE handled
        /\ inbox' = [r \in Requests |->
             IF ~lost /\ pc[r] = "waiting" /\ inbox[r] = None /\ Acknowledges(r, m.id)
             THEN answer ELSE inbox[r]]
  BY DEF AgentHandles
<1> DEFINE answer == [ok |-> ok, files |-> IF m.command = "read" /\ ok /\ complete
                                           THEN agent ELSE None]
<1>2. /\ net # <<>> /\ net' = Tail(net)
      /\ UNCHANGED <<row, job, pc, mine, files, outcome, overlap, alone>>
  BY DEF AgentHandles
<1>3. answer \in Acknowledgement /\ answer.ok = ok /\ answer # None
  BY NullAssumption DEF Acknowledgement, SystemOK
<1> HIDE DEF answer
<1>4. /\ Len(net) \in Nat \ {0} /\ m = net[1] /\ net' \in Seq(Messages)
      /\ Len(net') = Len(net) - 1 /\ \A i \in 1..Len(net') : net'[i] = net[i + 1]
  BY <1>2, HeadTailProperties, LenProperties, EmptySeq DEF SystemOK
<1>5. \A r \in Requests :
        \/ inbox'[r] = inbox[r]
        \/ /\ inbox'[r] = answer /\ pc[r] = "waiting" /\ inbox[r] = None
           /\ m.id = <<r, Command(r)>>
  BY <1>1 DEF answer, Acknowledges
<1>6. agent' \in Files
  <2>1. m.command = "write" => m.files \in Files
    BY <1>4 DEF MessagesCarryFiles
  <2> QED
    BY <1>1, <2>1 DEF SystemOK
<1>7. inbox' \in [Requests -> Acknowledgement \cup {None}]
  <2>1. inbox' = [r \in Requests |-> inbox'[r]]
    BY <1>1
  <2>2. \A r \in Requests : inbox'[r] \in Acknowledgement \cup {None}
    BY <1>3, <1>5 DEF RequestsOK
  <2> QED
    BY <2>1, <2>2
<1>8. SystemOK'
  BY <1>2, <1>4, <1>6 DEF SystemOK
<1>9. MessagesCarryFiles'
  <2> SUFFICES ASSUME NEW i \in 1..Len(net'), net'[i].command = "write"
               PROVE  net'[i].files \in Files
    BY DEF MessagesCarryFiles
  <2>1. i + 1 \in 1..Len(net) /\ net'[i] = net[i + 1]
    BY <1>4
  <2> QED
    BY <2>1 DEF MessagesCarryFiles
<1>10. RequestsOK'
  BY <1>2, <1>7 DEF RequestsOK
<1>11. RequestShape'
  BY <1>2, <1>5 DEF RequestShape
<1>12. SessionsApart' /\ AloneHoldsRow'
  BY <1>2 DEF SessionsApart, AloneHoldsRow, Stored
<1>13. \A r \in Requests : Command(r)' = Command(r) /\ SyncedFiles(r)' = SyncedFiles(r)
  BY <1>2, CommandFrame DEF SyncedFiles, Stored
<1>14. \A r \in alone : r \in Requests
  BY DEF AloneHoldsRow
<1>15. AloneHoldsAgent'
  <2> SUFFICES ASSUME NEW r \in alone, pc[r] = "waiting", job[r].op = "update"
               PROVE  /\ net' = <<>>
                      /\ Command(r) = "write" /\ inbox'[r] # None /\ inbox'[r].ok =>
                           agent' = SyncedFiles(r)
    <3>1. \A r_1 \in alone : /\ pc[r_1] \notin {"loaded", "publish"}
                             /\ ~(outcome[r_1] = "ok" /\ job[r_1].op = "update" /\ job[r_1].sync)
      BY <1>2 DEF AloneHoldsAgent
    <3>2. net' = <<>> => Len(net') = 0
      BY EmptySeq
    <3> QED
      BY <1>2, <1>13, <1>14, <3>1, <3>2 DEF AloneHoldsAgent
  <2>1. Len(net) <= 1 /\ inbox[r] = None
    BY <1>2 DEF AloneHoldsAgent
  <2>2. net' = <<>>
    BY <1>4, <2>1, EmptySeq
  <2>3. ASSUME Command(r) = "write", inbox'[r] # None, inbox'[r].ok
        PROVE  agent' = SyncedFiles(r)
    <3>1. m.command = "write" /\ m.files = SyncedFiles(r)
      BY <1>2, <2>3 DEF AloneHoldsAgent
    <3>2. ok
      BY <1>3, <1>5, <1>14, <2>1, <2>3
    <3> QED
      BY <1>1, <3>1, <3>2
  <2> QED
    BY <2>2, <2>3
<1>16. handled \subseteq handled' /\ (ok => m.id \in handled')
  BY <1>1
<1>17. AnswersAreOwn'
  BY <1>3, <1>5, <1>13, <1>16 DEF AnswersAreOwn
<1>18. OkWasCarriedOut'
  BY <1>2, <1>13, <1>16 DEF OkWasCarriedOut
<1>19. SyncIsExact'
  BY <1>2 DEF SyncIsExact, AloneHoldsAgent
<1> QED
  BY <1>8, <1>9, <1>10, <1>11, <1>12, <1>15, <1>17, <1>18, <1>19

LEMMA FilesReadInv ==
  ASSUME IInv, NEW r \in Requests, FilesRead(r)
  PROVE  IInv'
<1> USE DEF IInv, Shape
<1>1. /\ pc[r] = "waiting" /\ inbox[r] # None /\ job[r].op = "update"
      /\ inbox[r].files # None
      /\ files' = [files EXCEPT ![r] = inbox[r].files]
      /\ inbox' = [inbox EXCEPT ![r] = None]
      /\ pc' = [pc EXCEPT ![r] = "publish"]
      /\ UNCHANGED <<row, agent, net, handled, job, mine, outcome, overlap, alone>>
  BY DEF FilesRead
<1>2. inbox[r].files \in Files
  BY <1>1 DEF RequestsOK, Acknowledgement
<1>3. SystemOK' /\ MessagesCarryFiles'
  BY <1>1 DEF SystemOK, MessagesCarryFiles
<1>4. RequestsOK'
  BY <1>1, <1>2 DEF RequestsOK, Points
<1>5. RequestShape'
  BY <1>1 DEF RequestsOK, RequestShape
<1>6. SessionsApart' /\ AloneHoldsRow'
  BY <1>1 DEF SessionsApart, AloneHoldsRow, RequestsOK, Stored
<1>7. \A q \in Requests \ {r} : Command(q)' = Command(q)
  BY <1>1 DEF Command, RequestsOK
<1>8. outcome[r] = None
  BY <1>1 DEF RequestShape
<1>9. \A q \in alone : q = r
  BY <1>1 DEF AloneHoldsRow
<1>10. AloneHoldsAgent'
  BY <1>1, <1>8, <1>9, NullAssumption DEF AloneHoldsAgent, RequestsOK, Endings
<1>11. AnswersAreOwn'
  BY <1>1, <1>7 DEF AnswersAreOwn, RequestsOK
<1>12. OkWasCarriedOut'
  BY <1>1, <1>7, <1>8, NullAssumption DEF OkWasCarriedOut, Endings
<1>13. SyncIsExact'
  BY <1>1, <1>8, <1>9, NullAssumption DEF SyncIsExact, Endings
<1> QED
  BY <1>3, <1>4, <1>5, <1>6, <1>10, <1>11, <1>12, <1>13

LEMMA NextInv == IInv /\ [Next]_vars => IInv'
<1> SUFFICES ASSUME IInv, [Next]_vars PROVE IInv'
  OBVIOUS
<1>1. CASE AgentHandles
  BY <1>1, AgentHandlesInv
<1>2. ASSUME NEW r \in Requests, Begin(r) PROVE IInv'
  BY <1>2, BeginInv
<1>3. ASSUME NEW r \in Requests, Register(r) PROVE IInv'
  BY <1>3, RegisterInv
<1>4. ASSUME NEW r \in Requests, Update(r) PROVE IInv'
  BY <1>4, UpdateInv
<1>5. ASSUME NEW r \in Requests, UpdateFails(r) PROVE IInv'
  BY <1>5, EndedInv DEF UpdateFails, Endings
<1>6. ASSUME NEW r \in Requests, UpdateConfig(r) PROVE IInv'
  BY <1>6, UpdateConfigInv
<1>7. ASSUME NEW r \in Requests, Delete(r) PROVE IInv'
  BY <1>7, DeleteInv
<1>8. ASSUME NEW r \in Requests, Publish(r) PROVE IInv'
  BY <1>8, PublishInv
<1>9. ASSUME NEW r \in Requests, AgentRefuses(r) PROVE IInv'
  BY <1>9, EndedInv DEF AgentRefuses, Endings
<1>10. ASSUME NEW r \in Requests, FilesRead(r) PROVE IInv'
  BY <1>10, FilesReadInv
<1>11. ASSUME NEW r \in Requests, Acknowledged(r) PROVE IInv'
  BY <1>11, EndedInv DEF Acknowledged, Endings
<1>12. ASSUME NEW r \in Requests, Timeout(r) PROVE IInv'
  BY <1>12, EndedInv DEF Timeout, Endings
<1>13. CASE UNCHANGED vars
  BY <1>13 DEF vars, request, IInv, Shape, SystemOK, MessagesCarryFiles, RequestsOK, RequestShape,
               SessionsApart, AloneHoldsRow, AloneHoldsAgent, AnswersAreOwn, SyncIsExact,
               OkWasCarriedOut, Stored, Command, SyncedFiles
<1> QED
  BY <1>1, <1>2, <1>3, <1>4, <1>5, <1>6, <1>7, <1>8, <1>9, <1>10, <1>11, <1>12, <1>13 DEF Next

-----------------------------------------------------------------------------
\* The inductive invariant holds in every state of the service.
THEOREM Invariance == Spec => []IInv
BY InitInv, NextInv, PTL DEF Spec

\* The copies in the config column are those of the row when no two sessions had
\* it loaded at once, and after an undisturbed registration or update, whatever
\* requests are made and whatever they ask for.
THEOREM CopiesStayEqual == Spec => []CopiesAgree
<1>1. IInv => CopiesAgree
  BY DEF IInv, SessionsApart, AloneHoldsRow, CopiesAgree
<1> QED
  BY <1>1, Invariance, PTL

\* An undisturbed sync that was acknowledged leaves the agent with the files it
\* had, the row's limit and the row's sensors.
THEOREM SyncReachesAgent == Spec => []SyncIsExact
<1>1. IInv => SyncIsExact
  BY DEF IInv
<1> QED
  BY <1>1, Invariance, PTL

\* However requests, answers and timeouts interleave, what a request reports as
\* done was done by the agent for that request.
THEOREM SuccessWasCarriedOut == Spec => []OkWasCarriedOut
<1>1. IInv => OkWasCarriedOut
  BY DEF IInv
<1> QED
  BY <1>1, Invariance, PTL
=============================================================================

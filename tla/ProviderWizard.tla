--------------------------- MODULE ProviderWizard ---------------------------
(***************************************************************************)
(* WizardService and create_provider_from_wizard in the threads of one     *)
(* process: sessions in memory or in Redis, the steps of the Huawei and    *)
(* GoodWe wizards, their calls to the vendor, and the provider that is     *)
(* made of a finished session.  One user, whose providers are all of one   *)
(* vendor.                                                                 *)
(*                                                                         *)
(* A station has one inverter, named as the station.  Of a form the model  *)
(* keeps the choice it carries.                                            *)
(***************************************************************************)
EXTENDS VendorSessions, Naturals, FiniteSets

CONSTANTS Sessions,   \* bound: wizard sessions that can be created, 1..n
          Stations,
          MaxCalls    \* bound: calls of run_step and create_provider_from_wizard

ASSUME SessionsAssumption == Sessions \subseteq Nat /\ None \notin Sessions
ASSUME NoChoice == None \notin Stations /\ None \notin Credentials
ASSUME MaxCallsAssumption == MaxCalls \in Nat

VARIABLES
  kind,        \* the store: "memory" or "redis"
  stored,      \* the ids the store holds
  data,        \* session_data of each session, as last written
  req,         \* the call each thread is in
  built,       \* providers made: session, inverter, credentials
  calls,       \* calls begun
  gone,        \* history: sessions deleted or expired
  overlapped   \* history: those that another call held when they went
wizardVars == <<kind, stored, data, req, built, calls, gone, overlapped>>
vars == <<vendorVars, wizardVars>>

NoConfig == [station |-> None, unit |-> None, extra |-> FALSE, named |-> FALSE]
NoData == [cred |-> None, station |-> None, details |-> None, config |-> NoConfig]

Maybe(S) == S \cup {None}
Configs == [station : Maybe(Stations), unit : Maybe(Stations),
            extra : BOOLEAN,      \* device_id, which the config schema forbids
            named : BOOLEAN]      \* has the rest of what it requires, as a name
SessionData == [cred : Maybe(Credentials), station : Maybe(Stations),
                details : Maybe(Stations), config : Configs]

(* Of the details: the inverter and whether a name is given. *)
DetailsForms == [unit : Stations, named : BOOLEAN]

(* The choices a form carries. *)
Forms(step) ==
  CASE step = "auth" -> Credentials
    [] step \in {"station", "device"} -> Stations
    [] step = "details" -> DetailsForms

(* GoodWe calls its station step "powerstation" and has no device step. *)
Steps == {"auth", "station", "details"} \cup IF vendor = "huawei" THEN {"device"} ELSE {}

Idle == [op |-> "none", phase |-> "idle", sess |-> None, form |-> None,
         copy |-> NoData]

Init ==
  /\ VendorInit
  /\ kind \in {"memory", "redis"}
  /\ stored = {} /\ data = [s \in Sessions |-> NoData]
  /\ req = [t \in Threads |-> Idle]
  /\ built = {} /\ calls = 0
  /\ gone = {} /\ overlapped = {}

Used == stored \cup gone

Holding(s) == {t \in Threads : req[t].sess = s}

(* The call returns or raises. *)
EndCall(t) == req' = [req EXCEPT ![t] = Idle]
Continue(t, phase) == req' = [req EXCEPT ![t].phase = phase]

(***************************************************************************)
(* run_step and consume_session, up to the session.  A call that is        *)
(* refused because its session is unknown, expired or of another vendor,   *)
(* its step is not of the wizard, its form does not validate or a step     *)
(* other than the first has no id changes nothing: there is no action.     *)
(***************************************************************************)
Call(t, op, phase, s, form, copy) ==
  /\ req[t].phase = "idle" /\ calls < MaxCalls
  /\ req' = [req EXCEPT ![t] = [op |-> op, phase |-> phase, sess |-> s, form |-> form,
                                copy |-> copy]]
  /\ calls' = calls + 1
  /\ UNCHANGED <<vendorVars, kind, data, built>>

(* _resolve_session without an id: the first step makes a session, before
   its form is validated. *)
CreateSession(t) ==
  \E s \in Sessions \ Used, form \in Maybe(Forms("auth")) :
    /\ \A x \in Sessions \ Used : s <= x
    /\ stored' = stored \cup {s}
    /\ IF form # None THEN Call(t, "auth", "process", s, form, NoData)
                      ELSE Call(t, "none", "idle", None, None, NoData)
    /\ UNCHANGED <<gone, overlapped>>

(* Reading the store: in memory the call gets the session itself, Redis has
   it read first and written back next. *)
StepBegins(t) ==
  \E op \in Steps, s \in stored :
    \E form \in Forms(op) :
      /\ Call(t, op, IF kind = "redis" THEN "writeback" ELSE "process", s, form, NoData)
      /\ UNCHANGED <<stored, gone, overlapped>>

(* consume_session reads config and credentials. *)
ConsumeBegins(t) ==
  \E s \in stored :
    /\ Call(t, "consume", IF kind = "redis" THEN "writeback" ELSE "delete", s, None,
            IF kind = "redis" THEN NoData ELSE data[s])
    /\ UNCHANGED <<stored, gone, overlapped>>

(* get stores the session again, with a new time to live.  What it has read
   has a plain string for its vendor, and both callers ask it for `.value`:
   the call ends with an AttributeError. *)
WriteBack(t) ==
  /\ req[t].phase = "writeback"
  /\ stored' = stored \cup {req[t].sess}
  /\ EndCall(t)
  /\ UNCHANGED <<vendorVars, kind, data, built, calls, gone, overlapped>>

(***************************************************************************)
(* The steps                                                               *)
(***************************************************************************)
Raises(t) == EndCall(t) /\ UNCHANGED vendorVars

(* The adapter of these credentials is asked, if there is or can be one. *)
Ask(t, c) ==
  \/ CanCreate(c) /\ StartPost(t, c) /\ Continue(t, "wait")
  \/ ~CanCreate(c) /\ Raises(t)                         \* TypeError

Processes(t, op) ==
  /\ req[t].phase = "process" /\ req[t].op = op
  /\ UNCHANGED <<kind, stored, data, built, calls, gone, overlapped>>

(* The first step logs in with what the form holds, the station step with
   what the session holds. *)
Auth(t) == Processes(t, "auth") /\ Ask(t, req[t].form)

HuaweiStation(t) ==
  LET c == data[req[t].sess].cred IN
  /\ Processes(t, "station") /\ vendor = "huawei"
  /\ IF c = None THEN Raises(t) ELSE Ask(t, c)

(* The GoodWe step calls get_powerstation_detail, which the adapter does not
   have: an AttributeError, but a new adapter is cached by then. *)
GoodWeStation(t) ==
  LET c == data[req[t].sess].cred IN
  /\ Processes(t, "station") /\ vendor = "goodwe"
  /\ IF c = None \/ cache[c.user] # None \/ ~supplied
     THEN Raises(t)
     ELSE Miss(t, c) /\ Continue(t, "wait")

Make(t) ==
  /\ MakeAdapter(t, IF vendor = "goodwe" /\ req[t].op = "station" THEN "failed" ELSE "login")
  /\ UNCHANGED wizardVars

(* device and details work on what the session holds; a device must be of
   the station last listed. *)
ProcessLocal(t) ==
  LET r == req[t]
      d == data[r.sess] IN
  /\ r.phase = "process" /\ r.op \in {"device", "details"}
  /\ IF \/ r.op = "device" /\ d.station = r.form
        \/ r.op = "details" /\ d.details # None
     THEN Continue(t, "merge")
     ELSE EndCall(t)
  /\ UNCHANGED <<vendorVars, kind, stored, data, built, calls, gone, overlapped>>

\* Mutant: the selection is stored, not the value in it.
MergedWhole(d, r) ==
  IF r.op = "auth" THEN [d EXCEPT !.cred = r.form]
                   ELSE [d EXCEPT !.station = r, !.details = r]

(* _merge_step_result: the form is merged into the config, unless the step
   is auth; a final config, made of the details the step has read and of
   the form, replaces it. *)
Merged(d, r) ==
  CASE r.op = "auth" -> [d EXCEPT !.cred = r.form]
    [] r.op = "station" -> [d EXCEPT !.station = r.form, !.config.station = r.form]
    [] r.op = "device" -> [d EXCEPT !.details = r.form, !.config.extra = TRUE]
    [] OTHER -> [d EXCEPT !.config = [station |-> r.form.unit, unit |-> r.form.unit,
                                      extra |-> FALSE, named |-> r.form.named]]

(* The session is persisted before the final config is validated. *)
StoreResult(t) ==
  LET r == req[t] IN
  /\ data' = [data EXCEPT ![r.sess] = Merged(@, r)]
  /\ stored' = stored \cup {r.sess}

Merge(t) ==
  /\ req[t].phase = "merge"
  /\ StoreResult(t)
  /\ EndCall(t)
  /\ UNCHANGED <<vendorVars, kind, built, calls, gone, overlapped>>

(* The vendor has answered, or the call to it raises. *)
Answered(t) ==
  /\ req[t].phase = "wait" /\ post[t].phase = "ok"
  /\ EndPost(t)
  /\ StoreResult(t)
  /\ EndCall(t)
  /\ UNCHANGED <<kind, built, calls, gone, overlapped>>

NotAnswered(t) ==
  /\ req[t].phase = "wait" /\ post[t].phase = "failed"
  /\ EndPost(t)
  /\ EndCall(t)
  /\ UNCHANGED <<kind, stored, data, built, calls, gone, overlapped>>

(***************************************************************************)
(* create_provider_from_wizard                                             *)
(***************************************************************************)
\* Mutant: the session is not deleted.
Stays(s, others) ==
  /\ stored' = stored
  /\ gone' = gone \cup {s}
  /\ overlapped' = IF others = {} THEN overlapped ELSE overlapped \cup {s}

Went(s, others) ==
  /\ stored' = stored \ {s}
  /\ gone' = gone \cup {s}
  /\ overlapped' = IF others = {} THEN overlapped ELSE overlapped \cup {s}

(* consume_session has read the session; now it deletes it. *)
Delete(t) ==
  /\ req[t].phase = "delete"
  /\ Went(req[t].sess, Holding(req[t].sess) \ {t})
  /\ Continue(t, "create")
  /\ UNCHANGED <<vendorVars, kind, data, built, calls>>

(* What create_for_user requires of the config and the credentials. *)
ConfigValid(d) == d.config.station # None /\ d.config.named /\ ~d.config.extra
HasExternalId(d) == d.config.unit # None

(* One row for each inverter of a user: asked for first, and a constraint. *)
Unique(d) == \A p \in built : p.unit # d.config.unit

Creatable(d) == d.cred # None /\ ConfigValid(d) /\ HasExternalId(d) /\ Unique(d)

CreateProvider(t) ==
  LET d == req[t].copy IN
  /\ req[t].phase = "create"
  /\ built' = IF Creatable(d)
              THEN built \cup {[sess |-> req[t].sess, unit |-> d.config.unit, cred |-> d.cred]}
              ELSE built
  /\ EndCall(t)
  /\ UNCHANGED <<vendorVars, kind, stored, data, calls, gone, overlapped>>

(* Redis: the time to live is over. *)
Expire(s) ==
  /\ kind = "redis" /\ s \in stored
  /\ Went(s, Holding(s))
  /\ UNCHANGED <<vendorVars, kind, data, req, built, calls>>

Next ==
  \/ \E t \in Threads :
       \/ CreateSession(t) \/ StepBegins(t) \/ ConsumeBegins(t) \/ WriteBack(t)
       \/ Auth(t) \/ HuaweiStation(t) \/ GoodWeStation(t) \/ Make(t)
       \/ Answered(t) \/ NotAnswered(t) \/ ProcessLocal(t) \/ Merge(t)
       \/ Delete(t) \/ CreateProvider(t)
       \/ VendorStep(t) /\ UNCHANGED wizardVars
  \/ \E s \in Sessions : Expire(s)
  \/ ClearCache /\ UNCHANGED wizardVars

Spec == Init /\ [][Next]_vars

-----------------------------------------------------------------------------
TypeOK ==
  /\ VendorTypeOK
  /\ kind \in {"memory", "redis"}
  /\ stored \subseteq Sessions /\ gone \subseteq Sessions /\ overlapped \subseteq gone
  /\ data \in [Sessions -> SessionData]
  /\ calls \in 0..MaxCalls
  /\ \A t \in Threads :
       /\ req[t].sess \in Maybe(Sessions) /\ req[t].copy \in SessionData
       /\ (req[t].phase = "wait") = (post[t].phase # "none")
  /\ \A p \in built : p.sess \in Sessions /\ p.unit \in Stations /\ p.cred \in Credentials

(* The credentials a session or a provider got from the wizard are those the
   vendor accepted, whoever replaces or clears cached adapters meanwhile.  One
   way leads past the check: the call found an adapter that was cached under
   the account's name with the right password and answers for any other. *)
Proven(c) == Accepts[c.user] = c.password \/ c \in misled

AuthVerifies ==
  /\ \A s \in Sessions : data[s].cred # None => Proven(data[s].cred)
  /\ \A p \in built : Proven(p.cred)

(* A session that was consumed or has expired stays away and makes at most
   one provider, unless another call held it when it went: reading and
   deleting are two steps, and a step that ends late stores it again. *)
ConsumedOnce ==
  \A s \in gone \ overlapped :
    /\ s \notin stored
    /\ \A p, q \in {b \in built : b.sess = s} : p = q
=============================================================================

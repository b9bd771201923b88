--------------------------- MODULE VendorSessions ---------------------------
(***************************************************************************)
(* The vendor adapters as the wizard uses them: the process-wide cache of  *)
(* VendorAdapterFactory, the session a cached adapter keeps with its       *)
(* vendor, and the HTTP calls of threads that share one.  A thread's call  *)
(* is one `_post`: Huawei logs in when it must and again when it is told   *)
(* to, GoodWe logs in before every call and points the adapter at the      *)
(* login host meanwhile.                                                   *)
(*                                                                         *)
(* A transport failure stands for the max_retries attempts of one request; *)
(* the business data of an answer is left out.                             *)
(***************************************************************************)
CONSTANTS Threads,    \* threads of the process
          Users,      \* account names at the vendor, the keys of the cache
          Passwords,
          Accepts,    \* [Users -> Passwords]: what the vendor takes
          Objects,    \* bound: adapters in memory at one time
          None

ASSUME AcceptsAssumption == Accepts \in [Users -> Passwords]

VARIABLES vendor,     \* the vendor this behaviour is about
          supplied,   \* do the registered adapter_settings hold provider_id, ...?
          cache,      \* _ADAPTER_CACHE: [Users -> object or None]
          adapter,    \* [Objects -> adapter or None]
          post,       \* [Threads -> the call a thread is in]
          misled      \* history: credentials for which an adapter was used
                      \* that is cached with the account's other, right password
vendorVars == <<vendor, supplied, cache, adapter, post, misled>>

Credentials == [user : Users, password : Passwords]

Adapters == [user     : Users,
             password : Passwords,
             logged   : BOOLEAN,            \* Huawei: _logged_in, some login was accepted
             base     : {"login", "api"},   \* GoodWe: base_url
             ids      : BOOLEAN]            \* GoodWe: _powerstation_ids is set

Posts == [phase : {"none", "create", "login", "sent", "call", "retry", "last", "ok", "failed"},
          cred  : Credentials \cup {None},    \* those an adapter is to be made with
          obj   : Objects \cup {None},
          after : {"call", "retry", "last"},  \* where a login returns to
          old   : {"login", "api"},           \* GoodWe: old_base_url
          alone : BOOLEAN]                    \* history: no other call met this one

ASSUME NoAccount == None \notin Credentials /\ None \notin Objects /\ None \notin Adapters

NoPost == [phase |-> "none", cred |-> None, obj |-> None, after |-> "call",
           old |-> "login", alone |-> TRUE]

NewAdapter(c) == [user |-> c.user, password |-> c.password, logged |-> FALSE,
                  base |-> "login", ids |-> FALSE]

VendorInit ==
  /\ vendor \in {"huawei", "goodwe"}
  /\ supplied \in BOOLEAN
  /\ cache = [u \in Users |-> None]
  /\ adapter = [o \in Objects |-> None]
  /\ post = [t \in Threads |-> NoPost]
  /\ misled = {}

\* Mutant: a rejected login counts as long as the HTTP status is good.
AnyAnswer(a) == TRUE

(* The vendor's verdict on the account and password of an adapter. *)
Accepted(a) == a.password = Accepts[a.user]

(* GoodWe calls in progress on an adapter. *)
Active(o) == {t \in Threads : /\ vendor = "goodwe" /\ post[t].obj = o
                              /\ post[t].phase \notin {"ok", "failed"}}

(* A call begins.  _ensure_login of Huawei logs in first when no login was
   accepted so far or 25 minutes have passed since the last good answer;
   GoodWe answers from its list of power stations once it has one. *)
FirstPhases(a) ==
  CASE vendor = "huawei" -> {"login"} \cup IF a.logged THEN {"call"} ELSE {}
    [] OTHER -> IF a.ids THEN {"ok"} ELSE {"login"}

(***************************************************************************)
(* VendorAdapterFactory.create: the cached adapter of the account, else a  *)
(* new one with these credentials, which replaces what another thread has  *)
(* cached since.  Both adapters require provider arguments the wizard does *)
(* not pass: without settings that supply them nothing gets cached.        *)
(***************************************************************************)
CanCreate(c) == cache[c.user] # None \/ supplied

FindCached(t, c) ==
  LET o == cache[c.user] IN
  /\ o # None
  /\ \E phase \in FirstPhases(adapter[o]) :
       post' = [x \in Threads |->
         IF x = t THEN [NoPost EXCEPT !.obj = o, !.phase = phase, !.alone = Active(o) = {}]
         ELSE IF x \in Active(o) THEN [post[x] EXCEPT !.alone = FALSE]
         ELSE post[x]]
  /\ misled' = IF Accepted(adapter[o]) /\ adapter[o].password # c.password
               THEN misled \cup {c} ELSE misled
  /\ UNCHANGED <<vendor, supplied, cache, adapter>>

Miss(t, c) ==
  /\ cache[c.user] = None /\ supplied
  /\ post' = [post EXCEPT ![t] = [NoPost EXCEPT !.phase = "create", !.cred = c]]
  /\ UNCHANGED <<vendor, supplied, cache, adapter, misled>>

StartPost(t, c) == FindCached(t, c) \/ Miss(t, c)

(* What nothing refers to any more is gone. *)
Referred(o) == (\E u \in Users : cache[u] = o) \/ (\E t \in Threads : post[t].obj = o)
Kept(objects) == [o \in Objects |-> IF Referred(o)' THEN objects[o] ELSE None]

(* The call goes on with the adapter its thread has made. *)
MakeAdapter(t, phase) ==
  LET c == post[t].cred IN
  /\ post[t].phase = "create"
  /\ \E o \in Objects :
       /\ ~Referred(o)
       /\ cache' = [cache EXCEPT ![c.user] = o]
       /\ post' = [post EXCEPT ![t] = [NoPost EXCEPT !.obj = o, !.phase = phase]]
       /\ adapter' = Kept([adapter EXCEPT ![o] = NewAdapter(c)])
  /\ UNCHANGED <<vendor, supplied, misled>>

(* The call is over. *)
EndPost(t) ==
  /\ post' = [post EXCEPT ![t] = NoPost]
  /\ UNCHANGED <<vendor, supplied, cache, misled>>
  /\ adapter' = Kept(adapter)

(* clear_cache, which services that use the factory may call.  Calls under
   way go on with their adapters. *)
ClearCache ==
  /\ \E u \in Users : cache[u] # None
  /\ cache' = [u \in Users |-> None]
  /\ UNCHANGED <<vendor, supplied, post, misled>>
  /\ adapter' = Kept(adapter)

(* The next point of the call; what a login had to remember is forgotten. *)
Goto(t, phase) ==
  post' = [post EXCEPT ![t] = [NoPost EXCEPT !.obj = post[t].obj, !.alone = post[t].alone,
                                             !.phase = phase]]

(* _request gives up after max_retries attempts, or the answer is bad. *)
GivesUp(t) == Goto(t, "failed") /\ UNCHANGED adapter

(***************************************************************************)
(* Huawei                                                                  *)
(***************************************************************************)
HuaweiLogin(t) ==
  LET o == post[t].obj IN
  /\ vendor = "huawei" /\ post[t].phase = "login"
  /\ \/ /\ Accepted(adapter[o])
        /\ adapter' = [adapter EXCEPT ![o].logged = TRUE]
        /\ Goto(t, post[t].after)
     \/ GivesUp(t)                                  \* refused or not reached
  /\ UNCHANGED <<vendor, supplied, cache, misled>>

(* The request proper and its repetitions: a 401 is answered by a login and
   one repetition, USER_MUST_RELOGIN, also as the answer of that repetition,
   by a login and a last one.  The vendor may end a session at any time. *)
HuaweiCall(t) ==
  LET o == post[t].obj IN
  /\ vendor = "huawei" /\ post[t].phase \in {"call", "retry", "last"}
  /\ \/ adapter[o].logged /\ Goto(t, "ok") /\ UNCHANGED adapter
     \/ \E next \in IF post[t].phase = "call" THEN {"retry", "last"}
                    ELSE IF post[t].phase = "retry" THEN {"last"} ELSE {} :
          /\ post' = [post EXCEPT ![t].phase = "login", ![t].after = next]
          /\ UNCHANGED adapter
     \/ GivesUp(t)
  /\ UNCHANGED <<vendor, supplied, cache, misled>>

(***************************************************************************)
(* GoodWe                                                                  *)
(***************************************************************************)
(* _authenticate points the adapter, not only this call, at the login host. *)
GoodWeSendLogin(t) ==
  LET o == post[t].obj IN
  /\ vendor = "goodwe" /\ post[t].phase = "login"
  /\ post' = [post EXCEPT ![t].phase = "sent", ![t].old = adapter[o].base]
  /\ adapter' = [adapter EXCEPT ![o].base = "login"]
  /\ UNCHANGED <<vendor, supplied, cache, misled>>

\* Mutant: the URL of the API is not set.
OldBase(t, ok) == post[t].old

(* The finally clause restores the base URL this thread has seen; a good
   answer then sets that of the API. *)
BaseAfterLogin(t, ok) == IF ok THEN "api" ELSE post[t].old

GoodWeEndLogin(t) ==
  LET o == post[t].obj IN
  /\ vendor = "goodwe" /\ post[t].phase = "sent"
  /\ \E ok \in {TRUE, FALSE} :
       /\ ok => Accepted(adapter[o])
       /\ adapter' = [adapter EXCEPT ![o].base = BaseAfterLogin(t, ok)]
       /\ Goto(t, IF ok THEN "call" ELSE "failed")
  /\ UNCHANGED <<vendor, supplied, cache, misled>>

(* The data request goes where base_url points at that moment; the login
   host does not answer it. *)
GoodWeCall(t) ==
  LET o == post[t].obj IN
  /\ vendor = "goodwe" /\ post[t].phase = "call"
  /\ \/ /\ adapter[o].base = "api"
        /\ adapter' = [adapter EXCEPT ![o].ids = TRUE]
        /\ Goto(t, "ok")
     \/ GivesUp(t)
  /\ UNCHANGED <<vendor, supplied, cache, misled>>

VendorStep(t) ==
  \/ HuaweiLogin(t) \/ HuaweiCall(t)
  \/ GoodWeSendLogin(t) \/ GoodWeEndLogin(t) \/ GoodWeCall(t)

VendorTypeOK ==
  /\ vendor \in {"huawei", "goodwe"} /\ supplied \in BOOLEAN
  /\ cache \in [Users -> Objects \cup {None}]
  /\ adapter \in [Objects -> Adapters \cup {None}]
  /\ post \in [Threads -> Posts]
  /\ misled \subseteq Credentials
  /\ \A u \in Users : cache[u] # None => adapter[cache[u]] # None /\ adapter[cache[u]].user = u
  /\ \A t \in Threads :
       /\ post[t].phase = "create" <=> post[t].cred # None
       /\ post[t].phase \in {"none", "create"} <=> post[t].obj = None
       /\ post[t].obj # None => adapter[post[t].obj] # None

(* A call that no other thread's call on the same adapter has met sends its
   data request to the API host the vendor assigned at login.  Two that meet
   can send one to the login host: the adapter, not the call, holds the URL. *)
SpeaksToApi ==
  \A t \in Threads :
    vendor = "goodwe" /\ post[t].phase = "call" /\ post[t].alone
      => adapter[post[t].obj].base = "api"
=============================================================================

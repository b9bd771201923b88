------------------------- MODULE ProviderWizardProofs -------------------------
(***************************************************************************)
(* The wizard's sessions and the vendor adapters they share, for every     *)
(* number of threads, accounts, adapters, sessions and calls.              *)
(***************************************************************************)
EXTENDS ProviderWizard, TLAPS

(* The adapters and the calls to the vendor. *)

\* A call in one of these phases does not use its adapter.
Off == {"none", "create", "ok", "failed"}

\* What a vendor answered, it answered to a password it accepts.
AcceptedOnly ==
  /\ \A o \in Objects : adapter[o] # None /\ (adapter[o].logged \/ adapter[o].ids)
       => Accepted(adapter[o])
  /\ \A t \in Threads : post[t].phase = "ok" \/ (vendor = "goodwe" /\ post[t].phase = "call")
       => Accepted(adapter[post[t].obj])

\* No other call is under way on the adapter of a call that met none.
LoneCalls ==
  vendor = "goodwe" =>
    \A t \in Threads : post[t].alone /\ post[t].phase \notin Off =>
      \A q \in Threads \ {t} : post[q].obj = post[t].obj => post[q].phase \in Off

VendorInv == VendorTypeOK /\ AcceptedOnly /\ LoneCalls /\ SpeaksToApi

\* A call keeps its adapter, and that the account and password it was made with.
SameAdapter(q) ==
  /\ post'[q].obj = post[q].obj
  /\ post[q].obj # None => /\ adapter'[post[q].obj].user = adapter[post[q].obj].user
                           /\ adapter'[post[q].obj].password = adapter[post[q].obj].password

CallStays(q) ==
  post'[q].phase = post[q].phase /\ post'[q].cred = post[q].cred /\ SameAdapter(q)

OthersStay(t) == misled \subseteq misled' /\ \A q \in Threads \ {t} : CallStays(q)

LEMMA VendorTypes ==
  ASSUME VendorInv
  PROVE  /\ adapter \in [Objects -> Adapters \cup {None}] /\ post \in [Threads -> Posts]
         /\ cache \in [Users -> Objects \cup {None}] /\ misled \subseteq Credentials
         /\ \A t \in Threads : post[t].phase \notin {"none", "create"} =>
              /\ post[t].obj \in Objects /\ post[t].cred = None
              /\ adapter[post[t].obj] \in Adapters
              /\ adapter[post[t].obj] # None
BY NoAccount DEF VendorInv, VendorTypeOK, Posts

LEMMA NewAdapterIsTyped ==
  ASSUME NEW c \in Credentials
  PROVE  /\ NewAdapter(c) \in Adapters /\ NewAdapter(c).user = c.user
         /\ NewAdapter(c).password = c.password
         /\ ~NewAdapter(c).logged /\ ~NewAdapter(c).ids
BY DEF NewAdapter, Adapters, Credentials

LEMMA VendorMove ==
  ASSUME VendorInv, NEW t \in Threads, NEW b \in Adapters, NEW w \in Posts,
         post[t].phase \notin Off,
         b.user = adapter[post[t].obj].user, b.password = adapter[post[t].obj].password,
         b.logged \/ b.ids => Accepted(b),
         w.obj = post[t].obj, w.cred = None, w.alone = post[t].alone,
         w.phase \notin {"none", "create"},
         w.phase = "ok" \/ (vendor = "goodwe" /\ w.phase = "call") => Accepted(b),
         vendor = "goodwe" /\ w.phase = "call" => b.base = "api",
         adapter' = [adapter EXCEPT ![post[t].obj] = b],
         post' = [post EXCEPT ![t] = w], UNCHANGED <<vendor, supplied, cache, misled>>
  PROVE  /\ VendorInv' /\ OthersStay(t) /\ SameAdapter(t)
         /\ post'[t].phase \notin {"none", "create"}
<1> DEFINE o == post[t].obj
<1>1. /\ o \in Objects /\ adapter[o] # None /\ adapter[o] \in Adapters
      /\ adapter \in [Objects -> Adapters \cup {None}] /\ post \in [Threads -> Posts]
      /\ cache \in [Users -> Objects \cup {None}]
  BY VendorTypes DEF Off
<1>2. /\ \A x \in Objects : adapter'[x] = IF x = o THEN b ELSE adapter[x]
      /\ \A q \in Threads : post'[q] = IF q = t THEN w ELSE post[q]
      /\ w.obj = o /\ b # None
  BY <1>1, NoAccount
<1>3. adapter' \in [Objects -> Adapters \cup {None}] /\ post' \in [Threads -> Posts]
  BY <1>1
<1>4. \A q \in Threads : post[q].phase \notin {"none", "create"} => post[q].obj \in Objects
  BY VendorTypes
<1>5. \A x \in Objects : adapter'[x].user = adapter[x].user /\ adapter'[x].password = adapter[x].password
  BY <1>2
<1> HIDE DEF o
<1>6. OthersStay(t) /\ SameAdapter(t)
  <2>1. ASSUME NEW q \in Threads, q # t PROVE CallStays(q)
    <3>1. post[q].obj # None => post[q].obj \in Objects
      BY <1>1 DEF Posts
    <3> QED
      BY <1>2, <1>5, <2>1, <3>1 DEF CallStays, SameAdapter
  <2>2. SameAdapter(t)
    BY <1>1, <1>2, <1>5 DEF SameAdapter, o
  <2> QED
    BY <2>1, <2>2 DEF OthersStay
<1>7. VendorTypeOK'
  <2>1. \A u \in Users : cache'[u] # None =>
          adapter'[cache'[u]] # None /\ adapter'[cache'[u]].user = u
    BY <1>1, <1>2, <1>5 DEF VendorInv, VendorTypeOK
  <2>2. \A q \in Threads :
          /\ post'[q].phase = "create" <=> post'[q].cred # None
          /\ post'[q].phase \in {"none", "create"} <=> post'[q].obj = None
          /\ post'[q].obj # None => adapter'[post'[q].obj] # None
    BY <1>1, <1>2, NoAccount DEF VendorInv, VendorTypeOK, Posts
  <2> QED
    BY <1>3, <2>1, <2>2 DEF VendorInv, VendorTypeOK
<1>8. AcceptedOnly'
  <2>1. \A x \in Objects : adapter'[x] # None /\ (adapter'[x].logged \/ adapter'[x].ids)
          => Accepted(adapter'[x])
    BY <1>2 DEF VendorInv, AcceptedOnly
  <2>2. \A q \in Threads : post'[q].phase = "ok" \/ (vendor = "goodwe" /\ post'[q].phase = "call")
          => Accepted(adapter'[post'[q].obj])
    <3> SUFFICES ASSUME NEW q \in Threads, q # t,
                        post[q].phase = "ok" \/ (vendor = "goodwe" /\ post[q].phase = "call")
                 PROVE  Accepted(adapter'[post[q].obj])
      BY <1>1, <1>2
    <3>1. post[q].obj \in Objects /\ Accepted(adapter[post[q].obj])
      BY <1>4 DEF VendorInv, AcceptedOnly
    <3> QED
      BY <1>5, <3>1 DEF Accepted
  <2> QED
    BY <2>1, <2>2 DEF AcceptedOnly
<1>9. LoneCalls'
  BY <1>2 DEF VendorInv, LoneCalls, Off, o
<1>10. SpeaksToApi'
  <2> SUFFICES ASSUME NEW q \in Threads, q # t, vendor = "goodwe", post[q].phase = "call",
                      post[q].alone
               PROVE  adapter'[post[q].obj].base = "api"
    BY <1>1, <1>2 DEF SpeaksToApi
  <2>1. post[q].obj # o
    BY DEF VendorInv, LoneCalls, Off, o
  <2>2. post[q].obj \in Objects
    BY <1>4
  <2> QED
    BY <1>2, <2>1, <2>2 DEF VendorInv, SpeaksToApi
<1> QED
  BY <1>2, <1>6, <1>7, <1>8, <1>9, <1>10 DEF VendorInv

\* A call that begins on the adapter cached for its account.
LEMMA FindCachedInv ==
  ASSUME VendorInv, NEW t \in Threads, NEW c \in Credentials, post[t].phase = "none",
         FindCached(t, c)
  PROVE  /\ VendorInv' /\ OthersStay(t) /\ post'[t].phase \notin {"none", "create"}
         /\ Accepted(adapter'[post'[t].obj]) => Accepts[c.user] = c.password \/ c \in misled'
<1> DEFINE o == cache[c.user]
<1>1. c.user \in Users /\ c.password \in Passwords
  BY DEF Credentials
<1>2. /\ adapter \in [Objects -> Adapters \cup {None}] /\ post \in [Threads -> Posts]
      /\ o # None /\ o \in Objects /\ adapter[o] # None /\ adapter[o] \in Adapters
      /\ adapter[o].user = c.user
  <2>1. o # None
    BY DEF FindCached
  <2>2. o \in Objects
    BY <1>1, <2>1, VendorTypes
  <2> HIDE DEF o
  <2>3. adapter[o] # None /\ adapter[o].user = c.user
    BY <1>1, <2>1 DEF VendorInv, VendorTypeOK, o
  <2> QED
    BY <2>1, <2>2, <2>3, VendorTypes
<1>3. UNCHANGED <<vendor, supplied, cache, adapter>>
  BY DEF FindCached
<1>4. PICK phase \in FirstPhases(adapter[o]) :
        post' = [x \in Threads |->
          IF x = t THEN [NoPost EXCEPT !.obj = o, !.phase = phase, !.alone = Active(o) = {}]
          ELSE IF x \in Active(o) THEN [post[x] EXCEPT !.alone = FALSE]
          ELSE post[x]]
  BY DEF FindCached
<1>5. misled' = IF Accepted(adapter[o]) /\ adapter[o].password # c.password
                THEN misled \cup {c} ELSE misled
  BY DEF FindCached
<1> HIDE DEF o
<1>6. /\ phase \in {"login", "call", "ok"}
      /\ vendor = "goodwe" => phase # "call"
      /\ phase = "ok" => Accepted(adapter[o])
  BY <1>2 DEF FirstPhases, VendorInv, VendorTypeOK, AcceptedOnly
<1>7. /\ post'[t] \in Posts /\ post'[t].obj = o /\ post'[t].phase = phase
      /\ post'[t].cred = None /\ (post'[t].alone => Active(o) = {})
  BY <1>2, <1>4, <1>6 DEF NoPost, Posts
<1>8. \A q \in Threads \ {t} :
        /\ post'[q] \in Posts /\ post'[q].obj = post[q].obj /\ post'[q].phase = post[q].phase
        /\ post'[q].cred = post[q].cred
        /\ post'[q].alone => post[q].alone /\ q \notin Active(o)
  <2> SUFFICES ASSUME NEW q \in Threads, q # t
               PROVE  /\ post'[q] \in Posts /\ post'[q].obj = post[q].obj
                      /\ post'[q].phase = post[q].phase /\ post'[q].cred = post[q].cred
                      /\ post'[q].alone => post[q].alone /\ q \notin Active(o)
    OBVIOUS
  <2>1. CASE q \in Active(o)
    <3>1. post'[q] = [post[q] EXCEPT !.alone = FALSE]
      BY <1>4, <2>1
    <3>2. post[q] \in Posts
      BY <1>2
    <3>3. /\ [post[q] EXCEPT !.alone = FALSE] \in Posts
          /\ [post[q] EXCEPT !.alone = FALSE].obj = post[q].obj
          /\ [post[q] EXCEPT !.alone = FALSE].phase = post[q].phase
          /\ [post[q] EXCEPT !.alone = FALSE].cred = post[q].cred
          /\ ~[post[q] EXCEPT !.alone = FALSE].alone
      BY <3>2 DEF Posts
    <3> QED
      BY <3>1, <3>3
  <2>2. CASE q \notin Active(o)
    <3>1. post'[q] = post[q]
      BY <1>4, <2>2
    <3> QED
      BY <1>2, <2>2, <3>1
  <2> QED
    BY <2>1, <2>2
<1>9. post' \in [Threads -> Posts]
  <2>1. post' = [x \in Threads |-> post'[x]]
    BY <1>4
  <2> QED
    BY <1>7, <1>8, <2>1
<1>10. OthersStay(t)
  BY <1>3, <1>5, <1>8 DEF OthersStay, CallStays, SameAdapter
<1>11. VendorTypeOK'
  <2>1. misled' \subseteq Credentials
    BY <1>5, VendorTypes
  <2>2. \A q \in Threads :
          /\ post'[q].phase = "create" <=> post'[q].cred # None
          /\ post'[q].phase \in {"none", "create"} <=> post'[q].obj = None
          /\ post'[q].obj # None => adapter'[post'[q].obj] # None
    <3>1. ASSUME NEW q \in Threads, q # t
          PROVE  /\ post'[q].phase = "create" <=> post'[q].cred # None
                 /\ post'[q].phase \in {"none", "create"} <=> post'[q].obj = None
                 /\ post'[q].obj # None => adapter'[post'[q].obj] # None
      BY <1>3, <1>8, <3>1 DEF VendorInv, VendorTypeOK
    <3>2. /\ post'[t].phase = "create" <=> post'[t].cred # None
          /\ post'[t].phase \in {"none", "create"} <=> post'[t].obj = None
          /\ post'[t].obj # None => adapter'[post'[t].obj] # None
      BY <1>2, <1>3, <1>6, <1>7
    <3> QED
      BY <3>1, <3>2
  <2> QED
    BY <1>3, <1>9, <2>1, <2>2 DEF VendorInv, VendorTypeOK
<1>12. AcceptedOnly'
  BY <1>3, <1>6, <1>7, <1>8 DEF VendorInv, AcceptedOnly
<1>13. LoneCalls'
  <2> SUFFICES ASSUME NEW p \in Threads, vendor = "goodwe", post'[p].alone, post'[p].phase \notin Off,
                      NEW q \in Threads \ {p}, post'[q].obj = post'[p].obj
               PROVE  post'[q].phase \in Off
    BY <1>3 DEF LoneCalls
  <2>1. CASE p = t
    BY <1>7, <1>8, <2>1 DEF Active, Off
  <2>2. CASE p # t /\ q = t
    BY <1>7, <1>8, <2>2 DEF Active, Off
  <2>3. CASE p # t /\ q # t
    BY <1>8, <2>3 DEF VendorInv, LoneCalls
  <2> QED
    BY <2>1, <2>2, <2>3
<1>14. SpeaksToApi'
  BY <1>3, <1>6, <1>7, <1>8 DEF VendorInv, SpeaksToApi
<1>15. Accepted(adapter'[post'[t].obj]) => Accepts[c.user] = c.password \/ c \in misled'
  BY <1>2, <1>3, <1>5, <1>7 DEF Accepted
<1> QED
  BY <1>6, <1>7, <1>10, <1>11, <1>12, <1>13, <1>14, <1>15 DEF VendorInv

\* A call of a thread that found no adapter and is to make one, or of one that
\* is over.
LEMMA OffCall ==
  ASSUME VendorInv, NEW t \in Threads, NEW w \in Posts,
         w.phase \in {"none", "create"}, w.obj = None, w.phase = "create" <=> w.cred # None,
         post' = [post EXCEPT ![t] = w], UNCHANGED <<vendor, supplied, misled>>,
         cache' \in [Users -> Objects \cup {None}],
         \A u \in Users : cache'[u] = cache[u] \/ cache'[u] = None,
         adapter' \in [Objects -> Adapters \cup {None}],
         \A o \in Objects : adapter'[o] = adapter[o] \/ (adapter'[o] = None /\ ~Referred(o)')
  PROVE  VendorInv' /\ OthersStay(t) /\ post'[t] = w
<1>1. /\ post' \in [Threads -> Posts] /\ post \in [Threads -> Posts]
      /\ \A q \in Threads : post'[q] = IF q = t THEN w ELSE post[q]
  BY VendorTypes
<1>2. \A o \in Objects : (\E u \in Users : cache'[u] = o) \/ (\E q \in Threads : post'[q].obj = o)
        => adapter'[o] = adapter[o]
  BY DEF Referred
<1>3. \A q \in Threads \ {t} : post[q].obj # None =>
        post[q].obj \in Objects /\ adapter'[post[q].obj] = adapter[post[q].obj]
  BY <1>1, <1>2 DEF Posts
<1>4. OthersStay(t)
  BY <1>1, <1>3 DEF OthersStay, CallStays, SameAdapter
<1>5. VendorTypeOK'
  <2>1. \A u \in Users : cache'[u] # None =>
          adapter'[cache'[u]] # None /\ adapter'[cache'[u]].user = u
    BY <1>2 DEF VendorInv, VendorTypeOK
  <2>2. \A q \in Threads :
          /\ post'[q].phase = "create" <=> post'[q].cred # None
          /\ post'[q].phase \in {"none", "create"} <=> post'[q].obj = None
          /\ post'[q].obj # None => adapter'[post'[q].obj] # None
    BY <1>1, <1>3 DEF VendorInv, VendorTypeOK
  <2> QED
    BY <1>1, <2>1, <2>2 DEF VendorInv, VendorTypeOK
<1>6. AcceptedOnly'
  <2>1. \A o \in Objects : adapter'[o] # None /\ (adapter'[o].logged \/ adapter'[o].ids)
          => Accepted(adapter'[o])
    BY DEF VendorInv, AcceptedOnly
  <2>2. ASSUME NEW q \in Threads,
               post'[q].phase = "ok" \/ (vendor = "goodwe" /\ post'[q].phase = "call")
        PROVE  Accepted(adapter'[post'[q].obj])
    <3>1. q # t /\ post'[q] = post[q]
      BY <1>1, <2>2
    <3>2. Accepted(adapter[post[q].obj]) /\ post[q].obj # None
      BY <2>2, <3>1 DEF VendorInv, VendorTypeOK, AcceptedOnly
    <3> QED
      BY <1>3, <3>1, <3>2
  <2> QED
    BY <2>1, <2>2 DEF AcceptedOnly
<1>7. LoneCalls'
  BY <1>1 DEF VendorInv, LoneCalls, Off
<1>8. SpeaksToApi'
  <2> SUFFICES ASSUME NEW q \in Threads, vendor = "goodwe", post'[q].phase = "call", post'[q].alone
               PROVE  adapter'[post'[q].obj].base = "api"
    BY DEF SpeaksToApi
  <2>1. q # t /\ post'[q] = post[q]
    BY <1>1
  <2>2. adapter[post[q].obj].base = "api" /\ post[q].obj # None
    BY <2>1 DEF VendorInv, VendorTypeOK, SpeaksToApi
  <2> QED
    BY <1>3, <2>1, <2>2
<1> QED
  BY <1>1, <1>4, <1>5, <1>6, <1>7, <1>8 DEF VendorInv

LEMMA MissInv ==
  ASSUME VendorInv, NEW t \in Threads, NEW c \in Credentials, Miss(t, c)
  PROVE  /\ VendorInv' /\ OthersStay(t)
         /\ post'[t].phase = "create" /\ post'[t].cred = c /\ post'[t].obj = None
<1> DEFINE w == [NoPost EXCEPT !.phase = "create", !.cred = c]
<1>1. /\ post' = [post EXCEPT ![t] = w] /\ UNCHANGED <<vendor, supplied, cache, adapter, misled>>
  BY DEF Miss
<1>2. w \in Posts /\ w.phase = "create" /\ w.cred = c /\ w.obj = None /\ c # None
  BY NoAccount DEF NoPost, Posts
<1> HIDE DEF w
<1> QED
  BY <1>1, <1>2, OffCall, VendorTypes

LEMMA EndPostInv ==
  ASSUME VendorInv, NEW t \in Threads, EndPost(t)
  PROVE  VendorInv' /\ OthersStay(t) /\ post'[t] = NoPost
<1>1. /\ post' = [post EXCEPT ![t] = NoPost] /\ UNCHANGED <<vendor, supplied, cache, misled>>
      /\ adapter' = [o \in Objects |-> IF Referred(o)' THEN adapter[o] ELSE None]
  BY DEF EndPost, Kept
<1>2. NoPost \in Posts /\ NoPost.phase = "none" /\ NoPost.cred = None /\ NoPost.obj = None
  BY DEF NoPost, Posts
<1>3. /\ adapter' \in [Objects -> Adapters \cup {None}]
      /\ \A o \in Objects : adapter'[o] = adapter[o] \/ (adapter'[o] = None /\ ~Referred(o)')
  BY <1>1, VendorTypes
<1> HIDE DEF NoPost
<1> QED
  BY <1>1, <1>2, <1>3, OffCall, VendorTypes

\* An emptied cache leaves the calls under way their adapters.
LEMMA ClearCacheInv ==
  ASSUME VendorInv, ClearCache
  PROVE  VendorInv' /\ misled' = misled /\ post' = post /\ \A q \in Threads : CallStays(q)
<1>1. /\ cache' = [u \in Users |-> None] /\ UNCHANGED <<vendor, supplied, post, misled>>
      /\ adapter' = [o \in Objects |-> IF Referred(o)' THEN adapter[o] ELSE None]
  BY DEF ClearCache, Kept
<1>2. \A q \in Threads : post[q].obj # None =>
        post[q].obj \in Objects /\ adapter'[post[q].obj] = adapter[post[q].obj]
  BY <1>1, VendorTypes DEF Posts, Referred
<1>3. \A o \in Objects : adapter'[o] = adapter[o] \/ adapter'[o] = None
  BY <1>1
<1>4. adapter' \in [Objects -> Adapters \cup {None}] /\ cache' \in [Users -> Objects \cup {None}]
  BY <1>1, VendorTypes
<1>5. \A u \in Users : cache'[u] = None
  BY <1>1
<1>6. VendorTypeOK'
  BY <1>1, <1>2, <1>4, <1>5 DEF VendorInv, VendorTypeOK
<1>7. AcceptedOnly'
  <2>1. \A o \in Objects : adapter'[o] # None /\ (adapter'[o].logged \/ adapter'[o].ids)
          => Accepted(adapter'[o])
    BY <1>3 DEF VendorInv, AcceptedOnly
  <2>2. \A q \in Threads : post[q].phase = "ok" \/ (vendor = "goodwe" /\ post[q].phase = "call")
          => Accepted(adapter'[post[q].obj])
    BY <1>2 DEF VendorInv, VendorTypeOK, AcceptedOnly
  <2> QED
    BY <1>1, <2>1, <2>2 DEF AcceptedOnly
<1>8. LoneCalls' /\ SpeaksToApi'
  BY <1>1, <1>2 DEF VendorInv, VendorTypeOK, LoneCalls, SpeaksToApi
<1>9. \A q \in Threads : CallStays(q)
  BY <1>1, <1>2 DEF CallStays, SameAdapter
<1> QED
  BY <1>1, <1>6, <1>7, <1>8, <1>9 DEF VendorInv

\* A thread has made an adapter, which replaces the one cached meanwhile.
LEMMA MakeAdapterInv ==
  ASSUME VendorInv, NEW t \in Threads, NEW phase \in {"login", "failed"}, MakeAdapter(t, phase)
  PROVE  /\ VendorInv' /\ OthersStay(t) /\ post[t].phase = "create"
         /\ post'[t].phase \notin {"none", "create"}
         /\ Accepted(adapter'[post'[t].obj]) => Accepts[post[t].cred.user] = post[t].cred.password
<1>1. PICK o \in Objects :
        /\ ~Referred(o)
        /\ cache' = [cache EXCEPT ![post[t].cred.user] = o]
        /\ post' = [post EXCEPT ![t] = [NoPost EXCEPT !.obj = o, !.phase = phase]]
        /\ adapter' = Kept([adapter EXCEPT ![o] = NewAdapter(post[t].cred)])
  BY DEF MakeAdapter
<1>2. post[t].phase = "create" /\ UNCHANGED <<vendor, supplied, misled>>
  BY DEF MakeAdapter
<1> DEFINE c == post[t].cred
           w == [NoPost EXCEPT !.obj = o, !.phase = phase]
           a == NewAdapter(c)
<1>3. /\ c \in Credentials /\ c.user \in Users /\ c.password \in Passwords
      /\ post \in [Threads -> Posts] /\ adapter \in [Objects -> Adapters \cup {None}]
      /\ cache \in [Users -> Objects \cup {None}]
  BY <1>2, VendorTypes DEF VendorInv, VendorTypeOK, Posts, Credentials
<1>4. /\ a \in Adapters /\ a.user = c.user /\ a.password = c.password
      /\ ~a.logged /\ ~a.ids /\ a # None
  BY <1>3, NewAdapterIsTyped, NoAccount
<1>5. /\ w \in Posts /\ w.obj = o /\ w.phase = phase /\ w.cred = None
  BY DEF NoPost, Posts
<1>6. o # None
  BY NoAccount
<1> HIDE DEF w, a
<1>7. /\ \A q \in Threads : post'[q] = IF q = t THEN w ELSE post[q]
      /\ post' \in [Threads -> Posts]
  BY <1>1, <1>3, <1>5 DEF w
<1>8. /\ \A u \in Users : cache'[u] = IF u = c.user THEN o ELSE cache[u]
      /\ cache' \in [Users -> Objects \cup {None}]
  BY <1>1, <1>3
<1> HIDE DEF c
<1>9. /\ adapter' = [x \in Objects |-> IF Referred(x)' THEN IF x = o THEN a ELSE adapter[x]
                                                       ELSE None]
      /\ adapter' \in [Objects -> Adapters \cup {None}]
  BY <1>1, <1>3, <1>4 DEF Kept, a, c
<1>10. \A x \in Objects : (\E u \in Users : cache'[u] = x) \/ (\E q \in Threads : post'[q].obj = x)
         => adapter'[x] = IF x = o THEN a ELSE adapter[x]
  BY <1>9 DEF Referred
<1>11. adapter'[o] = a
  BY <1>5, <1>7, <1>10
<1>12. \A q \in Threads \ {t} : post[q].obj # None =>
         /\ post[q].obj \in Objects /\ post[q].obj # o
         /\ adapter'[post[q].obj] = adapter[post[q].obj]
  BY <1>1, <1>3, <1>7, <1>10 DEF Referred, Posts
<1>13. OthersStay(t)
  BY <1>2, <1>7, <1>12 DEF OthersStay, CallStays, SameAdapter
<1>14. VendorTypeOK'
  <2>1. ASSUME NEW u \in Users, cache'[u] # None
        PROVE  adapter'[cache'[u]] # None /\ adapter'[cache'[u]].user = u
    <3>1. CASE u = c.user
      BY <1>4, <1>8, <1>11, <3>1
    <3>2. CASE u # c.user
      <4>1. cache'[u] = cache[u] /\ cache[u] \in Objects /\ cache[u] # o
        BY <1>1, <1>3, <1>8, <2>1, <3>2 DEF Referred
      <4>2. adapter'[cache[u]] = adapter[cache[u]]
        BY <1>10, <4>1
      <4> QED
        BY <2>1, <4>1, <4>2 DEF VendorInv, VendorTypeOK
    <3> QED
      BY <3>1, <3>2
  <2>2. \A q \in Threads :
          /\ post'[q].phase = "create" <=> post'[q].cred # None
          /\ post'[q].phase \in {"none", "create"} <=> post'[q].obj = None
          /\ post'[q].obj # None => adapter'[post'[q].obj] # None
    BY <1>4, <1>5, <1>6, <1>7, <1>11, <1>12 DEF VendorInv, VendorTypeOK
  <2> QED
    BY <1>2, <1>7, <1>8, <1>9, <2>1, <2>2 DEF VendorInv, VendorTypeOK
<1>15. AcceptedOnly'
  <2>1. \A x \in Objects : adapter'[x] # None /\ (adapter'[x].logged \/ adapter'[x].ids)
          => Accepted(adapter'[x])
    BY <1>4, <1>9 DEF VendorInv, AcceptedOnly
  <2>2. ASSUME NEW q \in Threads,
               post'[q].phase = "ok" \/ (vendor = "goodwe" /\ post'[q].phase = "call")
        PROVE  Accepted(adapter'[post'[q].obj])
    <3>1. q # t /\ post'[q] = post[q]
      BY <1>5, <1>7, <2>2
    <3>2. Accepted(adapter[post[q].obj]) /\ post[q].obj # None
      BY <1>2, <2>2, <3>1 DEF VendorInv, VendorTypeOK, AcceptedOnly
    <3> QED
      BY <1>12, <3>1, <3>2
  <2> QED
    BY <1>2, <2>1, <2>2 DEF AcceptedOnly
<1>16. LoneCalls'
  <2> SUFFICES ASSUME NEW p \in Threads, vendor = "goodwe", post'[p].alone, post'[p].phase \notin Off,
                      NEW q \in Threads \ {p}, post'[q].obj = post'[p].obj
               PROVE  post'[q].phase \in Off
    BY <1>2 DEF LoneCalls
  <2>1. CASE p # t /\ q # t
    BY <1>7, <2>1 DEF VendorInv, LoneCalls
  <2>2. CASE p = t \/ q = t
    BY <1>5, <1>6, <1>7, <1>12, <2>2
  <2> QED
    BY <2>1, <2>2
<1>17. SpeaksToApi'
  <2> SUFFICES ASSUME NEW q \in Threads, vendor = "goodwe", post'[q].phase = "call", post'[q].alone
               PROVE  adapter'[post'[q].obj].base = "api"
    BY <1>2 DEF SpeaksToApi
  <2>1. q # t /\ post'[q] = post[q]
    BY <1>5, <1>7
  <2>2. adapter[post[q].obj].base = "api" /\ post[q].obj # None
    BY <2>1 DEF VendorInv, VendorTypeOK, SpeaksToApi
  <2> QED
    BY <1>12, <2>1, <2>2
<1>18. Accepted(adapter'[post'[t].obj]) => Accepts[c.user] = c.password
  BY <1>4, <1>5, <1>7, <1>11 DEF Accepted
<1> QED
  BY <1>2, <1>5, <1>7, <1>13, <1>14, <1>15, <1>16, <1>17, <1>18 DEF VendorInv, c

\* The next step of a call to the vendor.
LEMMA VendorStepInv ==
  ASSUME VendorInv, NEW t \in Threads, VendorStep(t)
  PROVE  /\ VendorInv' /\ OthersStay(t) /\ SameAdapter(t)
         /\ post[t].phase \notin {"none", "create"} /\ post'[t].phase \notin {"none", "create"}
<1> DEFINE o == post[t].obj
           a == adapter[o]
           At(phase) == [phase |-> phase, cred |-> None, obj |-> o, after |-> "call",
                         old |-> "login", alone |-> post[t].alone]
<1>1. /\ post[t].phase \in {"login", "sent", "call", "retry", "last"}
      /\ UNCHANGED <<vendor, supplied, cache, misled>>
  BY DEF VendorStep, HuaweiLogin, HuaweiCall, GoodWeSendLogin, GoodWeEndLogin, GoodWeCall
<1>2. /\ post[t] \in Posts /\ post \in [Threads -> Posts] /\ post[t].cred = None
      /\ o \in Objects /\ a \in Adapters
      /\ adapter \in [Objects -> Adapters \cup {None}]
      /\ a.logged \/ a.ids => Accepted(a)
      /\ vendor = "goodwe" /\ post[t].phase = "call" => Accepted(a)
  BY <1>1, VendorTypes DEF VendorInv, AcceptedOnly
<1> HIDE DEF o, a
<1>3. \A phase \in {"login", "call", "retry", "last", "ok", "failed"} :
        /\ At(phase) \in Posts /\ At(phase).phase = phase /\ At(phase).cred = None
        /\ At(phase).obj = o /\ At(phase).alone = post[t].alone
  BY <1>2 DEF Posts
<1>4. \A phase : Goto(t, phase) => post' = [post EXCEPT ![t] = At(phase)]
  BY DEF Goto, NoPost, o
<1> HIDE DEF At
<1>5. PICK b \in Adapters, w \in Posts :
        /\ adapter' = [adapter EXCEPT ![o] = b] /\ post' = [post EXCEPT ![t] = w]
        /\ b.user = a.user /\ b.password = a.password /\ (b.logged \/ b.ids => Accepted(b))
        /\ w.obj = o /\ w.cred = None /\ w.alone = post[t].alone
        /\ w.phase \notin {"none", "create"}
        /\ w.phase = "ok" \/ (vendor = "goodwe" /\ w.phase = "call") => Accepted(b)
        /\ vendor = "goodwe" /\ w.phase = "call" => b.base = "api"
  <2> DEFINE Moves(b, w) ==
        /\ b \in Adapters /\ w \in Posts
        /\ adapter' = [adapter EXCEPT ![o] = b] /\ post' = [post EXCEPT ![t] = w]
        /\ b.user = a.user /\ b.password = a.password /\ (b.logged \/ b.ids => Accepted(b))
        /\ w.obj = o /\ w.cred = None /\ w.alone = post[t].alone
        /\ w.phase \notin {"none", "create"}
        /\ w.phase = "ok" \/ (vendor = "goodwe" /\ w.phase = "call") => Accepted(b)
        /\ vendor = "goodwe" /\ w.phase = "call" => b.base = "api"
  <2>1. adapter = [adapter EXCEPT ![o] = a]
    BY <1>2 DEF a
  <2>3. CASE GivesUp(t)
    <3>1. post' = [post EXCEPT ![t] = At("failed")] /\ adapter' = adapter
      BY <1>4, <2>3 DEF GivesUp
    <3>2. Moves(a, At("failed"))
      BY <1>2, <1>3, <2>1, <3>1
    <3> QED
      BY <3>2
  <2>4. CASE HuaweiLogin(t) /\ ~GivesUp(t)
    <3> DEFINE b == [a EXCEPT !.logged = TRUE]
    <3>1. /\ vendor = "huawei" /\ Accepted(a)
          /\ adapter' = [adapter EXCEPT ![o].logged = TRUE]
          /\ post' = [post EXCEPT ![t] = At(post[t].after)]
      BY <1>4, <2>4 DEF HuaweiLogin, o, a
    <3>2. post[t].after \in {"call", "retry", "last"}
      BY <1>2 DEF Posts
    <3>3. /\ adapter' = [adapter EXCEPT ![o] = b]
          /\ b \in Adapters /\ b.user = a.user /\ b.password = a.password /\ Accepted(b)
      BY <1>2, <3>1 DEF Adapters, Accepted, a
    <3> HIDE DEF b
    <3>4. Moves(b, At(post[t].after))
      BY <1>3, <3>1, <3>2, <3>3
    <3> QED
      BY <3>4
  <2>5. CASE HuaweiCall(t) /\ ~GivesUp(t)
    <3>1. vendor = "huawei" /\ adapter' = adapter
      BY <2>5 DEF HuaweiCall
    <3>2. CASE a.logged /\ Goto(t, "ok")
      <4>1. Moves(a, At("ok"))
        BY <1>2, <1>3, <1>4, <2>1, <3>1, <3>2
      <4> QED
        BY <4>1
    <3>3. CASE \E next \in {"retry", "last"} :
                 post' = [post EXCEPT ![t].phase = "login", ![t].after = next]
      <4>1. PICK next \in {"retry", "last"} :
              post' = [post EXCEPT ![t].phase = "login", ![t].after = next]
        BY <3>3
      <4> DEFINE w == [post[t] EXCEPT !.phase = "login", !.after = next]
      <4>2. /\ w \in Posts /\ post' = [post EXCEPT ![t] = w] /\ w.phase = "login"
            /\ w.obj = o /\ w.cred = None /\ w.alone = post[t].alone
        BY <1>2, <4>1 DEF Posts, o
      <4> HIDE DEF w
      <4>3. Moves(a, w)
        BY <1>2, <2>1, <3>1, <4>2
      <4> QED
        BY <4>3
    <3> QED
      BY <2>5, <3>2, <3>3 DEF HuaweiCall, o, a
  <2>6. CASE GoodWeSendLogin(t)
    <3> DEFINE w == [post[t] EXCEPT !.phase = "sent", !.old = a.base]
               b == [a EXCEPT !.base = "login"]
    <3>1. /\ post' = [post EXCEPT ![t].phase = "sent", ![t].old = a.base]
          /\ adapter' = [adapter EXCEPT ![o].base = "login"]
      BY <2>6 DEF GoodWeSendLogin, o, a
    <3>2. a.base \in {"login", "api"}
      BY <1>2 DEF Adapters
    <3>3. /\ w \in Posts /\ post' = [post EXCEPT ![t] = w] /\ w.phase = "sent"
          /\ w.obj = o /\ w.cred = None /\ w.alone = post[t].alone
      BY <1>2, <3>1, <3>2 DEF Posts, o
    <3>4. /\ b \in Adapters /\ b.user = a.user /\ b.password = a.password
          /\ b.logged \/ b.ids => Accepted(b)
          /\ adapter' = [adapter EXCEPT ![o] = b]
      BY <1>2, <3>1 DEF Adapters, Accepted, a
    <3> HIDE DEF w, b
    <3>5. Moves(b, w)
      BY <3>3, <3>4
    <3> QED
      BY <3>5
  <2>7. CASE GoodWeEndLogin(t)
    <3>1. PICK ok \in {TRUE, FALSE} :
            /\ ok => Accepted(a)
            /\ adapter' = [adapter EXCEPT ![o].base = BaseAfterLogin(t, ok)]
            /\ Goto(t, IF ok THEN "call" ELSE "failed")
      BY <2>7 DEF GoodWeEndLogin, o, a
    <3> DEFINE base == BaseAfterLogin(t, ok)
               b == [a EXCEPT !.base = base]
               phase == IF ok THEN "call" ELSE "failed"
    <3>2. base \in {"login", "api"} /\ (ok => base = "api")
      BY <1>2 DEF BaseAfterLogin, Posts
    <3> HIDE DEF base
    <3>3. /\ b \in Adapters /\ b.user = a.user /\ b.password = a.password /\ b.base = base
          /\ (b.logged \/ b.ids => Accepted(b)) /\ (ok => Accepted(b))
      BY <1>2, <3>1, <3>2 DEF Adapters, Accepted
    <3>4. adapter' = [adapter EXCEPT ![o] = b]
      BY <1>2, <3>1 DEF a, base
    <3> HIDE DEF b
    <3>5. post' = [post EXCEPT ![t] = At(phase)] /\ phase \in {"call", "failed"}
      BY <1>4, <3>1
    <3>6. Moves(b, At(phase))
      BY <1>3, <3>2, <3>3, <3>4, <3>5
    <3> QED
      BY <3>6
  <2>8. CASE GoodWeCall(t) /\ ~GivesUp(t)
    <3> DEFINE b == [a EXCEPT !.ids = TRUE]
    <3>1. /\ post' = [post EXCEPT ![t] = At("ok")]
          /\ adapter' = [adapter EXCEPT ![o].ids = TRUE] /\ Accepted(a)
      BY <1>2, <1>4, <2>8 DEF GoodWeCall, o, a
    <3>2. /\ b \in Adapters /\ b.user = a.user /\ b.password = a.password /\ Accepted(b)
          /\ adapter' = [adapter EXCEPT ![o] = b]
      BY <1>2, <3>1 DEF Adapters, Accepted, a
    <3> HIDE DEF b
    <3>3. Moves(b, At("ok"))
      BY <1>3, <3>1, <3>2
    <3> QED
      BY <3>3
  <2> HIDE DEF Moves
  <2> QED
    BY <2>3, <2>4, <2>5, <2>6, <2>7, <2>8 DEF VendorStep
<1> QED
  BY <1>1, <1>2, <1>5, VendorMove DEF o, a, Off

-----------------------------------------------------------------------------
(* The wizard. *)

StepNames == {"auth", "station", "device", "details"}
Phases == {"idle", "writeback", "process", "wait", "merge", "delete", "create"}
Request == [op : StepNames \cup {"none", "consume"}, phase : Phases, sess : Maybe(Sessions),
            form : Maybe(Credentials \cup Stations \cup DetailsForms), copy : SessionData]

\* A call in progress has a session, one of a step the form of that step.  The
\* result of a login step is stored when the vendor answers.
Fits(r) ==
  /\ r.phase = "idle" <=> r.sess = None
  /\ r.phase \in {"process", "wait", "merge"} => r.op \in StepNames /\ r.form \in Forms(r.op)
  /\ r.phase = "merge" => r.op # "auth"

ProvenBy(m, c) == Accepts[c.user] = c.password \/ c \in m

\* A login step that waits makes an adapter of its form, or has one whose answer
\* counts for the form.
Serves(t) ==
  req[t].phase = "wait" /\ req[t].op = "auth" =>
    /\ post[t].phase = "create" => post[t].cred = req[t].form
    /\ post[t].phase # "create" /\ Accepted(adapter[post[t].obj]) => ProvenBy(misled, req[t].form)

RequestsOK ==
  /\ req \in [Threads -> Request]
  /\ \A t \in Threads : Fits(req[t]) /\ Serves(t)

\* Whatever holds credentials, an adapter has answered for them.
CredentialsProven ==
  /\ \A s \in Sessions : data[s].cred # None => ProvenBy(misled, data[s].cred)
  /\ \A t \in Threads : req[t].copy.cred # None => ProvenBy(misled, req[t].copy.cred)
  /\ \A p \in built : ProvenBy(misled, p.cred)

\* Only sessions that are gone make providers.  One that went while no other call
\* held it is held by the call that deleted it at most, and as long as it is it
\* has made none.
SessionsGo ==
  /\ \A p \in built : p.sess \in gone
  /\ \A t \in Threads : req[t].phase = "create" => req[t].sess \in gone
  /\ \A s \in gone \ overlapped :
       /\ s \notin stored
       /\ \A t \in Threads : req[t].sess = s =>
            /\ req[t].phase = "create"
            /\ \A q \in Threads : req[q].sess = s => q = t
            /\ \A p \in built : p.sess # s
       /\ \A p, q \in built : p.sess = s /\ q.sess = s => p = q

IInv == TypeOK /\ VendorInv /\ RequestsOK /\ CredentialsProven /\ SessionsGo

LEMMA FormsAre ==
  /\ Forms("auth") = Credentials /\ Forms("station") = Stations
  /\ Forms("device") = Stations /\ Forms("details") = DetailsForms
  /\ \A op \in StepNames : Forms(op) \subseteq Credentials \cup Stations \cup DetailsForms
BY DEF Forms, StepNames

LEMMA AuthForms == \A f \in Forms("auth") : f \in Credentials
BY FormsAre

LEMMA NoDataIsTyped == NoData \in SessionData /\ NoData.cred = None
BY DEF NoData, NoConfig, SessionData, Configs, Maybe

LEMMA IdleIsTyped == /\ Idle \in Request /\ Idle.phase = "idle" /\ Idle.sess = None
                     /\ Idle.copy.cred = None /\ Fits(Idle)
BY NoDataIsTyped DEF Idle, Request, Phases, Maybe, Fits

LEMMA ServesStays ==
  ASSUME NEW q \in Threads, Serves(q), CallStays(q), misled \subseteq misled', req'[q] = req[q],
         IInv
  PROVE  Serves(q)'
<1> SUFFICES ASSUME req[q].phase = "wait", req[q].op = "auth"
             PROVE  /\ post'[q].phase = "create" => post'[q].cred = req[q].form
                    /\ post'[q].phase # "create" /\ Accepted(adapter'[post'[q].obj])
                         => ProvenBy(misled', req[q].form)
  BY DEF Serves
<1>1. post[q].phase # "none"
  BY DEF IInv, TypeOK
<1>2. post[q].phase # "create" => post[q].obj # None
  BY <1>1 DEF IInv, VendorInv, VendorTypeOK
<1> QED
  BY <1>2 DEF Serves, CallStays, SameAdapter, Accepted, ProvenBy

LEMMA InitInv == Init => IInv
<1> SUFFICES ASSUME Init PROVE IInv
  OBVIOUS
<1> USE DEF Init, VendorInit
<1>1. \A t \in Threads : post[t] = NoPost /\ req[t] = Idle
  OBVIOUS
<1>2. NoPost \in Posts /\ NoPost.phase = "none" /\ NoPost.obj = None /\ NoPost.cred = None
  BY DEF NoPost, Posts
<1>3. VendorInv
  BY <1>1, <1>2 DEF VendorInv, VendorTypeOK, AcceptedOnly, LoneCalls, SpeaksToApi, Off
<1>4. RequestsOK
  BY <1>1, IdleIsTyped DEF RequestsOK, Serves
<1>5. TypeOK
  BY <1>1, <1>2, <1>3, IdleIsTyped, NoDataIsTyped, MaxCallsAssumption
     DEF TypeOK, VendorInv, Request, Maybe
<1>6. CredentialsProven
  BY <1>1, IdleIsTyped, NoDataIsTyped DEF CredentialsProven
<1>7. SessionsGo
  BY <1>1, IdleIsTyped DEF SessionsGo
<1> QED
  BY <1>3, <1>4, <1>5, <1>6, <1>7 DEF IInv

\* A step of a call that makes no provider.
LEMMA RequestStep ==
  ASSUME IInv, NEW t \in Threads, NEW w \in Request, req' = [req EXCEPT ![t] = w],
         Fits(w), Serves(t)', (w.phase = "wait") = (post'[t].phase # "none"),
         w.phase # "create", w.sess \notin gone \ overlapped,
         w.copy.cred # None => ProvenBy(misled, w.copy.cred),
         VendorInv', OthersStay(t),
         stored' \subseteq Sessions, stored' \cap (gone \ overlapped) = {},
         \/ data' = data
         \/ /\ data' \in [Sessions -> SessionData]
            /\ \A s \in Sessions : data'[s].cred # None => ProvenBy(misled, data'[s].cred),
         calls' \in 0..MaxCalls, UNCHANGED <<kind, built, gone, overlapped>>
  PROVE  IInv'
<1>1. /\ req' \in [Threads -> Request]
      /\ \A q \in Threads : req'[q] = IF q = t THEN w ELSE req[q]
  BY DEF IInv, RequestsOK
<1>2. RequestsOK'
  <2>1. ASSUME NEW q \in Threads PROVE Fits(req'[q]) /\ Serves(q)'
    <3>1. CASE q = t
      BY <1>1, <3>1
    <3>2. CASE q # t
      <4>1. Fits(req[q]) /\ Serves(q) /\ CallStays(q) /\ misled \subseteq misled' /\ req'[q] = req[q]
        BY <1>1, <3>2 DEF IInv, RequestsOK, OthersStay
      <4> QED
        BY <4>1, ServesStays
    <3> QED
      BY <3>1, <3>2
  <2> QED
    BY <1>1, <2>1 DEF RequestsOK
<1>3. \A q \in Threads : (req'[q].phase = "wait") = (post'[q].phase # "none")
  BY <1>1 DEF IInv, TypeOK, OthersStay, CallStays
<1>4. TypeOK'
  BY <1>1, <1>3 DEF IInv, TypeOK, VendorInv, Request
<1>5. \A c : ProvenBy(misled, c) => ProvenBy(misled', c)
  BY DEF OthersStay, ProvenBy
<1>6. CredentialsProven'
  BY <1>1, <1>5 DEF IInv, CredentialsProven
<1>7. SessionsGo'
  BY <1>1 DEF IInv, SessionsGo
<1> QED
  BY <1>2, <1>4, <1>6, <1>7 DEF IInv

LEMMA SameVendor ==
  ASSUME IInv, UNCHANGED vendorVars, NEW t \in Threads
  PROVE  /\ VendorInv' /\ OthersStay(t) /\ UNCHANGED <<post, misled>>
         /\ \A q \in Threads : CallStays(q)
<1>1. UNCHANGED <<vendor, supplied, cache, adapter, post, misled>>
  BY DEF vendorVars
<1>2. VendorInv'
  BY <1>1 DEF IInv, VendorInv, VendorTypeOK, AcceptedOnly, LoneCalls, SpeaksToApi
<1>3. \A q \in Threads : CallStays(q)
  BY <1>1 DEF CallStays, SameAdapter
<1> QED
  BY <1>1, <1>2, <1>3 DEF OthersStay

\* The session of a call that is under way did not go, unless it is the call
\* that deleted it.
LEMMA HeldSession ==
  ASSUME IInv, NEW t \in Threads, req[t].phase # "create"
  PROVE  req[t].sess \notin gone \ overlapped
BY DEF IInv, SessionsGo

LEMMA NoneIsNotGone == IInv => None \notin gone \ overlapped
BY SessionsAssumption DEF IInv, TypeOK

\* A call that ends, its session stored once more or not, its result in it or
\* not.
LEMMA EndCallInv ==
  ASSUME IInv, NEW t \in Threads, EndCall(t), req[t].phase \notin {"idle", "create"},
         post'[t].phase = "none", VendorInv', OthersStay(t),
         stored' = stored \/ stored' = stored \cup {req[t].sess},
         \/ data' = data
         \/ /\ data' \in [Sessions -> SessionData]
            /\ \A s \in Sessions : data'[s].cred # None => ProvenBy(misled, data'[s].cred),
         UNCHANGED <<kind, built, calls, gone, overlapped>>
  PROVE  IInv'
<1>1. req' = [req EXCEPT ![t] = Idle]
  BY DEF EndCall
<1>2. req[t].sess \in Sessions
  BY DEF IInv, RequestsOK, Fits, Request, Maybe
<1>3. stored' \subseteq Sessions /\ stored' \cap (gone \ overlapped) = {}
  BY <1>2, HeldSession DEF IInv, TypeOK, SessionsGo
<1>4. calls' \in 0..MaxCalls
  BY DEF IInv, TypeOK
<1>5. Serves(t)'
  <2>1. req'[t].phase = "idle"
    BY <1>1, IdleIsTyped DEF IInv, RequestsOK
  <2> QED
    BY <2>1 DEF Serves
<1> HIDE DEF Idle
<1> QED
  BY <1>1, <1>3, <1>4, <1>5, IdleIsTyped, NoneIsNotGone, RequestStep

\* A call that goes on to another of its phases.
LEMMA ContinueInv ==
  ASSUME IInv, NEW t \in Threads, NEW phase \in {"wait", "merge"}, Continue(t, phase),
         req[t].phase = "process",
         phase = "wait" <=> post'[t].phase # "none",
         phase = "merge" => req[t].op # "auth",
         Serves(t)', VendorInv', OthersStay(t),
         UNCHANGED <<kind, stored, data, built, calls, gone, overlapped>>
  PROVE  IInv'
<1> DEFINE w == [req[t] EXCEPT !.phase = phase]
<1>1. req[t] \in Request /\ Fits(req[t])
  BY DEF IInv, RequestsOK
<1>2. /\ w \in Request /\ w.phase = phase /\ w.op = req[t].op /\ w.sess = req[t].sess
      /\ w.form = req[t].form /\ w.copy = req[t].copy
      /\ req' = [req EXCEPT ![t] = w]
  BY <1>1 DEF Request, Phases, Continue, IInv, RequestsOK
<1> HIDE DEF w
<1>3. Fits(w)
  BY <1>1, <1>2 DEF Fits
<1>4. w.copy.cred # None => ProvenBy(misled, w.copy.cred)
  BY <1>2 DEF IInv, CredentialsProven
<1>5. w.sess \notin gone \ overlapped
  BY <1>2, HeldSession
<1>6. stored' \subseteq Sessions /\ stored' \cap (gone \ overlapped) = {} /\ calls' \in 0..MaxCalls
  BY DEF IInv, TypeOK, SessionsGo
<1> QED
  BY <1>2, <1>3, <1>4, <1>5, <1>6, RequestStep

\* A call that begins, on no session or on one that has not gone.
LEMMA CallInv ==
  ASSUME IInv, NEW t \in Threads, NEW op \in StepNames \cup {"none", "consume"},
         NEW phase \in {"idle", "writeback", "process", "delete"}, NEW s \in Maybe(Sessions),
         NEW form \in Maybe(Credentials \cup Stations \cup DetailsForms),
         NEW copy \in SessionData,
         Call(t, op, phase, s, form, copy),
         phase = "idle" <=> s = None,
         phase = "process" => op \in StepNames /\ form \in Forms(op),
         copy.cred # None => ProvenBy(misled, copy.cred),
         s \notin gone \ overlapped,
         stored' = stored \/ stored' = stored \cup {s}, stored' \subseteq Sessions,
         UNCHANGED <<gone, overlapped>>
  PROVE  IInv'
<1> DEFINE w == [op |-> op, phase |-> phase, sess |-> s, form |-> form, copy |-> copy]
<1>1. /\ req[t].phase = "idle" /\ calls < MaxCalls /\ calls' = calls + 1
      /\ req' = [req EXCEPT ![t] = w]
      /\ UNCHANGED <<vendorVars, kind, data, built>>
  BY DEF Call
<1>2. w \in Request
  BY DEF Request, Phases
<1>3. VendorInv' /\ OthersStay(t) /\ post' = post
  BY <1>1, SameVendor
<1>4. post'[t].phase = "none"
  BY <1>1, <1>3 DEF IInv, TypeOK
<1>5. Fits(w) /\ w.phase # "wait"
  BY DEF Fits
<1>6. calls' \in 0..MaxCalls
  BY <1>1, MaxCallsAssumption DEF IInv, TypeOK
<1>7. stored' \cap (gone \ overlapped) = {}
  BY DEF IInv, SessionsGo
<1>8. w.phase = phase /\ w.sess = s /\ w.copy = copy
  OBVIOUS
<1> HIDE DEF w
<1>9. Serves(t)'
  <2>1. req'[t].phase # "wait"
    BY <1>1, <1>5 DEF IInv, RequestsOK
  <2> QED
    BY <2>1 DEF Serves
<1> QED
  BY <1>1, <1>2, <1>3, <1>4, <1>5, <1>6, <1>7, <1>8, <1>9, RequestStep

LEMMA BeginsInv ==
  ASSUME IInv, NEW t \in Threads, CreateSession(t) \/ StepBegins(t) \/ ConsumeBegins(t)
  PROVE  IInv'
<1>1. CASE CreateSession(t)
  <2>1. PICK s \in Sessions \ Used, form \in Maybe(Forms("auth")) :
          /\ stored' = stored \cup {s}
          /\ IF form # None THEN Call(t, "auth", "process", s, form, NoData)
                            ELSE Call(t, "none", "idle", None, None, NoData)
          /\ UNCHANGED <<gone, overlapped>>
    BY <1>1 DEF CreateSession
  <2>2. s \notin gone /\ s # None /\ stored' \subseteq Sessions
    BY <2>1, SessionsAssumption DEF Used, IInv, TypeOK
  <2>3. CASE form # None
    <3>1. form \in Forms("auth") /\ form \in Credentials
      BY <2>3, FormsAre DEF Maybe
    <3> QED
      BY <2>1, <2>2, <2>3, <3>1, NoDataIsTyped, CallInv DEF Maybe, StepNames
  <2>4. CASE form = None
    <3>1. Call(t, "none", "idle", None, None, NoData)
      BY <2>1, <2>4
    <3>2. VendorInv' /\ OthersStay(t) /\ post' = post
      BY <3>1, SameVendor DEF Call
    <3>3. /\ req' = [req EXCEPT ![t] = Idle] /\ req[t].phase = "idle"
          /\ calls < MaxCalls /\ calls' = calls + 1 /\ UNCHANGED <<kind, data, built>>
      BY <3>1 DEF Call, Idle
    <3>4. post'[t].phase = "none" /\ calls' \in 0..MaxCalls
      BY <3>2, <3>3, MaxCallsAssumption DEF IInv, TypeOK
    <3>5. stored' \cap (gone \ overlapped) = {}
      BY <2>1, <2>2 DEF IInv, SessionsGo
    <3>6. Serves(t)'
      <4>1. req'[t].phase = "idle"
        BY <3>3, IdleIsTyped DEF IInv, RequestsOK
      <4> QED
        BY <4>1 DEF Serves
    <3> HIDE DEF Idle
    <3> QED
      BY <2>1, <2>2, <3>2, <3>3, <3>4, <3>5, <3>6, IdleIsTyped, NoneIsNotGone, RequestStep
  <2> QED
    BY <2>3, <2>4
<1>2. CASE StepBegins(t)
  <2>1. PICK op \in Steps, s \in stored : \E form \in Forms(op) :
          Call(t, op, IF kind = "redis" THEN "writeback" ELSE "process", s, form, NoData)
    BY <1>2 DEF StepBegins
  <2>5. PICK form \in Forms(op) :
          Call(t, op, IF kind = "redis" THEN "writeback" ELSE "process", s, form, NoData)
    BY <2>1
  <2>2. UNCHANGED <<stored, gone, overlapped>>
    BY <1>2 DEF StepBegins
  <2>3. op \in StepNames /\ form \in Credentials \cup Stations \cup DetailsForms
    BY FormsAre DEF Steps, StepNames
  <2>4. s \in Sessions /\ s # None /\ s \notin gone \ overlapped /\ stored \subseteq Sessions
    BY SessionsAssumption DEF IInv, TypeOK, SessionsGo
  <2> QED
    BY <2>5, <2>2, <2>3, <2>4, NoDataIsTyped, CallInv DEF Maybe
<1>3. CASE ConsumeBegins(t)
  <2>1. PICK s \in stored :
          Call(t, "consume", IF kind = "redis" THEN "writeback" ELSE "delete", s, None,
               IF kind = "redis" THEN NoData ELSE data[s])
    BY <1>3 DEF ConsumeBegins
  <2>2. UNCHANGED <<stored, gone, overlapped>>
    BY <1>3 DEF ConsumeBegins
  <2>3. s \in Sessions /\ s # None /\ s \notin gone \ overlapped /\ stored \subseteq Sessions
    BY SessionsAssumption DEF IInv, TypeOK, SessionsGo
  <2>4. data[s] \in SessionData /\ (data[s].cred # None => ProvenBy(misled, data[s].cred))
    BY <2>3 DEF IInv, TypeOK, CredentialsProven
  <2> QED
    BY <2>1, <2>2, <2>3, <2>4, NoDataIsTyped, CallInv DEF Maybe
<1> QED
  BY <1>1, <1>2, <1>3

LEMMA WriteBackInv ==
  ASSUME IInv, NEW t \in Threads, WriteBack(t)
  PROVE  IInv'
<1>1. VendorInv' /\ OthersStay(t) /\ post' = post
  BY SameVendor DEF WriteBack
<1>2. post'[t].phase = "none"
  BY <1>1 DEF WriteBack, IInv, TypeOK
<1> QED
  BY <1>1, <1>2, EndCallInv DEF WriteBack

LEMMA RaisesInv ==
  ASSUME IInv, NEW t \in Threads, Raises(t), req[t].phase = "process",
         UNCHANGED <<kind, stored, data, built, calls, gone, overlapped>>
  PROVE  IInv'
<1>1. VendorInv' /\ OthersStay(t) /\ post' = post
  BY SameVendor DEF Raises
<1>2. post'[t].phase = "none"
  BY <1>1 DEF IInv, TypeOK
<1> QED
  BY <1>1, <1>2, EndCallInv DEF Raises

\* A step that asks the vendor waits for it.
LEMMA AskedInv ==
  ASSUME IInv, NEW t \in Threads, NEW c \in Credentials, StartPost(t, c), Continue(t, "wait"),
         req[t].phase = "process", req[t].op = "auth" => c = req[t].form,
         UNCHANGED <<kind, stored, data, built, calls, gone, overlapped>>
  PROVE  IInv'
<1>1. post[t].phase = "none"
  BY DEF IInv, TypeOK
<1>2. /\ VendorInv' /\ OthersStay(t) /\ post'[t].phase # "none"
      /\ post'[t].phase = "create" => post'[t].cred = c
      /\ post'[t].phase # "create" /\ Accepted(adapter'[post'[t].obj]) => ProvenBy(misled', c)
  <2>1. CASE FindCached(t, c)
    BY <1>1, <2>1, FindCachedInv DEF IInv, ProvenBy
  <2>2. CASE Miss(t, c)
    BY <2>2, MissInv DEF IInv
  <2> QED
    BY <2>1, <2>2 DEF StartPost
<1>3. req'[t].op = req[t].op /\ req'[t].form = req[t].form
  BY DEF IInv, RequestsOK, Request, Continue
<1>4. Serves(t)'
  BY <1>2, <1>3 DEF Serves
<1> QED
  BY <1>2, <1>4, ContinueInv

LEMMA AskInv ==
  ASSUME IInv, NEW t \in Threads, NEW c \in Credentials, Ask(t, c), req[t].phase = "process",
         req[t].op = "auth" => c = req[t].form,
         UNCHANGED <<kind, stored, data, built, calls, gone, overlapped>>
  PROVE  IInv'
<1>1. CASE StartPost(t, c) /\ Continue(t, "wait")
  BY <1>1, AskedInv
<1>2. CASE Raises(t)
  BY <1>2, RaisesInv
<1> QED
  BY <1>1, <1>2 DEF Ask

LEMMA AuthInv ==
  ASSUME IInv, NEW t \in Threads, Auth(t)
  PROVE  IInv'
<1>1. /\ req[t].phase = "process" /\ req[t].op = "auth" /\ Ask(t, req[t].form)
      /\ UNCHANGED <<kind, stored, data, built, calls, gone, overlapped>>
  BY DEF Auth, Processes
<1>2. req[t].form \in Forms("auth")
  BY <1>1 DEF IInv, RequestsOK, Fits
<1>3. req[t].form \in Credentials
  BY <1>2, AuthForms
<1> QED
  BY <1>1, <1>3, AskInv

LEMMA HuaweiStationInv ==
  ASSUME IInv, NEW t \in Threads, HuaweiStation(t)
  PROVE  IInv'
<1> DEFINE c == data[req[t].sess].cred
<1>1. /\ req[t].phase = "process" /\ req[t].op = "station"
      /\ IF c = None THEN Raises(t) ELSE Ask(t, c)
      /\ UNCHANGED <<kind, stored, data, built, calls, gone, overlapped>>
  BY DEF HuaweiStation, Processes
<1>2. req[t].sess \in Sessions
  BY <1>1 DEF IInv, RequestsOK, Fits, Request, Maybe
<1>3. c \in Credentials \cup {None}
  BY <1>2 DEF IInv, TypeOK, SessionData, Maybe
<1> HIDE DEF c
<1> QED
  BY <1>1, <1>3, AskInv, RaisesInv

LEMMA GoodWeStationInv ==
  ASSUME IInv, NEW t \in Threads, GoodWeStation(t)
  PROVE  IInv'
<1> DEFINE c == data[req[t].sess].cred
<1>1. /\ req[t].phase = "process" /\ req[t].op = "station"
      /\ UNCHANGED <<kind, stored, data, built, calls, gone, overlapped>>
      /\ Raises(t) \/ (c # None /\ StartPost(t, c) /\ Continue(t, "wait"))
  BY DEF GoodWeStation, Processes, StartPost
<1>2. req[t].sess \in Sessions
  BY <1>1 DEF IInv, RequestsOK, Fits, Request, Maybe
<1>3. c \in Credentials \cup {None}
  BY <1>2 DEF IInv, TypeOK, SessionData, Maybe
<1> HIDE DEF c
<1> QED
  BY <1>1, <1>3, AskedInv, RaisesInv

LEMMA ProcessLocalInv ==
  ASSUME IInv, NEW t \in Threads, ProcessLocal(t)
  PROVE  IInv'
<1>1. /\ req[t].phase = "process" /\ req[t].op \in {"device", "details"}
      /\ Continue(t, "merge") \/ EndCall(t)
      /\ UNCHANGED <<vendorVars, kind, stored, data, built, calls, gone, overlapped>>
  BY DEF ProcessLocal
<1>2. VendorInv' /\ OthersStay(t) /\ post' = post
  BY <1>1, SameVendor
<1>3. post'[t].phase = "none"
  BY <1>1, <1>2 DEF IInv, TypeOK
<1>4. CASE Continue(t, "merge")
  <2>1. req'[t].op = req[t].op
    BY <1>4 DEF IInv, RequestsOK, Request, Continue
  <2>2. Serves(t)'
    BY <1>1, <2>1 DEF Serves
  <2> QED
    BY <1>1, <1>2, <1>3, <1>4, <2>2, ContinueInv
<1> QED
  BY <1>1, <1>2, <1>3, <1>4, EndCallInv

LEMMA MergedIsTyped ==
  ASSUME NEW d \in SessionData, NEW r \in Request, r.op \in StepNames, r.form \in Forms(r.op)
  PROVE  /\ Merged(d, r) \in SessionData
         /\ Merged(d, r).cred = IF r.op = "auth" THEN r.form ELSE d.cred
<1>1. /\ d.cred \in Maybe(Credentials) /\ d.station \in Maybe(Stations)
      /\ d.details \in Maybe(Stations) /\ d.config \in Configs
      /\ d = [cred |-> d.cred, station |-> d.station, details |-> d.details, config |-> d.config]
  BY DEF SessionData
<1>2. CASE r.op = "auth"
  <2>1. r.form \in Maybe(Credentials)
    BY <1>2, FormsAre DEF Maybe
  <2> QED
    BY <1>1, <1>2, <2>1 DEF Merged, SessionData
<1>3. CASE r.op = "station"
  <2>1. r.form \in Maybe(Stations)
    BY <1>3, FormsAre DEF Maybe
  <2>2. [d.config EXCEPT !.station = r.form] \in Configs
    BY <1>1, <2>1 DEF Configs
  <2>3. Merged(d, r) = [d EXCEPT !.station = r.form, !.config = [d.config EXCEPT !.station = r.form]]
    BY <1>1, <1>3 DEF Merged, SessionData
  <2> QED
    BY <1>1, <1>3, <2>1, <2>2, <2>3 DEF SessionData
<1>4. CASE r.op = "device"
  <2>1. r.form \in Maybe(Stations)
    BY <1>4, FormsAre DEF Maybe
  <2>2. [d.config EXCEPT !.extra = TRUE] \in Configs
    BY <1>1 DEF Configs
  <2>3. Merged(d, r) = [d EXCEPT !.details = r.form, !.config = [d.config EXCEPT !.extra = TRUE]]
    BY <1>1, <1>4 DEF Merged, SessionData
  <2> QED
    BY <1>1, <1>4, <2>1, <2>2, <2>3 DEF SessionData
<1>5. CASE r.op = "details"
  <2> DEFINE config == [station |-> r.form.unit, unit |-> r.form.unit, extra |-> FALSE,
                        named |-> r.form.named]
  <2>1. r.form \in DetailsForms
    BY <1>5, FormsAre
  <2>2. config \in Configs
    BY <2>1 DEF Configs, DetailsForms, Maybe
  <2>3. Merged(d, r) = [d EXCEPT !.config = config]
    BY <1>5 DEF Merged
  <2> HIDE DEF config
  <2> QED
    BY <1>1, <1>5, <2>2, <2>3 DEF SessionData
<1> QED
  BY <1>2, <1>3, <1>4, <1>5 DEF StepNames

\* A step whose result is stored: its credentials are proven if it is a login.
LEMMA StoreResultInv ==
  ASSUME IInv, NEW t \in Threads, StoreResult(t), EndCall(t), req[t].phase \in {"wait", "merge"},
         req[t].op = "auth" => ProvenBy(misled, req[t].form),
         post'[t].phase = "none", VendorInv', OthersStay(t),
         UNCHANGED <<kind, built, calls, gone, overlapped>>
  PROVE  IInv'
<1> DEFINE r == req[t]
<1>1. /\ data' = [data EXCEPT ![r.sess] = Merged(data[r.sess], r)]
      /\ stored' = stored \cup {r.sess}
  BY DEF StoreResult
<1>2. r \in Request /\ r.op \in StepNames /\ r.form \in Forms(r.op) /\ r.sess \in Sessions
  BY DEF IInv, RequestsOK, Fits, Request, Maybe
<1> HIDE DEF r
<1>3. data[r.sess] \in SessionData /\ data \in [Sessions -> SessionData]
  BY <1>2 DEF IInv, TypeOK
<1>4. /\ Merged(data[r.sess], r) \in SessionData
      /\ Merged(data[r.sess], r).cred = IF r.op = "auth" THEN r.form ELSE data[r.sess].cred
  BY <1>2, <1>3, MergedIsTyped
<1>5. /\ data' \in [Sessions -> SessionData]
      /\ \A s \in Sessions : data'[s] = IF s = r.sess THEN Merged(data[r.sess], r) ELSE data[s]
  BY <1>1, <1>3, <1>4
<1>6. \A s \in Sessions : data[s].cred # None => ProvenBy(misled, data[s].cred)
  BY DEF IInv, CredentialsProven
<1>7. \A s \in Sessions : data'[s].cred # None => ProvenBy(misled, data'[s].cred)
  BY <1>2, <1>4, <1>5, <1>6 DEF r
<1> QED
  BY <1>1, <1>5, <1>7, EndCallInv DEF r

LEMMA MergeInv ==
  ASSUME IInv, NEW t \in Threads, Merge(t)
  PROVE  IInv'
<1>1. /\ req[t].phase = "merge" /\ StoreResult(t) /\ EndCall(t)
      /\ UNCHANGED <<vendorVars, kind, built, calls, gone, overlapped>>
  BY DEF Merge
<1>2. req[t].op # "auth"
  BY <1>1 DEF IInv, RequestsOK, Fits
<1>3. VendorInv' /\ OthersStay(t) /\ post' = post
  BY <1>1, SameVendor
<1>4. post'[t].phase = "none"
  BY <1>1, <1>3 DEF IInv, TypeOK
<1> QED
  BY <1>1, <1>2, <1>3, <1>4, StoreResultInv

LEMMA AnsweredInv ==
  ASSUME IInv, NEW t \in Threads, Answered(t)
  PROVE  IInv'
<1>1. /\ req[t].phase = "wait" /\ post[t].phase = "ok"
      /\ EndPost(t) /\ StoreResult(t) /\ EndCall(t)
      /\ UNCHANGED <<kind, built, calls, gone, overlapped>>
  BY DEF Answered
<1>2. VendorInv' /\ OthersStay(t) /\ post'[t].phase = "none"
  BY <1>1, EndPostInv DEF IInv, NoPost
<1>3. Accepted(adapter[post[t].obj])
  BY <1>1 DEF IInv, VendorInv, AcceptedOnly
<1>4. req[t].op = "auth" => ProvenBy(misled, req[t].form)
  BY <1>1, <1>3 DEF IInv, RequestsOK, Serves
<1> QED
  BY <1>1, <1>2, <1>4, StoreResultInv

LEMMA NotAnsweredInv ==
  ASSUME IInv, NEW t \in Threads, NotAnswered(t)
  PROVE  IInv'
<1>1. /\ req[t].phase = "wait" /\ EndPost(t) /\ EndCall(t)
      /\ UNCHANGED <<kind, stored, data, built, calls, gone, overlapped>>
  BY DEF NotAnswered
<1>2. VendorInv' /\ OthersStay(t) /\ post'[t].phase = "none"
  BY <1>1, EndPostInv DEF IInv, NoPost
<1> QED
  BY <1>1, <1>2, EndCallInv

\* The vendor's side moves under a call that waits, the wizard's does not.
LEMMA VendorSideInv ==
  ASSUME IInv, NEW t \in Threads, VendorInv', OthersStay(t), Serves(t)',
         post[t].phase # "none", post'[t].phase # "none", UNCHANGED wizardVars
  PROVE  IInv'
<1>1. req[t] \in Request /\ Fits(req[t]) /\ req[t].phase = "wait"
      /\ req' = [req EXCEPT ![t] = req[t]]
  BY DEF wizardVars, IInv, TypeOK, RequestsOK
<1>2. req[t].sess \notin gone \ overlapped
  BY <1>1, HeldSession
<1>3. req[t].copy.cred # None => ProvenBy(misled, req[t].copy.cred)
  BY DEF IInv, CredentialsProven
<1>4. /\ stored' \subseteq Sessions /\ stored' \cap (gone \ overlapped) = {}
      /\ calls' \in 0..MaxCalls /\ UNCHANGED <<data, kind, built, gone, overlapped>>
  BY DEF wizardVars, IInv, TypeOK, SessionsGo
<1> QED
  BY <1>1, <1>2, <1>3, <1>4, RequestStep

LEMMA VendorOnlyInv ==
  ASSUME IInv, NEW t \in Threads, VendorStep(t), UNCHANGED wizardVars
  PROVE  IInv'
<1>1. /\ VendorInv' /\ OthersStay(t) /\ SameAdapter(t)
      /\ post[t].phase \notin {"none", "create"} /\ post'[t].phase \notin {"none", "create"}
  BY VendorStepInv DEF IInv
<1>2. post[t].obj # None
  BY <1>1 DEF IInv, VendorInv, VendorTypeOK
<1>3. Serves(t)'
  BY <1>1, <1>2 DEF wizardVars, IInv, RequestsOK, Serves, SameAdapter, OthersStay, Accepted, ProvenBy
<1> QED
  BY <1>1, <1>3, VendorSideInv

\* The adapter made for a login step has the account and password of its form.
LEMMA MakeInv ==
  ASSUME IInv, NEW t \in Threads, Make(t)
  PROVE  IInv'
<1> DEFINE phase == IF vendor = "goodwe" /\ req[t].op = "station" THEN "failed" ELSE "login"
<1>1. MakeAdapter(t, phase) /\ UNCHANGED wizardVars /\ phase \in {"login", "failed"}
  BY DEF Make
<1> HIDE DEF phase
<1>2. /\ VendorInv' /\ OthersStay(t) /\ post[t].phase = "create"
      /\ post'[t].phase \notin {"none", "create"}
      /\ Accepted(adapter'[post'[t].obj]) => Accepts[post[t].cred.user] = post[t].cred.password
  <2>1. \A p \in {"login", "failed"} : MakeAdapter(t, p) =>
          /\ VendorInv' /\ OthersStay(t) /\ post[t].phase = "create"
          /\ post'[t].phase \notin {"none", "create"}
          /\ Accepted(adapter'[post'[t].obj]) => Accepts[post[t].cred.user] = post[t].cred.password
    BY MakeAdapterInv DEF IInv
  <2> QED
    BY <1>1, <2>1
<1>3. Serves(t)'
  BY <1>1, <1>2 DEF wizardVars, IInv, RequestsOK, Serves, ProvenBy
<1> QED
  BY <1>1, <1>2, <1>3, VendorSideInv

LEMMA CacheOnlyInv ==
  ASSUME IInv, ClearCache, UNCHANGED wizardVars
  PROVE  IInv'
<1>1. VendorInv' /\ misled' = misled /\ post' = post /\ \A q \in Threads : CallStays(q)
  BY ClearCacheInv DEF IInv
<1>2. UNCHANGED <<kind, stored, data, req, built, calls, gone, overlapped>>
  BY DEF wizardVars
<1>3. RequestsOK'
  <2>1. ASSUME NEW q \in Threads PROVE Serves(q)'
    BY <1>1, <1>2, ServesStays DEF IInv, RequestsOK
  <2> QED
    BY <1>2, <2>1 DEF IInv, RequestsOK
<1>4. TypeOK'
  BY <1>1, <1>2 DEF IInv, VendorInv, TypeOK
<1>5. CredentialsProven' /\ SessionsGo'
  BY <1>1, <1>2 DEF IInv, CredentialsProven, SessionsGo
<1> QED
  BY <1>1, <1>3, <1>4, <1>5 DEF IInv

LEMMA ExpireInv ==
  ASSUME IInv, NEW s \in Sessions, Expire(s)
  PROVE  IInv'
<1>1. /\ s \in stored /\ stored' = stored \ {s} /\ gone' = gone \cup {s}
      /\ overlapped' = IF Holding(s) = {} THEN overlapped ELSE overlapped \cup {s}
      /\ UNCHANGED <<vendorVars, kind, data, req, built, calls>>
  BY DEF Expire, Went
<1>2. VendorInv'
  BY <1>1 DEF IInv, VendorInv, vendorVars, VendorTypeOK, AcceptedOnly, LoneCalls, SpeaksToApi
<1>3. TypeOK' /\ RequestsOK' /\ CredentialsProven'
  BY <1>1, <1>2 DEF IInv, VendorInv, vendorVars, TypeOK, RequestsOK, Serves, CredentialsProven
<1>4. s \notin gone \ overlapped
  BY <1>1 DEF IInv, SessionsGo
<1>5. overlapped \subseteq gone
  BY DEF IInv, TypeOK
<1>6. \A x \in gone' \ overlapped' :
        x \in gone \ overlapped \/ (x = s /\ s \notin gone /\ Holding(s) = {})
  BY <1>1, <1>4, <1>5
<1>7. SessionsGo'
  BY <1>1, <1>5, <1>6 DEF IInv, SessionsGo, Holding
<1> QED
  BY <1>2, <1>3, <1>7 DEF IInv

LEMMA DeleteInv ==
  ASSUME IInv, NEW t \in Threads, Delete(t)
  PROVE  IInv'
<1> DEFINE s == req[t].sess
           w == [req[t] EXCEPT !.phase = "create"]
<1>1. /\ req[t].phase = "delete" /\ stored' = stored \ {s} /\ gone' = gone \cup {s}
      /\ overlapped' = IF Holding(s) \ {t} = {} THEN overlapped ELSE overlapped \cup {s}
      /\ req' = [req EXCEPT ![t] = w]
      /\ UNCHANGED <<vendorVars, kind, data, built, calls>>
  BY DEF Delete, Went, Continue, IInv, RequestsOK
<1>2. /\ req \in [Threads -> Request] /\ Fits(req[t])
      /\ \A x \in gone \ overlapped : x \notin stored
  BY DEF IInv, RequestsOK, SessionsGo
<1>3. s \in Sessions
  BY <1>1, <1>2 DEF Fits, Request, Maybe
<1>4. /\ w \in Request /\ w.phase = "create" /\ w.sess = s /\ w.copy = req[t].copy
      /\ w.op = req[t].op /\ w.form = req[t].form
  BY <1>2 DEF Request, Phases
<1>5. s \notin gone \ overlapped
  BY <1>1, HeldSession
<1>6. Fits(w)
  BY <1>1, <1>2, <1>4 DEF Fits
<1>7. VendorInv' /\ UNCHANGED <<vendor, adapter, post, misled>>
  BY <1>1, SameVendor DEF vendorVars
<1> HIDE DEF w, s
<1>8. /\ req' \in [Threads -> Request]
      /\ \A q \in Threads : req'[q] = IF q = t THEN w ELSE req[q]
  BY <1>1, <1>2, <1>4
<1>9. RequestsOK'
  BY <1>4, <1>6, <1>7, <1>8 DEF IInv, RequestsOK, Serves
<1>10. \A q \in Threads : (req'[q].phase = "wait") = (post'[q].phase # "none")
  BY <1>1, <1>4, <1>7, <1>8 DEF IInv, TypeOK
<1>11. TypeOK'
  BY <1>1, <1>3, <1>7, <1>8, <1>10 DEF IInv, TypeOK, VendorInv, Request
<1>12. CredentialsProven'
  BY <1>1, <1>4, <1>7, <1>8 DEF IInv, CredentialsProven
<1>13. \A x \in gone' \ overlapped' :
         \/ x \in gone \ overlapped /\ x # s
         \/ x = s /\ s \notin gone /\ Holding(s) \ {t} = {}
  BY <1>1, <1>5 DEF IInv, TypeOK
<1>14. \A q \in Threads : req'[q].sess = req[q].sess
  BY <1>4, <1>8 DEF s
<1>15. SessionsGo'
  <2>1. /\ \A p \in built' : p.sess \in gone'
        /\ \A q \in Threads : req'[q].phase = "create" => req'[q].sess \in gone'
    BY <1>1, <1>4, <1>8 DEF IInv, SessionsGo
  <2>2. ASSUME NEW x \in gone \ overlapped, x # s
        PROVE  /\ x \notin stored'
               /\ \A q \in Threads : req'[q].sess = x =>
                    /\ req'[q].phase = "create"
                    /\ \A z \in Threads : req'[z].sess = x => z = q
                    /\ \A p \in built' : p.sess # x
               /\ \A p, z \in built' : p.sess = x /\ z.sess = x => p = z
    BY <1>1, <1>4, <1>8, <2>2 DEF IInv, SessionsGo
  <2>3. ASSUME s \notin gone, Holding(s) \ {t} = {}
        PROVE  /\ s \notin stored'
               /\ \A q \in Threads : req'[q].sess = s =>
                    /\ req'[q].phase = "create"
                    /\ \A z \in Threads : req'[z].sess = s => z = q
                    /\ \A p \in built' : p.sess # s
               /\ \A p, z \in built' : p.sess = s /\ z.sess = s => p = z
    <3>1. \A q \in Threads : req'[q].sess = s => q = t
      BY <1>14, <2>3 DEF Holding
    <3>2. \A p \in built' : p.sess # s
      BY <1>1, <2>3 DEF IInv, SessionsGo
    <3> QED
      BY <1>1, <1>4, <1>8, <3>1, <3>2
  <2> QED
    BY <1>13, <2>1, <2>2, <2>3 DEF SessionsGo
<1> QED
  BY <1>7, <1>9, <1>11, <1>12, <1>15 DEF IInv

LEMMA CreateProviderInv ==
  ASSUME IInv, NEW t \in Threads, CreateProvider(t)
  PROVE  IInv'
<1> DEFINE s == req[t].sess
           d == req[t].copy
           made == [sess |-> s, unit |-> d.config.unit, cred |-> d.cred]
<1>1. /\ req[t].phase = "create" /\ req' = [req EXCEPT ![t] = Idle]
      /\ built' = built \/ (Creatable(d) /\ built' = built \cup {made})
      /\ UNCHANGED <<vendorVars, kind, stored, data, calls, gone, overlapped>>
  BY DEF CreateProvider, EndCall
<1>2. /\ req \in [Threads -> Request] /\ Fits(req[t]) /\ d \in SessionData
      /\ d.cred # None => ProvenBy(misled, d.cred)
      /\ s \in gone
  BY <1>1 DEF IInv, RequestsOK, Request, CredentialsProven, SessionsGo
<1>3. s \in Sessions
  BY <1>1, <1>2 DEF Fits, Request, Maybe
<1>4. Creatable(d) => made.unit \in Stations /\ made.cred \in Credentials /\ made.sess = s
                      /\ ProvenBy(misled, made.cred)
  BY <1>2 DEF Creatable, HasExternalId, SessionData, Configs, Maybe
<1>5. VendorInv' /\ UNCHANGED <<vendor, adapter, post, misled>>
  BY <1>1, SameVendor DEF vendorVars
<1> HIDE DEF made, d, s, Idle
<1>6. /\ req' \in [Threads -> Request]
      /\ \A q \in Threads : req'[q] = IF q = t THEN Idle ELSE req[q]
  BY <1>1, <1>2, IdleIsTyped
<1>7. RequestsOK'
  BY <1>5, <1>6, IdleIsTyped DEF IInv, RequestsOK, Serves
<1>8. \A q \in Threads : (req'[q].phase = "wait") = (post'[q].phase # "none")
  BY <1>1, <1>5, <1>6, IdleIsTyped DEF IInv, TypeOK
<1>9. TypeOK'
  BY <1>1, <1>3, <1>4, <1>5, <1>6, <1>8 DEF IInv, TypeOK, VendorInv, Request
<1>10. CredentialsProven'
  BY <1>1, <1>4, <1>5, <1>6, IdleIsTyped DEF IInv, CredentialsProven
<1>11. \A p \in built' : p \in built \/ (p = made /\ p.sess = s)
  BY <1>1, <1>4
<1>12. s \notin gone \ overlapped \/ \A p \in built : p.sess # s
  BY DEF IInv, SessionsGo, s
<1>13. SessionsGo'
  <2>1. /\ \A p \in built' : p.sess \in gone'
        /\ \A q \in Threads : req'[q].phase = "create" => req'[q].sess \in gone'
    BY <1>1, <1>2, <1>6, <1>11, IdleIsTyped DEF IInv, SessionsGo
  <2>2. ASSUME NEW x \in gone \ overlapped
        PROVE  \A q \in Threads : req'[q].sess = x =>
                 /\ req'[q].phase = "create"
                 /\ \A z \in Threads : req'[z].sess = x => z = q
                 /\ \A p \in built' : p.sess # x
    <3> SUFFICES ASSUME NEW q \in Threads, req'[q].sess = x
                 PROVE  /\ req'[q].phase = "create"
                        /\ \A z \in Threads : req'[z].sess = x => z = q
                        /\ \A p \in built' : p.sess # x
      OBVIOUS
    <3>1. x # None
      BY <2>2, NoneIsNotGone
    <3>2. q # t /\ req[q].sess = x
      BY <1>6, <3>1, IdleIsTyped
    <3>3. /\ req[q].phase = "create" /\ \A z \in Threads : req[z].sess = x => z = q
          /\ \A p \in built : p.sess # x
      BY <2>2, <3>2 DEF IInv, SessionsGo
    <3>4. s # x
      BY <3>2, <3>3 DEF s
    <3> QED
      BY <1>6, <1>11, <3>1, <3>2, <3>3, <3>4, IdleIsTyped
  <2>3. ASSUME NEW x \in gone \ overlapped
        PROVE  x \notin stored' /\ \A p, z \in built' : p.sess = x /\ z.sess = x => p = z
    BY <1>1, <1>11, <1>12, <2>3 DEF IInv, SessionsGo
  <2> QED
    BY <1>1, <2>1, <2>2, <2>3 DEF SessionsGo
<1> QED
  BY <1>5, <1>7, <1>9, <1>10, <1>13 DEF IInv

LEMMA NextInv == IInv /\ [Next]_vars => IInv'
<1> SUFFICES ASSUME IInv, [Next]_vars PROVE IInv'
  OBVIOUS
<1>1. ASSUME NEW t \in Threads, CreateSession(t) \/ StepBegins(t) \/ ConsumeBegins(t)
      PROVE  IInv'
  BY <1>1, BeginsInv
<1>2. ASSUME NEW t \in Threads, WriteBack(t) PROVE IInv'
  BY <1>2, WriteBackInv
<1>3. ASSUME NEW t \in Threads, Auth(t) PROVE IInv'
  BY <1>3, AuthInv
<1>4. ASSUME NEW t \in Threads, HuaweiStation(t) PROVE IInv'
  BY <1>4, HuaweiStationInv
<1>5. ASSUME NEW t \in Threads, GoodWeStation(t) PROVE IInv'
  BY <1>5, GoodWeStationInv
<1>6. ASSUME NEW t \in Threads, Answered(t) PROVE IInv'
  BY <1>6, AnsweredInv
<1>7. ASSUME NEW t \in Threads, ProcessLocal(t) PROVE IInv'
  BY <1>7, ProcessLocalInv
<1>8. ASSUME NEW t \in Threads, Merge(t) PROVE IInv'
  BY <1>8, MergeInv
<1>9. ASSUME NEW t \in Threads, Delete(t) PROVE IInv'
  BY <1>9, DeleteInv
<1>10. ASSUME NEW t \in Threads, CreateProvider(t) PROVE IInv'
  BY <1>10, CreateProviderInv
<1>11. ASSUME NEW t \in Threads, VendorStep(t) /\ UNCHANGED wizardVars PROVE IInv'
  BY <1>11, VendorOnlyInv
<1>12. ASSUME NEW s \in Sessions, Expire(s) PROVE IInv'
  BY <1>12, ExpireInv
<1>13. CASE UNCHANGED vars
  BY <1>13 DEF vars, vendorVars, wizardVars, IInv, TypeOK, VendorInv, VendorTypeOK, AcceptedOnly,
     LoneCalls, SpeaksToApi, RequestsOK, Serves, CredentialsProven, SessionsGo
<1>14. ASSUME NEW t \in Threads, Make(t) PROVE IInv'
  BY <1>14, MakeInv
<1>15. ASSUME NEW t \in Threads, NotAnswered(t) PROVE IInv'
  BY <1>15, NotAnsweredInv
<1>16. CASE ClearCache /\ UNCHANGED wizardVars
  BY <1>16, CacheOnlyInv
<1> QED
  BY <1>1, <1>2, <1>3, <1>4, <1>5, <1>6, <1>7, <1>8, <1>9, <1>10, <1>11, <1>12, <1>13, <1>14,
     <1>15, <1>16 DEF Next

-----------------------------------------------------------------------------
(* The inductive invariant holds throughout. *)
THEOREM Invariance == Spec => []IInv
BY InitInv, NextInv, PTL DEF Spec

(* Types: a call of WizardService that waits is in exactly one call to the
   vendor, each call has its adapter or the credentials to make one with, and
   an adapter is cached under the account it was made with. *)
THEOREM TypeCorrect == Spec => []TypeOK
<1>1. IInv => TypeOK
  BY DEF IInv
<1> QED
  BY <1>1, Invariance, PTL

(* WizardService hands on only credentials that the vendor accepts, however
   threads replace each other's cached adapters, or for which it used an
   adapter cached with the account's right password. *)
THEOREM CredentialsAreProven == Spec => []AuthVerifies
<1>1. IInv => AuthVerifies
  BY DEF IInv, CredentialsProven, AuthVerifies, Proven, ProvenBy
<1> QED
  BY <1>1, Invariance, PTL

(* A session that was consumed or has expired while no other call held it is
   not stored again and makes at most one provider. *)
THEOREM SessionsMakeOneProvider == Spec => []ConsumedOnce
<1>1. IInv => ConsumedOnce
  BY DEF IInv, SessionsGo, ConsumedOnce
<1> QED
  BY <1>1, Invariance, PTL

(* A GoodWe call that met no other on its adapter sends its data request to
   the API host. *)
THEOREM LoneCallsReachApi == Spec => []SpeaksToApi
<1>1. IInv => SpeaksToApi
  BY DEF IInv, VendorInv
<1> QED
  BY <1>1, Invariance, PTL
=============================================================================

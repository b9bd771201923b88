-------------------------- MODULE SlotWindowsProofs --------------------------
(***************************************************************************)
(* FollowsWindow and HealsWithinMinute for any devices, slots, page size,  *)
(* retries and minutes.  IInv, below, says where the commands that are     *)
(* still open lead each device, and what the run of the minute has read    *)
(* of it.                                                                  *)
(***************************************************************************)
EXTENDS SlotWindows, FiniteSetTheorems, SequenceTheorems, TLAPS

-----------------------------------------------------------------------------
(* The place of a row in an order, and a page of rows. *)

Orders(R, S) ==
  /\ \A a \in S : <<a, a>> \notin R
  /\ \A a, b \in S : a # b => <<a, b>> \in R \/ <<b, a>> \in R
  /\ \A a, b, c \in S : <<a, b>> \in R /\ <<b, c>> \in R => <<a, c>> \in R

LEMMA RankType ==
  ASSUME NEW S, IsFiniteSet(S), NEW R, Orders(R, S), NEW e \in S
  PROVE  Rank(e, S, R) \in 0 .. Cardinality(S) - 1
<1> DEFINE below == {a \in S : <<a, e>> \in R}
<1>1. below \in SUBSET (S \ {e})
  BY DEF Orders
<1>2. /\ IsFiniteSet(S \ {e}) /\ Cardinality(S \ {e}) = Cardinality(S) - 1
      /\ Cardinality(S) \in Nat
  BY FS_RemoveElement, FS_CardinalityType
<1>3. IsFiniteSet(below) /\ Cardinality(below) <= Cardinality(S \ {e})
  BY <1>1, <1>2, FS_Subset
<1>4. Cardinality(below) \in Nat
  BY <1>3, FS_CardinalityType
<1> QED
  BY <1>2, <1>3, <1>4 DEF Rank

\* Rows of the same rank are the same.
LEMMA RankGrows ==
  ASSUME NEW S, IsFiniteSet(S), NEW R, Orders(R, S), NEW a \in S, NEW b \in S, <<a, b>> \in R
  PROVE  Rank(a, S, R) < Rank(b, S, R)
<1> DEFINE below(e) == {x \in S : <<x, e>> \in R}
<1>1. below(a) \cup {a} \in SUBSET below(b) /\ a \notin below(a)
  BY DEF Orders
<1>2. IsFiniteSet(below(a)) /\ IsFiniteSet(below(b))
  BY FS_Subset
<1>3. Cardinality(below(a) \cup {a}) = Cardinality(below(a)) + 1
  BY <1>1, <1>2, FS_AddElement
<1>4. Cardinality(below(a) \cup {a}) <= Cardinality(below(b))
  BY <1>1, <1>2, FS_Subset
<1>5. Cardinality(below(a)) \in Nat /\ Cardinality(below(b)) \in Nat
  BY <1>2, FS_CardinalityType
<1> QED
  BY <1>3, <1>4, <1>5 DEF Rank

\* Every place is taken.
LEMMA RankOnto ==
  ASSUME NEW S, IsFiniteSet(S), NEW R, Orders(R, S)
  PROVE  \A r \in 0 .. Cardinality(S) - 1 : \E e \in S : Rank(e, S, R) = r
<1> DEFINE n == Cardinality(S)
           f == [e \in S |-> Rank(e, S, R)]
<1>1. n \in Nat
  BY FS_CardinalityType
<1>2. IsFiniteSet(0 .. n - 1) /\ Cardinality(0 .. n - 1) = n
  BY <1>1, FS_Interval
<1>3. f \in [S -> 0 .. n - 1]
  BY RankType
<1>4. \A a, b \in S : f[a] = f[b] => a = b
  <2> SUFFICES ASSUME NEW a \in S, NEW b \in S, a # b PROVE f[a] # f[b]
    OBVIOUS
  <2>1. Rank(a, S, R) < Rank(b, S, R) \/ Rank(b, S, R) < Rank(a, S, R)
    BY RankGrows DEF Orders
  <2> QED
    BY <2>1, <1>1, RankType
<1>5. f \in Injection(S, 0 .. n - 1)
  BY <1>3, <1>4 DEF Injection, IsInjective
<1>6. f \in Surjection(S, 0 .. n - 1)
  BY <1>2, <1>5, FS_Injection
<1> QED
  BY <1>6 DEF Surjection

LEMMA ListedIs ==
  ASSUME NEW S, IsFiniteSet(S), NEW R, Orders(R, S)
  PROVE  /\ Cardinality(S) \in Nat
         /\ Listed(S, R) \in [1 .. Cardinality(S) -> S]
         /\ \A e \in S : \E i \in 1 .. Cardinality(S) : Listed(S, R)[i] = e
<1>1. Cardinality(S) \in Nat
  BY FS_CardinalityType
<1>2. ASSUME NEW i \in 1 .. Cardinality(S)
      PROVE  Listed(S, R)[i] \in S /\ Rank(Listed(S, R)[i], S, R) = i - 1
  <2>1. \E e \in S : Rank(e, S, R) = i - 1
    BY <1>1, RankOnto
  <2> QED
    BY <2>1 DEF Listed
<1>3. Listed(S, R) \in [1 .. Cardinality(S) -> S]
  BY <1>2 DEF Listed
<1>4. ASSUME NEW e \in S
      PROVE  \E i \in 1 .. Cardinality(S) : Listed(S, R)[i] = e
  <2> DEFINE r == Rank(e, S, R)
             i == r + 1
  <2>1. r \in 0 .. Cardinality(S) - 1
    BY RankType
  <2>2. i \in 1 .. Cardinality(S) /\ i - 1 = r
    BY <2>1, <1>1
  <2>3. Listed(S, R)[i] \in S /\ Rank(Listed(S, R)[i], S, R) = r
    BY <2>2, <1>2
  <2>4. CASE Listed(S, R)[i] # e
    <3> DEFINE other == Listed(S, R)[i]
    <3>1. Rank(e, S, R) < Rank(other, S, R) \/ Rank(other, S, R) < Rank(e, S, R)
      BY <2>3, <2>4, RankGrows DEF Orders
    <3> QED
      BY <3>1, <2>1, <2>3
  <2> QED
    BY <2>2, <2>4
<1> QED
  BY <1>1, <1>3, <1>4

\* A page with less than PageSize rows is the last one.
LEMMA LastPage ==
  ASSUME NEW S, IsFiniteSet(S), Orders(ByDevice, S), NEW offset \in Nat,
         Cardinality(Page(S, offset)) < PageSize
  PROVE  \A e \in S : Rank(e, S, ByDevice) < offset + PageSize
<1> SUFFICES ASSUME NEW e \in S, Rank(e, S, ByDevice) >= offset + PageSize
             PROVE  FALSE
  BY RankType, WindowsAssumption, FS_CardinalityType
<1> DEFINE page == Page(S, offset)
           places == offset .. offset + PageSize - 1
           f == [x \in page |-> Rank(x, S, ByDevice)]
<1>1. page \in SUBSET S /\ IsFiniteSet(page)
  BY FS_Subset DEF Page
<1>2. f \in [page -> places]
  BY DEF Page
<1>3. ASSUME NEW r \in places PROVE \E x \in page : f[x] = r
  <2>1. r \in 0 .. Cardinality(S) - 1
    BY RankType, WindowsAssumption, FS_CardinalityType
  <2>2. PICK x \in S : Rank(x, S, ByDevice) = r
    BY <2>1, RankOnto
  <2> QED
    BY <2>2 DEF Page
<1>4. f \in Surjection(page, places)
  BY <1>2, <1>3 DEF Surjection
<1>5. Cardinality(places) <= Cardinality(page)
  BY <1>1, <1>4, FS_Surjection
<1>6. Cardinality(places) = PageSize
  BY FS_Interval, WindowsAssumption
<1> QED
  BY <1>1, <1>5, <1>6, WindowsAssumption, FS_CardinalityType

-----------------------------------------------------------------------------
(* The inductive invariant. *)

\* The state is of its type; a run is complete only while no run is in progress.
TypeOK ==
  /\ now \in Nat /\ nextSlot \in Nat
  /\ Ids \subseteq Nat /\ IsFiniteSet(Ids) /\ slots \in [Ids -> Slot]
  /\ mode \in [Devices -> {"SCHEDULE", "MANUAL"}] /\ enabled \in BOOLEAN
  /\ queue \in Seq(Command) /\ strays \in Seq(Command)
  /\ loop \in Runs \cup {None} /\ ran \in BOOLEAN /\ (ran => loop = None)
  /\ on \in [Devices -> BOOLEAN] /\ changes \in Nat
  /\ disturbed \in [Devices -> BOOLEAN] /\ calm \in [Devices -> BOOLEAN]

\* A minute starts with no key.
FreshMinute == loop = None /\ ~ran => keys = {}

\* An undisturbed device is in the hands of its scheduler.
InCharge == \A d \in Devices : ~disturbed[d] => mode[d] = "SCHEDULE" /\ enabled

Base == TypeOK /\ FreshMinute /\ InCharge

\* A device about which a property says something: nothing went wrong since it
\* last did as its slots say, or since the run of this minute began.
Steady(d) == ~disturbed[d] \/ calm[d]

\* The rows of a device wait or are in flight, oldest first.
InOrder(d) ==
  \A i \in DOMAIN queue : queue[i].dev = d =>
    /\ queue[i].status \in {"PENDING", "SENT", "TAKEN"}
    /\ \A j \in 1 .. i - 1 : queue[j].dev = d => queue[i].status = "PENDING"

\* No message of it comes a second time.
NoEcho(s, d) == \A i \in DOMAIN s : s[i].dev = d => s[i].status = "GHOST"

OldestFirst(d) == InOrder(d) /\ NoEcho(strays, d)

\* Rows that are still to be carried out, and where the last of them leads.
Ahead(d) == \E i \in DOMAIN queue : queue[i].dev = d /\ queue[i].status # "TAKEN"

LastRow(d, b) ==
  \A i \in DOMAIN queue :
    /\ queue[i].dev = d /\ queue[i].status # "TAKEN"
    /\ \A j \in i + 1 .. Len(queue) : queue[j].dev # d
    => (queue[i].act = "ON") = b

\* Messages of d in s, and where the last of them leads.
InStream(s, d) == \E i \in DOMAIN s : s[i].dev = d

LastOf(s, d, b) ==
  \A i \in DOMAIN s :
    s[i].dev = d /\ (\A j \in i + 1 .. Len(s) : s[j].dev # d) => (s[i].act = "ON") = b

\* What the device is after its last command is b: the strays come first, then
\* the rows.
EndsUp(d, b) ==
  /\ LastRow(d, b)
  /\ ~Ahead(d) => LastOf(strays, d, b)
  /\ ~Ahead(d) /\ ~InStream(strays, d) => on[d] = b

Asked(d) == \E k \in keys : k.dev = d

\* Where the commands of this minute, and outside the slots those of earlier
\* ones, leave a device.
Leads(d) ==
  /\ ~disturbed[d] /\ ~Within /\ ~EndsNow => EndsUp(d, FALSE)
  /\ ~disturbed[d] /\ ~Within /\ EndsNow /\ Asked(d) => EndsUp(d, FALSE)
  /\ Steady(d) /\ Within /\ ~EndsNow /\ Asked(d) => EndsUp(d, TRUE)

InKeys(e, due) == [dev |-> e.dev, slot |-> e.slot, act |-> IF due THEN "ON" ELSE "OFF"] \in keys

\* What a query gives for the device is enqueued: up to an offset, or all of it.
ReadTo(d, due, offset) ==
  \A e \in Entries(due) :
    e.dev = d /\ Rank(e, Entries(due), ByDevice) < offset => InKeys(e, due)

ReadAll(d, due) == \A e \in Entries(due) : e.dev = d => InKeys(e, due)

\* The run has skipped nothing of the device: no page moved under it.
Covered(d) ==
  /\ ran => ReadAll(d, TRUE) /\ ReadAll(d, FALSE)
  /\ loop # None =>
       /\ ReadTo(d, Head(loop.phases) = "due", loop.offset)
       /\ Len(loop.phases) = 1 => ReadAll(d, Head(loop.phases) # "due")

DeviceInv(d) == (Steady(d) => OldestFirst(d) /\ Covered(d)) /\ Leads(d)

IInv == Base /\ \A d \in Devices : DeviceInv(d)

-----------------------------------------------------------------------------
(* The rows of a query and the queue. *)

LEMMA EntriesOrdered ==
  ASSUME TypeOK, NEW S \in SUBSET Entry
  PROVE  IsFiniteSet(S) /\ Orders(ByDevice, S)
<1>1. IsFiniteSet(Devices \X Ids)
  BY WindowsAssumption, FS_Product DEF TypeOK
<1> DEFINE f == [p \in Devices \X Ids |-> [dev |-> p[1], slot |-> p[2]]]
<1>2. f \in Surjection(Devices \X Ids, Entry)
  <2>1. f \in [Devices \X Ids -> Entry]
    BY DEF Entry
  <2>2. ASSUME NEW e \in Entry PROVE \E p \in Devices \X Ids : f[p] = e
    <3>1. e.dev \in Devices /\ e.slot \in Ids /\ e = [dev |-> e.dev, slot |-> e.slot]
      BY DEF Entry
    <3>2. <<e.dev, e.slot>> \in Devices \X Ids /\ f[<<e.dev, e.slot>>] = e
      BY <3>1
    <3> QED
      BY <3>2
  <2> QED
    BY <2>1, <2>2 DEF Surjection
<1>3. IsFiniteSet(Entry)
  BY <1>1, <1>2, FS_Surjection
<1>4. IsFiniteSet(S)
  BY <1>3, FS_Subset
<1>5. ASSUME NEW e \in Entry
      PROVE  e.dev \in Nat /\ e.slot \in Nat /\ e = [dev |-> e.dev, slot |-> e.slot]
  <2>1. e.dev \in Devices /\ e.slot \in Ids /\ e = [dev |-> e.dev, slot |-> e.slot]
    BY DEF Entry
  <2> QED
    BY <2>1, WindowsAssumption DEF TypeOK
<1>6. \A a, b \in Entry : <<a, b>> \in ByDevice
                            <=> a.dev < b.dev \/ (a.dev = b.dev /\ a.slot < b.slot)
  BY DEF ByDevice
<1>7. \A a, b \in Entry : a.dev = b.dev /\ a.slot = b.slot => a = b
  BY <1>5
<1>8. Orders(ByDevice, S)
  BY <1>5, <1>6, <1>7 DEF Orders
<1> QED
  BY <1>4, <1>8

LEMMA FunctionIsSeq ==
  ASSUME NEW n \in Nat, NEW S, NEW f \in [1 .. n -> S]
  PROVE  f \in Seq(S) /\ Len(f) = n
OBVIOUS

LEMMA Queue ==
  ASSUME TypeOK
  PROVE  /\ Len(queue) \in Nat /\ DOMAIN queue = 1 .. Len(queue)
         /\ \A i \in DOMAIN queue :
              /\ queue[i] \in Command /\ queue[i].dev \in Devices
              /\ queue[i].act \in Actions /\ queue[i].status \in Statuses
<1>1. queue \in Seq(Command)
  BY DEF TypeOK
<1>2. Len(queue) \in Nat /\ DOMAIN queue = 1 .. Len(queue)
  BY <1>1, LenProperties
<1>3. \A i \in 1 .. Len(queue) : queue[i] \in Command
  BY <1>1, ElementOfSeq
<1>4. \A c \in Command : c.dev \in Devices /\ c.act \in Actions /\ c.status \in Statuses
  BY DEF Command
<1> QED
  BY <1>2, <1>3, <1>4

LEMMA Strays ==
  ASSUME TypeOK
  PROVE  /\ Len(strays) \in Nat /\ DOMAIN strays = 1 .. Len(strays)
         /\ \A i \in DOMAIN strays : strays[i] \in Command
         /\ strays # <<>> => Head(strays) \in Command /\ Tail(strays) \in Seq(Command)
<1>1. strays \in Seq(Command)
  BY DEF TypeOK
<1> QED
  BY <1>1, LenProperties, ElementOfSeq, HeadTailProperties

\* A message that strays.
LEMMA StrayType ==
  ASSUME TypeOK, NEW i \in DOMAIN queue, NEW st \in Statuses
  PROVE  /\ [queue[i] EXCEPT !.status = st] \in Command
         /\ [queue[i] EXCEPT !.status = st].dev = queue[i].dev
         /\ [queue[i] EXCEPT !.status = st].act = queue[i].act
         /\ [queue[i] EXCEPT !.status = st].status = st
BY Queue DEF Command

\* The first message leaves the stream.
LEMMA FirstGone ==
  ASSUME NEW t \in Seq(Command), t # <<>>, NEW d
  PROVE  /\ NoEcho(t, d) => NoEcho(Tail(t), d)
         /\ \A b \in BOOLEAN : LastOf(t, d, b) => LastOf(Tail(t), d, b)
         /\ Head(t).dev # d => InStream(Tail(t), d) = InStream(t, d)
         /\ InStream(Tail(t), d) => InStream(t, d)
         /\ Head(t).dev = d /\ ~InStream(Tail(t), d)
              => \A b \in BOOLEAN : LastOf(t, d, b) => (Head(t).act = "ON") = b
<1> DEFINE n == Len(t)
           r == Tail(t)
<1>1. /\ n \in Nat /\ n > 0 /\ DOMAIN t = 1 .. n /\ Head(t) = t[1]
      /\ Len(r) = n - 1 /\ DOMAIN r = 1 .. n - 1 /\ \A i \in 1 .. n - 1 : r[i] = t[i + 1]
  <2>1. n \in Nat /\ n > 0 /\ DOMAIN t = 1 .. n /\ Head(t) = t[1]
    BY LenProperties, EmptySeq
  <2>2. r \in Seq(Command) /\ Len(r) = n - 1 /\ \A i \in 1 .. n - 1 : r[i] = t[i + 1]
    BY <2>1, HeadTailProperties
  <2>3. DOMAIN r = 1 .. n - 1
    BY <2>2, LenProperties
  <2> QED
    BY <2>1, <2>2, <2>3
<1> HIDE DEF n, r
<1>2. \A i \in 1 .. n - 1 : i + 1 \in 1 .. n
  BY <1>1
<1>3. \A k \in 1 .. n : k # 1 => k - 1 \in 1 .. n - 1 /\ (k - 1) + 1 = k
  BY <1>1
<1>4. NoEcho(t, d) => NoEcho(r, d)
  BY <1>1, <1>2 DEF NoEcho
<1>5. InStream(r, d) => InStream(t, d)
  BY <1>1, <1>2 DEF InStream
<1>6. Head(t).dev # d => (InStream(t, d) => InStream(r, d))
  <2> SUFFICES ASSUME t[1].dev # d, NEW k \in 1 .. n, t[k].dev = d PROVE InStream(r, d)
    BY <1>1 DEF InStream
  <2>1. k - 1 \in 1 .. n - 1 /\ r[k - 1] = t[k]
    BY <1>1, <1>3
  <2> QED
    BY <1>1, <2>1 DEF InStream
<1>7. ASSUME NEW b \in BOOLEAN, LastOf(t, d, b) PROVE LastOf(r, d, b)
  <2> SUFFICES ASSUME NEW i \in 1 .. n - 1, r[i].dev = d, \A j \in i + 1 .. n - 1 : r[j].dev # d
               PROVE  (r[i].act = "ON") = b
    BY <1>1 DEF LastOf
  <2>1. i + 1 \in 1 .. n /\ r[i] = t[i + 1]
    BY <1>1, <1>2
  <2>2. ASSUME NEW k \in (i + 1) + 1 .. n PROVE t[k].dev # d
    <3>1. k - 1 \in i + 1 .. n - 1 /\ k - 1 \in 1 .. n - 1 /\ (k - 1) + 1 = k
      BY <1>1
    <3> QED
      BY <1>1, <3>1
  <2> QED
    BY <1>1, <1>7, <2>1, <2>2 DEF LastOf, n
<1>8. ASSUME Head(t).dev = d, ~InStream(r, d), NEW b \in BOOLEAN, LastOf(t, d, b)
      PROVE  (Head(t).act = "ON") = b
  <2>1. ASSUME NEW k \in 1 + 1 .. n PROVE t[k].dev # d
    <3>1. k - 1 \in 1 .. n - 1 /\ (k - 1) + 1 = k
      BY <1>1
    <3> QED
      BY <1>1, <1>8, <3>1 DEF InStream
  <2>2. 1 \in DOMAIN t
    BY <1>1
  <2> QED
    BY <1>1, <1>8, <2>1, <2>2 DEF LastOf, n
<1>9. InStream(t, d) \in BOOLEAN /\ InStream(r, d) \in BOOLEAN
  BY Zenon DEF InStream
<1>10. Head(t).dev # d => InStream(r, d) = InStream(t, d)
  BY <1>5, <1>6, <1>9
<1> QED
  BY <1>4, <1>5, <1>7, <1>8, <1>10 DEF r

\* A message joins the stream, behind the others.
LEMMA MessageAdded ==
  ASSUME NEW t \in Seq(Command), NEW c \in Command, NEW d
  PROVE  /\ Append(t, c) \in Seq(Command)
         /\ c.dev # d =>
              /\ InStream(Append(t, c), d) = InStream(t, d)
              /\ NoEcho(t, d) => NoEcho(Append(t, c), d)
              /\ \A b \in BOOLEAN : LastOf(t, d, b) => LastOf(Append(t, c), d, b)
         /\ c.dev = d =>
              /\ InStream(Append(t, c), d) /\ LastOf(Append(t, c), d, c.act = "ON")
              /\ NoEcho(t, d) /\ c.status = "GHOST" => NoEcho(Append(t, c), d)
<1> DEFINE n == Len(t)
           a == Append(t, c)
<1>1. /\ n \in Nat /\ DOMAIN t = 1 .. n /\ a \in Seq(Command) /\ Len(a) = n + 1
      /\ DOMAIN a = 1 .. n + 1 /\ a[n + 1] = c /\ \A i \in 1 .. n : a[i] = t[i]
  <2>1. n \in Nat /\ DOMAIN t = 1 .. n
    BY LenProperties
  <2>2. a \in Seq(Command) /\ Len(a) = n + 1 /\ a[n + 1] = c /\ \A i \in 1 .. n : a[i] = t[i]
    BY AppendProperties
  <2>3. DOMAIN a = 1 .. n + 1
    BY <2>2, LenProperties
  <2> QED
    BY <2>1, <2>2, <2>3
<1> HIDE DEF n, a
<1>2. /\ \A i \in 1 .. n : i \in 1 .. n + 1
      /\ \A i \in 1 .. n + 1 : i # n + 1 => i \in 1 .. n
      /\ n + 1 \in 1 .. n + 1
  BY <1>1
<1>3. ASSUME c.dev # d
      PROVE  /\ InStream(a, d) = InStream(t, d)
             /\ NoEcho(t, d) => NoEcho(a, d)
             /\ \A b \in BOOLEAN : LastOf(t, d, b) => LastOf(a, d, b)
  <2>1. InStream(a, d) = InStream(t, d)
    BY <1>1, <1>2, <1>3 DEF InStream
  <2>2. NoEcho(t, d) => NoEcho(a, d)
    BY <1>1, <1>2, <1>3 DEF NoEcho
  <2>3. ASSUME NEW b \in BOOLEAN, LastOf(t, d, b), NEW i \in 1 .. n + 1, a[i].dev = d,
               \A j \in i + 1 .. n + 1 : a[j].dev # d
        PROVE  (a[i].act = "ON") = b
    <3>1. i \in 1 .. n /\ a[i] = t[i]
      BY <1>1, <1>2, <1>3, <2>3
    <3>2. \A j \in i + 1 .. n : j \in i + 1 .. n + 1 /\ j \in 1 .. n
      BY <1>1, <3>1
    <3>3. \A j \in i + 1 .. n : t[j].dev # d
      BY <1>1, <2>3, <3>2
    <3> QED
      BY <1>1, <2>3, <3>1, <3>3 DEF LastOf, n
  <2> QED
    BY <1>1, <2>1, <2>2, <2>3 DEF LastOf
<1>4. ASSUME c.dev = d
      PROVE  /\ InStream(a, d) /\ LastOf(a, d, c.act = "ON")
             /\ NoEcho(t, d) /\ c.status = "GHOST" => NoEcho(a, d)
  <2>1. InStream(a, d)
    BY <1>1, <1>2, <1>4 DEF InStream
  <2>2. NoEcho(t, d) /\ c.status = "GHOST" => NoEcho(a, d)
    BY <1>1, <1>2, <1>4 DEF NoEcho
  <2>3. ASSUME NEW i \in 1 .. n + 1, a[i].dev = d, \A j \in i + 1 .. n + 1 : a[j].dev # d
        PROVE  (a[i].act = "ON") = (c.act = "ON")
    <3>1. i = n + 1
      <4> SUFFICES ASSUME i # n + 1 PROVE FALSE
        OBVIOUS
      <4>1. n + 1 \in i + 1 .. n + 1
        BY <1>1
      <4> QED
        BY <1>1, <1>4, <2>3, <4>1
    <3> QED
      BY <1>1, <3>1
  <2> QED
    BY <1>1, <2>1, <2>2, <2>3 DEF LastOf
<1> QED
  BY <1>1, <1>3, <1>4 DEF a

LEMMA Removed ==
  ASSUME TypeOK, NEW i \in DOMAIN queue
  PROVE  /\ RemoveAt(queue, i) \in Seq(Command)
         /\ Len(RemoveAt(queue, i)) = Len(queue) - 1
         /\ DOMAIN RemoveAt(queue, i) = 1 .. Len(queue) - 1
         /\ \A j \in 1 .. Len(queue) - 1 :
              RemoveAt(queue, i)[j] = IF j < i THEN queue[j] ELSE queue[j + 1]
<1> DEFINE s == SubSeq(queue, 1, i - 1)
           t == SubSeq(queue, i + 1, Len(queue))
           n == Len(queue)
<1>1. n \in Nat /\ i \in 1 .. n /\ \A j \in 1 .. n : queue[j] \in Command
  BY Queue
<1>2. s \in Seq(Command) /\ Len(s) = i - 1 /\ \A j \in 1 .. i - 1 : s[j] = queue[j]
  BY <1>1, SubSeqProperties
<1>3. t \in Seq(Command) /\ Len(t) = n - i /\ \A j \in 1 .. n - i : t[j] = queue[i + j]
  BY <1>1, SubSeqProperties
<1> HIDE DEF s, t
<1>4. /\ s \o t \in Seq(Command) /\ Len(s \o t) = n - 1
      /\ \A j \in 1 .. n - 1 : (s \o t)[j] = IF j <= i - 1 THEN s[j] ELSE t[j - (i - 1)]
  <2>1. /\ s \o t \in Seq(Command) /\ Len(s \o t) = Len(s) + Len(t)
        /\ \A j \in 1 .. Len(s) + Len(t) :
             (s \o t)[j] = IF j <= Len(s) THEN s[j] ELSE t[j - Len(s)]
    BY <1>2, <1>3, ConcatProperties
  <2>2. Len(s) = i - 1 /\ Len(s) + Len(t) = n - 1
    BY <1>1, <1>2, <1>3
  <2> QED
    BY <2>1, <2>2
<1>5. ASSUME NEW j \in 1 .. n - 1
      PROVE  (s \o t)[j] = IF j < i THEN queue[j] ELSE queue[j + 1]
  <2>1. CASE j < i
    BY <1>1, <1>2, <1>4, <2>1
  <2>2. CASE ~(j < i)
    <3>1. (s \o t)[j] = t[j - (i - 1)] /\ j - (i - 1) \in 1 .. n - i
      BY <1>1, <1>4, <2>2
    <3>2. t[j - (i - 1)] = queue[i + (j - (i - 1))]
      BY <1>3, <3>1
    <3>3. i + (j - (i - 1)) = j + 1
      BY <1>1
    <3> QED
      BY <2>2, <3>1, <3>2, <3>3
  <2> QED
    BY <2>1, <2>2
<1>6. RemoveAt(queue, i) = s \o t
  BY DEF RemoveAt, s, t
<1>7. DOMAIN (s \o t) = 1 .. n - 1
  BY <1>4, LenProperties
<1> QED
  BY <1>4, <1>5, <1>6, <1>7

\* What a page adds to the queue: rows of its devices, and one for each of its
\* keys that is new.
LEMMA Enqueued ==
  ASSUME TypeOK, NEW page \in SUBSET Entry, NEW act \in Actions, Enqueue(page, act)
  PROVE  /\ queue' \in Seq(Command) /\ Len(queue') \in Nat /\ Len(queue) <= Len(queue')
         /\ DOMAIN queue' = 1 .. Len(queue')
         /\ \A i \in 1 .. Len(queue) : queue'[i] = queue[i]
         /\ \A i \in Len(queue) + 1 .. Len(queue') :
              /\ queue'[i].act = act /\ queue'[i].status = "PENDING"
              /\ \E e \in page : e.dev = queue'[i].dev
         /\ \A e \in page :
              \/ [dev |-> e.dev, slot |-> e.slot, act |-> act] \in keys
              \/ \E i \in Len(queue) + 1 .. Len(queue') : queue'[i].dev = e.dev
<1> DEFINE key(e) == [dev |-> e.dev, slot |-> e.slot, act |-> act]
           row(e) == [minute |-> now, dev |-> e.dev, slot |-> e.slot, act |-> act,
                      status |-> "PENDING", attempt |-> 0]
           new == {e \in page : key(e) \notin keys}
           fresh == Listed(new, ByDevice)
           rows == [i \in DOMAIN fresh |-> row(fresh[i])]
           m == Cardinality(new)
           n == Len(queue)
<1>1. new \in SUBSET Entry
  OBVIOUS
<1>2. IsFiniteSet(new) /\ Orders(ByDevice, new)
  BY <1>1, EntriesOrdered
<1> HIDE DEF new
<1>3. /\ m \in Nat /\ fresh \in [1 .. m -> new]
      /\ \A e \in new : \E i \in 1 .. m : fresh[i] = e
  BY <1>2, ListedIs
<1>4. \A e \in Entry : row(e) \in Command
  <2> SUFFICES ASSUME NEW e \in Entry PROVE row(e) \in Command
    OBVIOUS
  <2>1. e.dev \in Devices /\ e.slot \in Ids
    BY DEF Entry
  <2>2. e.slot \in Nat /\ now \in Nat
    BY <2>1 DEF TypeOK
  <2>3. MaxRetry \in Nat /\ 0 \in 0 .. MaxRetry
    BY WindowsAssumption
  <2> QED
    BY <2>1, <2>2, <2>3 DEF Command, Statuses
<1>5. queue' = queue \o rows
  BY DEF Enqueue, new
<1> HIDE DEF fresh
<1>6. rows \in [1 .. m -> Command] /\ \A i \in 1 .. m : rows[i] = row(fresh[i])
  BY <1>1, <1>3, <1>4
<1> HIDE DEF rows
<1>7. rows \in Seq(Command) /\ Len(rows) = m
  BY <1>3, <1>6, FunctionIsSeq
<1>8. n \in Nat /\ queue \in Seq(Command)
  BY Queue DEF TypeOK
<1>9. /\ queue' \in Seq(Command) /\ Len(queue') = n + m
      /\ \A i \in 1 .. n + m : queue'[i] = IF i <= n THEN queue[i] ELSE rows[i - n]
  <2>1. /\ queue \o rows \in Seq(Command) /\ Len(queue \o rows) = Len(queue) + Len(rows)
        /\ \A i \in 1 .. Len(queue) + Len(rows) :
             (queue \o rows)[i] = IF i <= Len(queue) THEN queue[i] ELSE rows[i - Len(queue)]
    BY <1>7, <1>8, ConcatProperties
  <2> QED
    BY <1>5, <1>7, <2>1
<1>10. DOMAIN queue' = 1 .. Len(queue')
  BY <1>9, LenProperties
<1>11. \A i \in 1 .. n : queue'[i] = queue[i]
  BY <1>3, <1>8, <1>9
<1>12. ASSUME NEW i \in n + 1 .. n + m
       PROVE  /\ queue'[i].act = act /\ queue'[i].status = "PENDING"
              /\ \E e \in page : e.dev = queue'[i].dev
  <2>1. i - n \in 1 .. m /\ i \in 1 .. n + m /\ ~(i <= n)
    BY <1>3, <1>8
  <2>2. queue'[i] = row(fresh[i - n]) /\ fresh[i - n] \in page
    BY <2>1, <1>3, <1>6, <1>9 DEF new
  <2> QED
    BY <2>2
<1>13. ASSUME NEW e \in page
       PROVE  key(e) \in keys \/ \E i \in n + 1 .. n + m : queue'[i].dev = e.dev
  <2>1. CASE key(e) \notin keys
    <3>1. PICK k \in 1 .. m : fresh[k] = e
      BY <2>1, <1>3 DEF new
    <3>2. k + n \in n + 1 .. n + m /\ k + n \in 1 .. n + m /\ ~(k + n <= n) /\ (k + n) - n = k
      BY <1>3, <1>8
    <3>3. queue'[k + n] = row(e)
      BY <3>1, <3>2, <1>6, <1>9
    <3>4. queue'[k + n].dev = e.dev
      BY <3>3
    <3> QED
      BY <3>2, <3>4
  <2> QED
    BY <2>1
<1>14. Len(queue') = n + m /\ n + m \in Nat /\ n <= n + m
  BY <1>3, <1>8, <1>9
<1> HIDE DEF m
<1> QED
  BY <1>9, <1>10, <1>11, <1>12, <1>13, <1>14

LEMMA CascadeType ==
  ASSUME TypeOK, Cascade
  PROVE  queue' \in Seq(Command) /\ strays' \in Seq(Command)
<1>1. queue' \in Seq(Command)
  BY EmptySeq DEF Cascade
<1>2. ASSUME NEW i \in DOMAIN queue, Strand(queue[i], "GHOST") PROVE strays' \in Seq(Command)
  <2>1. [queue[i] EXCEPT !.status = "GHOST"] \in Command
    BY StrayType DEF Statuses
  <2> QED
    BY <1>2, <2>1, MessageAdded DEF Strand, TypeOK
<1> QED
  BY <1>1, <1>2 DEF Cascade, TypeOK

LEMMA WithIdsType ==
  ASSUME NEW choice \in SlotChoices, NEW first \in Nat
  PROVE  /\ DOMAIN WithIds(choice, first) \subseteq Nat
         /\ IsFiniteSet(DOMAIN WithIds(choice, first))
         /\ WithIds(choice, first) \in [DOMAIN WithIds(choice, first) -> Slot]
         /\ first + Len(choice) \in Nat
<1>1. choice \in Seq(Slot)
  BY WindowsAssumption
<1>2. Len(choice) \in Nat /\ \A i \in 1 .. Len(choice) : choice[i] \in Slot
  BY <1>1
<1>3. DOMAIN WithIds(choice, first) = first .. first + Len(choice) - 1
  BY DEF WithIds
<1>4. \A id \in first .. first + Len(choice) - 1 : choice[id - first + 1] \in Slot
  BY <1>2
<1>5. IsFiniteSet(first .. first + Len(choice) - 1)
  BY <1>2, FS_Interval
<1> QED
  BY <1>2, <1>3, <1>4, <1>5 DEF WithIds

-----------------------------------------------------------------------------
(* The types and the flags of the run. *)

LEMMA DisturbType ==
  ASSUME TypeOK, NEW D \in SUBSET Devices, Disturb(D)
  PROVE  /\ disturbed' \in [Devices -> BOOLEAN] /\ calm' \in [Devices -> BOOLEAN]
         /\ \A d \in D : disturbed'[d] /\ ~calm'[d]
         /\ \A d \in Devices \ D : disturbed'[d] = disturbed[d] /\ calm'[d] = calm[d]
BY DEF Disturb, TypeOK

LEMMA StatusType ==
  ASSUME TypeOK, NEW i \in DOMAIN queue, NEW st \in Statuses
  PROVE  /\ [queue EXCEPT ![i].status = st] \in Seq(Command)
         /\ \A n \in 0 .. MaxRetry :
              [queue EXCEPT ![i].status = st, ![i].attempt = n] \in Seq(Command)
<1>1. queue \in Seq(Command) /\ i \in 1 .. Len(queue) /\ queue[i] \in Command
  BY Queue DEF TypeOK
<1>2. [queue[i] EXCEPT !.status = st] \in Command
  BY <1>1 DEF Command
<1>3. [queue EXCEPT ![i] = [queue[i] EXCEPT !.status = st]] \in Seq(Command)
  BY <1>1, <1>2, ExceptSeq
<1>4. ASSUME NEW n \in 0 .. MaxRetry
      PROVE  [queue EXCEPT ![i].status = st, ![i].attempt = n] \in Seq(Command)
  <2>1. [queue[i] EXCEPT !.status = st, !.attempt = n] \in Command
    BY <1>1 DEF Command
  <2>2. [queue EXCEPT ![i] = [queue[i] EXCEPT !.status = st, !.attempt = n]] \in Seq(Command)
    BY <1>1, <2>1, ExceptSeq
  <2> QED
    BY <2>2
<1> QED
  BY <1>3, <1>4

LEMMA BaseInit == Init => Base
<1> SUFFICES ASSUME Init PROVE Base
  OBVIOUS
<1>1. PICK choice \in SlotChoices : slots = WithIds(choice, 1) /\ nextSlot = Len(choice) + 1
  BY DEF Init
<1>2. /\ Ids \subseteq Nat /\ IsFiniteSet(Ids) /\ slots \in [Ids -> Slot] /\ nextSlot \in Nat
  BY <1>1, WithIdsType DEF Ids
<1>3. queue \in Seq(Command) /\ strays \in Seq(Command)
  BY EmptySeq, Zenon DEF Init
<1>4. TypeOK
  BY <1>2, <1>3 DEF Init, TypeOK
<1> QED
  BY <1>4 DEF Init, Base, FreshMinute, InCharge

\* The phases of a run.
LEMMA PhasesOf ==
  ASSUME NEW r \in Runs
  PROVE  /\ r.offset \in Nat
         /\ Len(r.phases) # 1 =>
              /\ Tail(r.phases) \in {<<"due">>, <<"end">>} /\ Len(Tail(r.phases)) = 1
              /\ (Head(Tail(r.phases)) = "due") = (Head(r.phases) # "due")
<1>1. /\ r.offset \in Nat
      /\ r.phases \in {<<"due", "end">>, <<"end", "due">>, <<"due">>, <<"end">>}
  BY DEF Runs
<1>2. CASE r.phases = <<"due", "end">>
  <2>1. Tail(r.phases) = <<"end">> /\ Head(r.phases) = "due"
    BY <1>2
  <2> QED
    BY <2>1, <1>1
<1>3. CASE r.phases = <<"end", "due">>
  <2>1. Tail(r.phases) = <<"due">> /\ Head(r.phases) = "end"
    BY <1>3
  <2> QED
    BY <2>1, <1>1
<1>4. CASE r.phases \in {<<"due">>, <<"end">>}
  BY <1>1, <1>4
<1> QED
  BY <1>1, <1>2, <1>3, <1>4

LEMMA ReadPageBase ==
  ASSUME Base, ReadPage
  PROVE  /\ Base'
         /\ loop \in Runs /\ ~ran
         /\ loop' = None <=> (Cardinality(Page(Entries(Head(loop.phases) = "due"), loop.offset))
                                < PageSize /\ Len(loop.phases) = 1)
<1> DEFINE due == Head(loop.phases) = "due"
           page == Page(Entries(due), loop.offset)
           last == Cardinality(page) < PageSize
<1>1. TypeOK /\ loop \in Runs /\ ~ran /\ loop # None
  BY DEF Base, TypeOK, ReadPage
<1>2. loop' = IF ~last THEN [loop EXCEPT !.offset = @ + PageSize]
              ELSE IF Len(loop.phases) = 1 THEN None
              ELSE [phases |-> Tail(loop.phases), offset |-> 0]
  BY DEF ReadPage
<1>3. page \in SUBSET Entry
  BY DEF Page, Entries
<1>4. queue' \in Seq(Command)
  <2>1. Enqueue(page, IF due THEN "ON" ELSE "OFF")
    BY DEF ReadPage
  <2>2. (IF due THEN "ON" ELSE "OFF") \in Actions
    BY DEF Actions
  <2> HIDE DEF page, due
  <2> QED
    BY <1>1, <1>3, <2>1, <2>2, Enqueued
<1> HIDE DEF page, due, last
<1>5. PageSize \in Nat /\ None \notin Runs
  BY WindowsAssumption
<1>6. [loop EXCEPT !.offset = @ + PageSize] \in Runs
  BY <1>1, <1>5 DEF Runs
<1>7. Len(loop.phases) # 1 => [phases |-> Tail(loop.phases), offset |-> 0] \in Runs
  BY <1>1, PhasesOf DEF Runs
<1>8. /\ loop' \in Runs \cup {None}
      /\ loop' = None <=> last /\ Len(loop.phases) = 1
  BY <1>2, <1>5, <1>6, <1>7
<1>9. /\ ran' = (loop' = None)
      /\ UNCHANGED <<now, slots, nextSlot, mode, enabled, strays, on, changes, disturbed, calm>>
  BY DEF ReadPage, Undisturbed
<1>10. TypeOK'
  BY <1>1, <1>4, <1>8, <1>9 DEF TypeOK, Ids
<1>11. FreshMinute' /\ InCharge'
  BY <1>9 DEF Base, FreshMinute, InCharge
<1> QED
  BY <1>1, <1>8, <1>10, <1>11 DEF Base, last, page, due

LEMMA BaseNext == Base /\ [Next]_vars => Base'
<1> SUFFICES ASSUME Base, [Next]_vars PROVE Base'
  OBVIOUS
<1>0. /\ TypeOK /\ FreshMinute /\ InCharge
      /\ Devices \in SUBSET Devices
  BY DEF Base
<1>1. ASSUME NEW phases \in {<<"due", "end">>, <<"end", "due">>}, StartRun(phases)
      PROVE  Base'
  <2>1. [phases |-> phases, offset |-> 0] \in Runs /\ None \notin Runs
    BY WindowsAssumption DEF Runs
  <2>2. \A d \in Devices : calm'[d] \in BOOLEAN
    BY <1>1 DEF StartRun, Open
  <2>3. TypeOK'
    BY <1>0, <1>1, <2>1, <2>2 DEF StartRun, TypeOK, Ids
  <2> QED
    BY <1>0, <1>1, <2>1, <2>3 DEF StartRun, Base, FreshMinute, InCharge
<1>2. CASE ReadPage
  BY <1>2, ReadPageBase
<1>3. CASE Tick
  <2>1. \A d \in Devices : disturbed'[d] =
          IF Settled(d) /\ on[d] = Within THEN FALSE ELSE disturbed[d] \/ ~ran
    BY <1>3 DEF Tick
  <2> DEFINE cleared(d) == Settled(d) /\ on[d] = Within
  <2>4. /\ disturbed' = [d \in Devices |-> IF cleared(d) THEN FALSE ELSE disturbed[d] \/ ~ran]
        /\ calm' = [d \in Devices |-> FALSE]
    BY <1>3 DEF Tick
  <2> HIDE DEF cleared
  <2>5. disturbed' \in [Devices -> BOOLEAN] /\ calm' \in [Devices -> BOOLEAN]
    <3>1. \A d \in Devices : (disturbed[d] \/ ~ran) \in BOOLEAN
      BY <1>0 DEF TypeOK
    <3> QED
      BY <2>4, <3>1
  <2>6. now \in Nat /\ now' = now + 1 /\ ran' = FALSE
    BY <1>0, <1>3 DEF Tick, TypeOK
  <2>7. loop' = None
        /\ UNCHANGED <<slots, nextSlot, mode, enabled, queue, strays, loop, on, changes>>
    BY <1>3 DEF Tick
  <2>8. now' \in Nat
    BY <2>6
  <2>9. ran' \in BOOLEAN
    BY <2>6, Zenon
  <2>2. TypeOK'
    BY <1>0, <2>5, <2>7, <2>8, <2>9 DEF TypeOK, Ids
  <2>3. InCharge'
    BY <1>0, <1>3, <2>1 DEF Tick, InCharge, Settled
  <2> QED
    BY <1>3, <2>2, <2>3 DEF Tick, Base, FreshMinute
<1>4. ASSUME NEW i \in DOMAIN queue, Publish(i) PROVE Base'
  <2>1. queue' \in Seq(Command)
    BY <1>0, <1>4, StatusType DEF Publish, Statuses
  <2>2. TypeOK'
    BY <1>0, <1>4, <2>1 DEF Publish, Undisturbed, TypeOK, Ids
  <2> QED
    BY <1>0, <1>4, <2>2 DEF Publish, Undisturbed, Base, FreshMinute, InCharge
<1>5. ASSUME NEW i \in DOMAIN queue, Take(i) PROVE Base'
  <2>1. queue' \in Seq(Command) /\ on' \in [Devices -> BOOLEAN]
    BY <1>0, <1>5, StatusType DEF Take, Carry, TypeOK, Statuses
  <2>2. TypeOK'
    BY <1>0, <1>5, <2>1 DEF Take, Undisturbed, TypeOK, Ids
  <2> QED
    BY <1>0, <1>5, <2>2 DEF Take, Undisturbed, Base, FreshMinute, InCharge
<1>6. ASSUME NEW i \in DOMAIN queue, PublishFails(i) PROVE Base'
  <2>1. strays' \in Seq(Command)
    <3>1. [queue[i] EXCEPT !.status = "ECHO"] \in Command
      BY <1>0, StrayType DEF Statuses
    <3> QED
      BY <1>0, <1>6, <3>1, MessageAdded DEF PublishFails, Strand, TypeOK
  <2>2. queue' \in Seq(Command)
    <3>1. queue[i].attempt \in 0 .. MaxRetry /\ MaxRetry \in Nat
      BY <1>0, Queue, WindowsAssumption DEF Command
    <3>2. CASE queue[i].attempt < MaxRetry
      <4>1. queue[i].attempt + 1 \in 0 .. MaxRetry
        BY <3>1, <3>2
      <4>2. queue' = [queue EXCEPT ![i].status = "BACKOFF",
                                    ![i].attempt = queue[i].attempt + 1]
        BY <1>6, <3>2 DEF PublishFails
      <4> QED
        BY <1>0, <4>1, <4>2, StatusType DEF Statuses
    <3>3. CASE ~(queue[i].attempt < MaxRetry)
      BY <1>0, <1>6, <3>3, Removed DEF PublishFails
    <3> QED
      BY <3>2, <3>3
  <2>3. Disturb({queue[i].dev}) /\ {queue[i].dev} \in SUBSET Devices
    BY <1>0, <1>6, Queue DEF PublishFails
  <2>4. TypeOK'
    BY <1>0, <1>6, <2>1, <2>2, <2>3, DisturbType DEF PublishFails, Change, TypeOK, Ids
  <2> QED
    BY <1>0, <1>6, <2>3, <2>4, DisturbType DEF PublishFails, Base, FreshMinute, InCharge
<1>13. ASSUME NEW i \in DOMAIN queue, Lose(i) PROVE Base'
  <2>1. queue' \in Seq(Command)
    BY <1>0, <1>13, StatusType DEF Lose, Statuses
  <2>2. Disturb({queue[i].dev}) /\ {queue[i].dev} \in SUBSET Devices
    BY <1>0, <1>13, Queue DEF Lose
  <2>3. TypeOK'
    BY <1>0, <1>13, <2>1, <2>2, DisturbType DEF Lose, Change, TypeOK, Ids
  <2> QED
    BY <1>0, <1>13, <2>2, <2>3, DisturbType DEF Lose, Base, FreshMinute, InCharge
<1>14. ASSUME NEW i \in DOMAIN queue, Settle(i) PROVE Base'
  <2>1. TypeOK'
    BY <1>0, <1>14, Removed DEF Settle, Undisturbed, TypeOK, Ids
  <2> QED
    BY <1>0, <1>14, <2>1 DEF Settle, Undisturbed, Base, FreshMinute, InCharge
<1>15. ASSUME NEW i \in DOMAIN queue, Timeout(i) PROVE Base'
  <2>1. [queue[i] EXCEPT !.status = "GHOST"] \in Command
    BY <1>0, StrayType DEF Statuses
  <2>2. strays' \in Seq(Command)
    BY <1>0, <1>15, <2>1, MessageAdded DEF Timeout, Strand, TypeOK
  <2>3. TypeOK'
    BY <1>0, <1>15, <2>2, Removed DEF Timeout, Change, Undisturbed, TypeOK, Ids
  <2> QED
    BY <1>0, <1>15, <2>3 DEF Timeout, Undisturbed, Base, FreshMinute, InCharge
<1>16. ASSUME strays # <<>>, Answered \/ Unanswered
       PROVE  queue' \in Seq(Command) /\ strays' \in Seq(Command)
  <2>1. Tail(strays) \in Seq(Command) /\ queue \in Seq(Command)
    BY <1>0, <1>16, Strays DEF TypeOK
  <2>2. ASSUME NEW i \in RowsOf(Head(strays)),
               strays' = IF queue[i].status = "SENT"
                         THEN Append(Tail(strays), [queue[i] EXCEPT !.status = "GHOST"])
                         ELSE Tail(strays),
               queue' = RemoveAt(queue, i)
        PROVE  queue' \in Seq(Command) /\ strays' \in Seq(Command)
    <3>1. i \in DOMAIN queue
      BY DEF RowsOf
    <3>2. [queue[i] EXCEPT !.status = "GHOST"] \in Command
      BY <1>0, <3>1, StrayType DEF Statuses
    <3> QED
      BY <1>0, <2>1, <2>2, <3>1, <3>2, Removed, MessageAdded
  <2> QED
    BY <1>16, <2>1, <2>2 DEF Answered, Unanswered
<1>17. CASE TakeStray
  <2>1. Head(strays).dev \in Devices
    BY <1>0, <1>17, Strays DEF TakeStray, Command
  <2>2. on' \in [Devices -> BOOLEAN]
    BY <1>0, <1>17, <2>1 DEF TakeStray, Carry, TypeOK
  <2>3. TypeOK'
    BY <1>0, <1>16, <1>17, <2>2 DEF TakeStray, Undisturbed, TypeOK, Ids
  <2> QED
    BY <1>0, <1>17, <2>3 DEF TakeStray, Undisturbed, Base, FreshMinute, InCharge
<1>18. CASE LoseStray
  <2>1. Head(strays).dev \in Devices
    BY <1>0, <1>18, Strays DEF LoseStray, Command
  <2>2. on' \in [Devices -> BOOLEAN]
    BY <1>0, <1>18, <2>1 DEF LoseStray, Carry, TypeOK
  <2>3. Disturb({Head(strays).dev}) /\ {Head(strays).dev} \in SUBSET Devices
    BY <1>18, <2>1 DEF LoseStray
  <2>4. TypeOK'
    BY <1>0, <1>16, <1>18, <2>2, <2>3, DisturbType DEF LoseStray, Change, TypeOK, Ids
  <2> QED
    BY <1>0, <1>18, <2>3, <2>4, DisturbType DEF LoseStray, Base, FreshMinute, InCharge
<1>7. ASSUME NEW i \in DOMAIN queue, RetryDue(i) PROVE Base'
  <2>1. queue' \in Seq(Command)
    BY <1>0, <1>7, StatusType DEF RetryDue, Statuses
  <2>2. Disturb({queue[i].dev}) /\ {queue[i].dev} \in SUBSET Devices
    BY <1>0, <1>7, Queue DEF RetryDue
  <2>3. TypeOK'
    BY <1>0, <1>7, <2>1, <2>2, DisturbType DEF RetryDue, TypeOK, Ids
  <2> QED
    BY <1>0, <1>7, <2>2, <2>3, DisturbType DEF RetryDue, Base, FreshMinute, InCharge
<1>8. ASSUME NEW choice \in SlotChoices, UpdateScheduler(choice) PROVE Base'
  <2>1. /\ slots' = WithIds(choice, nextSlot) /\ nextSlot' = nextSlot + Len(choice)
        /\ nextSlot \in Nat
    BY <1>0, <1>8 DEF UpdateScheduler, TypeOK
  <2>2. /\ Ids' \subseteq Nat /\ IsFiniteSet(Ids') /\ slots' \in [Ids' -> Slot]
        /\ nextSlot' \in Nat
    BY <2>1, WithIdsType DEF Ids
  <2>3. queue' \in Seq(Command) /\ strays' \in Seq(Command) /\ Disturb(Devices)
    BY <1>0, <1>8, CascadeType DEF UpdateScheduler
  <2>4. TypeOK'
    BY <1>0, <1>8, <2>2, <2>3, DisturbType DEF UpdateScheduler, Change, TypeOK
  <2> QED
    BY <1>0, <1>8, <2>3, <2>4, DisturbType DEF UpdateScheduler, Base, FreshMinute, InCharge
<1>9. CASE DeleteScheduler
  <2>1. Ids' = {} /\ slots' \in [{} -> Slot]
    BY <1>9, EmptySeq DEF DeleteScheduler, Ids
  <2>2. Ids' \subseteq Nat /\ IsFiniteSet(Ids') /\ slots' \in [Ids' -> Slot]
    BY <2>1, FS_EmptySet
  <2>3. queue' \in Seq(Command) /\ strays' \in Seq(Command) /\ Disturb(Devices)
    BY <1>0, <1>9, CascadeType DEF DeleteScheduler
  <2>4. TypeOK'
    BY <1>0, <1>9, <2>2, <2>3, DisturbType DEF DeleteScheduler, Change, TypeOK
  <2> QED
    BY <1>0, <1>9, <2>3, <2>4, DisturbType DEF DeleteScheduler, Base, FreshMinute, InCharge
<1>10. ASSUME NEW d \in Devices, NEW new \in {"SCHEDULE", "MANUAL"}, SetMode(d, new)
       PROVE  Base'
  <2> DEFINE D == IF loop = None THEN {d} ELSE Devices
  <2>1. Disturb(D) /\ D \in SUBSET Devices /\ d \in D
    BY <1>10 DEF SetMode
  <2>2. on' \in [Devices -> BOOLEAN] /\ mode' \in [Devices -> {"SCHEDULE", "MANUAL"}]
    BY <1>0, <1>10 DEF SetMode, TypeOK
  <2>3. \A x \in Devices \ D : mode'[x] = mode[x]
    BY <1>0, <1>10 DEF SetMode, TypeOK
  <2> HIDE DEF D
  <2>4. TypeOK'
    BY <1>0, <1>10, <2>1, <2>2, DisturbType DEF SetMode, Change, TypeOK, Ids
  <2> QED
    BY <1>0, <1>10, <2>1, <2>3, <2>4, DisturbType DEF SetMode, Base, FreshMinute, InCharge
<1>11. ASSUME NEW new \in BOOLEAN, SetEnabled(new) PROVE Base'
  <2>1. Disturb(Devices)
    BY <1>11 DEF SetEnabled
  <2>2. TypeOK'
    BY <1>0, <1>11, <2>1, DisturbType DEF SetEnabled, Change, TypeOK, Ids
  <2> QED
    BY <1>0, <1>11, <2>1, <2>2, DisturbType DEF SetEnabled, Base, FreshMinute, InCharge
<1>12. CASE UNCHANGED vars
  BY <1>0, <1>12 DEF vars, Base, TypeOK, FreshMinute, InCharge, Ids
<1> QED
  BY <1>1, <1>2, <1>3, <1>4, <1>5, <1>6, <1>7, <1>8, <1>9, <1>10, <1>11, <1>12, <1>13,
     <1>14, <1>15, <1>17, <1>18 DEF Next

\* The state is of its type, a minute starts with no key, and an undisturbed
\* device is in the hands of its scheduler.
THEOREM WindowsTypes == Spec => []Base
BY BaseInit, BaseNext, PTL DEF Spec

-----------------------------------------------------------------------------
(* A device through the steps of the queue. *)

\* An invariant about steady devices asks nothing of the others.
LEMMA DisturbedDevice ==
  ASSUME NEW d \in Devices, disturbed'[d], ~calm'[d]
  PROVE  DeviceInv(d)'
BY DEF DeviceInv, Steady, Leads

LEMMA SameQuestions ==
  ASSUME UNCHANGED <<now, slots, mode, enabled>>
  PROVE  /\ Within' = Within /\ EndsNow' = EndsNow
         /\ \A due \in BOOLEAN : Entries(due)' = Entries(due)
         /\ ByDevice' = ByDevice
BY DEF Within, EndsNow, Entries, Entry, IsDue, IsEnd, Ids, ByDevice

\* The rows of a device keep their order and where they lead; its messages do;
\* so does all of it.
RowsSame(d) ==
  InOrder(d) => /\ InOrder(d)' /\ Ahead(d)' = Ahead(d)
                /\ \A b \in BOOLEAN : LastRow(d, b) => LastRow(d, b)'

StraysSame(d) ==
  /\ NoEcho(strays, d) => NoEcho(strays, d)'
  /\ InStream(strays, d)' = InStream(strays, d)
  /\ \A b \in BOOLEAN : LastOf(strays, d, b) => LastOf(strays, d, b)'

EndsSame(d) ==
  OldestFirst(d) => OldestFirst(d)' /\ \A b \in BOOLEAN : EndsUp(d, b) => EndsUp(d, b)'

\* What a step of the queue leaves alone, for a device it does not disturb.
Untouched(d) ==
  /\ UNCHANGED <<now, slots, mode, enabled, keys, loop, ran>>
  /\ disturbed'[d] = disturbed[d] /\ calm'[d] = calm[d]

LEMMA BothSame ==
  ASSUME NEW d \in Devices, RowsSame(d), StraysSame(d), on'[d] = on[d]
  PROVE  EndsSame(d)
BY DEF EndsSame, RowsSame, StraysSame, OldestFirst, EndsUp

LEMMA SameStrays ==
  ASSUME NEW d \in Devices, strays' = strays
  PROVE  StraysSame(d)
BY DEF StraysSame, NoEcho, InStream, LastOf

LEMMA UntouchedDevice ==
  ASSUME NEW d \in Devices, DeviceInv(d), Untouched(d), EndsSame(d)
  PROVE  DeviceInv(d)'
<1>1. Steady(d)' = Steady(d) /\ Asked(d)' = Asked(d)
  BY DEF Untouched, Steady, Asked
<1>2. Covered(d)' = Covered(d)
  BY SameQuestions DEF Untouched, Covered, ReadTo, ReadAll, InKeys, Rank
<1>3. Within' = Within /\ EndsNow' = EndsNow
  BY SameQuestions DEF Untouched
<1>4. disturbed'[d] = disturbed[d]
  BY DEF Untouched
<1>5. Steady(d) => OldestFirst(d)
  BY DEF DeviceInv
<1>6. ~disturbed[d] => Steady(d)
  BY DEF Steady
<1>7. Leads(d)'
  BY <1>1, <1>3, <1>4, <1>5, <1>6 DEF DeviceInv, Leads, EndsSame
<1> QED
  BY <1>1, <1>2, <1>5, <1>7 DEF DeviceInv, EndsSame

\* The rows of a device stay where they are.
LEMMA RowsKept ==
  ASSUME NEW d \in Devices, DOMAIN queue' = DOMAIN queue, Len(queue') = Len(queue),
         DOMAIN queue = 1 .. Len(queue), Len(queue) \in Nat,
         \A j \in DOMAIN queue :
           /\ queue'[j].dev = queue[j].dev
           /\ queue[j].dev = d =>
                /\ queue'[j].act = queue[j].act
                /\ queue'[j].status = "TAKEN" <=> queue[j].status = "TAKEN"
  PROVE  /\ Ahead(d)' = Ahead(d)
         /\ \A b \in BOOLEAN : LastRow(d, b) => LastRow(d, b)'
<1>1. Ahead(d)' = Ahead(d)
  BY DEF Ahead
<1>2. ASSUME NEW b \in BOOLEAN, LastRow(d, b) PROVE LastRow(d, b)'
  <2> SUFFICES ASSUME NEW i \in DOMAIN queue, queue'[i].dev = d, queue'[i].status # "TAKEN",
                      \A j \in i + 1 .. Len(queue) : queue'[j].dev # d
               PROVE  (queue'[i].act = "ON") = b
    BY DEF LastRow
  <2>1. queue[i].dev = d /\ queue[i].status # "TAKEN" /\ queue'[i].act = queue[i].act
    OBVIOUS
  <2>2. \A j \in i + 1 .. Len(queue) : j \in DOMAIN queue
    OBVIOUS
  <2>3. \A j \in i + 1 .. Len(queue) : queue[j].dev # d
    BY <2>2
  <2> QED
    BY <1>2, <2>1, <2>3 DEF LastRow
<1> QED
  BY <1>1, <1>2

\* A row leaves the queue: it is another's, or the device's oldest.
LEMMA RowRemoved ==
  ASSUME TypeOK, NEW d \in Devices, NEW i \in DOMAIN queue, queue' = RemoveAt(queue, i),
         queue[i].dev = d => \A j \in 1 .. i - 1 : queue[j].dev # d
  PROVE  /\ InOrder(d) => InOrder(d)'
         /\ Ahead(d) => Ahead(d)' \/ queue[i].dev = d
         /\ Ahead(d)' => Ahead(d)
         /\ \A b \in BOOLEAN : LastRow(d, b) => LastRow(d, b)'
         /\ ~Ahead(d)' /\ InOrder(d) /\ queue[i].dev = d /\ queue[i].status # "TAKEN"
              => \A b \in BOOLEAN : LastRow(d, b) => (queue[i].act = "ON") = b
         /\ queue[i].dev = d /\ queue[i].status = "TAKEN" => Ahead(d)' = Ahead(d)
<1> DEFINE n == Len(queue)
           was(j) == IF j < i THEN j ELSE j + 1
<1>1. n \in Nat /\ DOMAIN queue = 1 .. n /\ i \in 1 .. n
  BY Queue
<1>2. /\ DOMAIN queue' = 1 .. n - 1 /\ Len(queue') = n - 1
      /\ \A j \in 1 .. n - 1 : queue'[j] = queue[was(j)] /\ was(j) \in 1 .. n /\ was(j) # i
  <2>1. queue' \in Seq(Command) /\ DOMAIN queue' = 1 .. n - 1
    BY Removed
  <2>2. Len(queue') = n - 1
    BY Removed
  <2>3. ASSUME NEW j \in 1 .. n - 1
        PROVE  queue'[j] = queue[was(j)] /\ was(j) \in 1 .. n /\ was(j) # i
    <3>1. queue'[j] = IF j < i THEN queue[j] ELSE queue[j + 1]
      BY Removed
    <3> QED
      BY <1>1, <3>1
  <2> QED
    BY <2>1, <2>2, <2>3
<1>3. \A j, k \in 1 .. n - 1 : j < k => was(j) < was(k)
  BY <1>1
<1>4. \A k \in 1 .. n : k # i => \E j \in 1 .. n - 1 : was(j) = k
  <2> SUFFICES ASSUME NEW k \in 1 .. n, k # i PROVE \E j \in 1 .. n - 1 : was(j) = k
    OBVIOUS
  <2>1. CASE k < i
    <3>1. k \in 1 .. n - 1 /\ was(k) = k
      BY <1>1, <2>1
    <3> QED
      BY <3>1
  <2>2. CASE ~(k < i)
    <3>1. k - 1 \in 1 .. n - 1 /\ was(k - 1) = k
      BY <1>1, <2>2
    <3> QED
      BY <3>1
  <2> QED
    BY <2>1, <2>2
<1> HIDE DEF was
<1>5. ASSUME InOrder(d) PROVE InOrder(d)'
  <2>1. ASSUME NEW k \in 1 .. n - 1, queue'[k].dev = d
        PROVE  /\ queue'[k].status \in {"PENDING", "SENT", "TAKEN"}
               /\ \A j \in 1 .. k - 1 : queue'[j].dev = d => queue'[k].status = "PENDING"
    <3>1. queue'[k] = queue[was(k)] /\ was(k) \in 1 .. n
      BY <1>2
    <3>2. queue[was(k)].status \in {"PENDING", "SENT", "TAKEN"}
      BY <1>1, <1>5, <2>1, <3>1 DEF InOrder
    <3>3. ASSUME NEW j \in 1 .. k - 1, queue'[j].dev = d
          PROVE  queue[was(k)].status = "PENDING"
      <4>1. j \in 1 .. n - 1 /\ j < k
        BY <1>1
      <4>2. queue'[j] = queue[was(j)] /\ was(j) \in 1 .. n /\ was(j) < was(k)
        BY <4>1, <1>2, <1>3
      <4>3. was(j) \in 1 .. was(k) - 1 /\ queue[was(j)].dev = d /\ queue[was(k)].dev = d
        BY <1>1, <4>2, <3>1, <2>1, <3>3
      <4> QED
        BY <1>1, <1>5, <3>1, <4>3 DEF InOrder
    <3> QED
      BY <3>1, <3>2, <3>3
  <2> QED
    BY <1>2, <2>1 DEF InOrder
<1>6. ASSUME NEW k \in 1 .. n, k # i, queue[k].dev = d, queue[k].status # "TAKEN"
      PROVE  Ahead(d)'
  <2>1. PICK j \in 1 .. n - 1 : was(j) = k
    BY <1>4, <1>6
  <2> QED
    BY <1>2, <1>6, <2>1 DEF Ahead
<1>7. Ahead(d) => Ahead(d)' \/ (queue[i].dev = d /\ queue[i].status # "TAKEN")
  BY <1>1, <1>6 DEF Ahead
<1>8. Ahead(d)' => Ahead(d)
  <2> SUFFICES ASSUME NEW k \in 1 .. n - 1, queue'[k].dev = d, queue'[k].status # "TAKEN"
               PROVE  Ahead(d)
    BY <1>2 DEF Ahead
  <2>1. was(k) \in 1 .. n /\ queue'[k] = queue[was(k)]
    BY <1>2
  <2> QED
    BY <1>1, <2>1 DEF Ahead
<1>9. ASSUME NEW b \in BOOLEAN, LastRow(d, b) PROVE LastRow(d, b)'
  <2> SUFFICES ASSUME NEW k \in 1 .. n - 1, queue'[k].dev = d, queue'[k].status # "TAKEN",
                      \A j \in k + 1 .. n - 1 : queue'[j].dev # d
               PROVE  (queue'[k].act = "ON") = b
    BY <1>2 DEF LastRow
  <2>1. queue'[k] = queue[was(k)] /\ was(k) \in 1 .. n /\ was(k) # i /\ queue[was(k)].dev = d
    BY <1>2
  <2>2. ASSUME NEW m \in was(k) + 1 .. n, queue[m].dev = d PROVE FALSE
    <3>1. CASE m = i
      <4>1. was(k) \in 1 .. i - 1
        BY <1>1, <2>1, <3>1
      <4> QED
        BY <2>1, <2>2, <3>1, <4>1
    <3>2. CASE m # i
      <4>1. m \in 1 .. n
        BY <1>1, <2>1
      <4>2. PICK j \in 1 .. n - 1 : was(j) = m
        BY <4>1, <3>2, <1>4
      <4>3. j > k
        <5>1. j # k /\ ~(was(j) < was(k))
          BY <1>1, <2>1, <4>2
        <5> QED
          BY <1>1, <1>3, <5>1
      <4>4. j \in k + 1 .. n - 1 /\ queue'[j].dev = d
        BY <1>1, <1>2, <2>2, <4>2, <4>3
      <4> QED
        BY <4>4
    <3> QED
      BY <3>1, <3>2
  <2>3. \A m \in was(k) + 1 .. Len(queue) : queue[m].dev # d
    BY <2>2
  <2> QED
    BY <1>1, <1>9, <2>1, <2>3 DEF LastRow
<1>10. ASSUME ~Ahead(d)', InOrder(d), queue[i].dev = d, queue[i].status # "TAKEN",
              NEW b \in BOOLEAN, LastRow(d, b)
       PROVE  (queue[i].act = "ON") = b
  <2>1. ASSUME NEW m \in i + 1 .. n, queue[m].dev = d PROVE FALSE
    <3>1. m \in 1 .. n /\ m # i /\ i \in 1 .. m - 1
      BY <1>1
    <3>2. queue[m].status = "PENDING"
      BY <1>1, <1>10, <2>1, <3>1 DEF InOrder
    <3> QED
      BY <1>6, <1>10, <2>1, <3>1, <3>2
  <2>2. \A m \in i + 1 .. Len(queue) : queue[m].dev # d
    BY <2>1
  <2> QED
    BY <1>1, <1>10, <2>2 DEF LastRow
<1>11. Ahead(d) \in BOOLEAN /\ Ahead(d)' \in BOOLEAN
  BY Zenon DEF Ahead
<1> QED
  BY <1>5, <1>7, <1>8, <1>9, <1>10, <1>11

\* A row of another device changes or leaves the queue.
LEMMA OtherRow ==
  ASSUME TypeOK, NEW i \in DOMAIN queue, NEW d \in Devices, queue[i].dev # d,
         \/ queue' = RemoveAt(queue, i)
         \/ \E row : queue' = [queue EXCEPT ![i] = row] /\ row.dev = queue[i].dev
  PROVE  RowsSame(d)
<1>1. Len(queue) \in Nat /\ DOMAIN queue = 1 .. Len(queue) /\ queue \in Seq(Command)
  BY Queue DEF TypeOK
<1>2. CASE queue' = RemoveAt(queue, i)
  <2>1. Ahead(d) \in BOOLEAN /\ Ahead(d)' \in BOOLEAN
    BY Zenon DEF Ahead
  <2> QED
    BY <1>2, <2>1, RowRemoved DEF RowsSame
<1>3. ASSUME NEW row, queue' = [queue EXCEPT ![i] = row], row.dev = queue[i].dev
      PROVE  RowsSame(d)
  <2>1. DOMAIN queue' = DOMAIN queue /\ Len(queue') = Len(queue)
    BY <1>1, <1>3
  <2>2. \A j \in DOMAIN queue :
          queue'[j].dev = queue[j].dev /\ (queue[j].dev = d => queue'[j] = queue[j])
    BY <1>1, <1>3
  <2>3. InOrder(d) => InOrder(d)'
    <3> SUFFICES ASSUME InOrder(d), NEW k \in DOMAIN queue, queue'[k].dev = d
                 PROVE  /\ queue'[k].status \in {"PENDING", "SENT", "TAKEN"}
                        /\ \A j \in 1 .. k - 1 : queue'[j].dev = d => queue'[k].status = "PENDING"
      BY <2>1 DEF InOrder
    <3>1. queue'[k] = queue[k] /\ \A j \in 1 .. k - 1 : j \in DOMAIN queue
      BY <1>1, <2>2
    <3> QED
      BY <2>2, <3>1 DEF InOrder
  <2> QED
    BY <1>1, <2>1, <2>2, <2>3, RowsKept DEF RowsSame
<1> QED
  BY <1>2, <1>3

\* What one status becomes.
LEMMA StatusChanged ==
  ASSUME TypeOK, NEW i \in DOMAIN queue, NEW st \in Statuses,
         queue' = [queue EXCEPT ![i].status = st]
  PROVE  /\ Len(queue) \in Nat /\ Len(queue') = Len(queue)
         /\ DOMAIN queue = 1 .. Len(queue) /\ DOMAIN queue' = 1 .. Len(queue)
         /\ \A j \in 1 .. Len(queue) :
              /\ queue'[j].dev = queue[j].dev /\ queue'[j].act = queue[j].act
              /\ queue'[j].status = IF j = i THEN st ELSE queue[j].status
<1>1. /\ Len(queue) \in Nat /\ DOMAIN queue = 1 .. Len(queue) /\ queue \in Seq(Command)
      /\ queue[i] \in Command /\ i \in 1 .. Len(queue)
  BY Queue DEF TypeOK
<1> DEFINE row == [queue[i] EXCEPT !.status = st]
<1>2. row \in Command /\ row.dev = queue[i].dev /\ row.act = queue[i].act /\ row.status = st
  BY StrayType
<1>3. /\ queue' \in Seq(Command) /\ Len(queue') = Len(queue)
      /\ \A j \in 1 .. Len(queue) : queue'[j] = IF j = i THEN row ELSE queue[j]
  <2>1. queue' = [queue EXCEPT ![i] = row]
    OBVIOUS
  <2> HIDE DEF row
  <2> QED
    BY <1>1, <1>2, <2>1, ExceptSeq
<1>4. DOMAIN queue' = 1 .. Len(queue)
  BY <1>3, LenProperties
<1> QED
  BY <1>1, <1>2, <1>3, <1>4

LEMMA PublishDevice ==
  ASSUME TypeOK, NEW i \in DOMAIN queue, Publish(i), NEW d \in Devices, DeviceInv(d)
  PROVE  DeviceInv(d)'
<1> DEFINE n == Len(queue)
<1>1. /\ n \in Nat /\ Len(queue') = n /\ DOMAIN queue = 1 .. n /\ DOMAIN queue' = 1 .. n
      /\ \A j \in 1 .. n :
           /\ queue'[j].dev = queue[j].dev /\ queue'[j].act = queue[j].act
           /\ queue'[j].status = IF j = i THEN "SENT" ELSE queue[j].status
  BY StatusChanged DEF Publish, Statuses
<1>2. /\ queue[i].status = "PENDING" /\ i \in 1 .. n
      /\ \A j \in 1 .. i - 1 : queue[j].status # "PENDING"
      /\ \A j \in 1 .. n : queue[j].status \notin {"SENT", "TAKEN"}
  BY <1>1 DEF Publish, Claims, InFlight
<1> HIDE DEF n
<1>3. InOrder(d) => InOrder(d)'
  <2> SUFFICES ASSUME InOrder(d), NEW k \in 1 .. n, queue'[k].dev = d
               PROVE  /\ queue'[k].status \in {"PENDING", "SENT", "TAKEN"}
                      /\ \A j \in 1 .. k - 1 : queue'[j].dev = d => queue'[k].status = "PENDING"
    BY <1>1 DEF InOrder
  <2>1. queue[k].dev = d /\ queue[k].status \in {"PENDING", "SENT", "TAKEN"}
    BY <1>1 DEF InOrder
  <2>2. ASSUME NEW j \in 1 .. k - 1, queue'[j].dev = d PROVE queue'[k].status = "PENDING"
    <3>1. j \in 1 .. n
      BY <1>1
    <3>2. queue[j].dev = d
      BY <1>1, <2>2, <3>1
    <3>3. queue[j].status = "PENDING"
      BY <1>1, <1>2, <3>1, <3>2 DEF InOrder
    <3>4. k # i
      BY <3>3, <1>2
    <3>5. queue[k].status = "PENDING"
      BY <1>1, <2>1, <3>2 DEF InOrder
    <3> QED
      BY <3>4, <3>5, <1>1
  <2> QED
    BY <2>1, <2>2, <1>1
<1>4. \A j \in 1 .. n : queue'[j].status = "TAKEN" <=> queue[j].status = "TAKEN"
  BY <1>1, <1>2
<1>5. RowsSame(d)
  BY <1>1, <1>3, <1>4, RowsKept DEF RowsSame, n
<1>6. EndsSame(d) /\ Untouched(d)
  BY <1>5, SameStrays, BothSame DEF Publish, Undisturbed, Untouched
<1> QED
  BY <1>6, UntouchedDevice

\* The agent takes the message of the row in flight: no other comes before it.
LEMMA TakeDevice ==
  ASSUME TypeOK, NEW i \in DOMAIN queue, Take(i), NEW d \in Devices, DeviceInv(d)
  PROVE  DeviceInv(d)'
<1> DEFINE n == Len(queue)
<1>1. /\ n \in Nat /\ Len(queue') = n /\ DOMAIN queue = 1 .. n /\ DOMAIN queue' = 1 .. n
      /\ \A j \in 1 .. n :
           /\ queue'[j].dev = queue[j].dev /\ queue'[j].act = queue[j].act
           /\ queue'[j].status = IF j = i THEN "TAKEN" ELSE queue[j].status
  BY StatusChanged DEF Take, Statuses
<1>2. /\ queue[i].status = "SENT" /\ i \in 1 .. n /\ strays = <<>> /\ strays' = strays
      /\ Untouched(d) /\ on' = [on EXCEPT ![queue[i].dev] = (queue[i].act = "ON")]
  BY <1>1 DEF Take, Carry, Undisturbed, Untouched
<1>3. queue[i].dev = d => on'[d] = (queue[i].act = "ON")
  BY <1>2 DEF TypeOK
<1>4. queue[i].dev # d => on'[d] = on[d]
  BY <1>2 DEF TypeOK
<1>5. EndsSame(d)
  <2>1. CASE queue[i].dev # d
    <3>1. \E row : queue' = [queue EXCEPT ![i] = row] /\ row.dev = queue[i].dev
      <4> DEFINE row == [queue[i] EXCEPT !.status = "TAKEN"]
      <4>1. queue' = [queue EXCEPT ![i] = row] /\ row.dev = queue[i].dev
        BY StrayType DEF Take, Statuses
      <4> QED
        BY <4>1
    <3>2. RowsSame(d)
      BY <2>1, <3>1, OtherRow
    <3> QED
      BY <1>2, <1>4, <2>1, <3>2, SameStrays, BothSame
  <2>2. CASE queue[i].dev = d
    <3> SUFFICES ASSUME OldestFirst(d)
                 PROVE  OldestFirst(d)' /\ \A b \in BOOLEAN : EndsUp(d, b) => EndsUp(d, b)'
      BY DEF EndsSame
    <3> HIDE DEF n
    <3>1. \A j \in 1 .. n : j # i /\ queue[j].dev = d => queue[j].status = "PENDING"
      <4> SUFFICES ASSUME NEW j \in 1 .. n, j # i, queue[j].dev = d
                   PROVE  queue[j].status = "PENDING"
        OBVIOUS
      <4>1. j \in 1 .. i - 1 \/ i \in 1 .. j - 1
        BY <1>1, <1>2
      <4> QED
        BY <1>1, <1>2, <2>2, <4>1 DEF OldestFirst, InOrder
    <3>2. InOrder(d)'
      <4> SUFFICES ASSUME NEW k \in 1 .. n, queue'[k].dev = d
                   PROVE  /\ queue'[k].status \in {"PENDING", "SENT", "TAKEN"}
                          /\ \A j \in 1 .. k - 1 :
                               queue'[j].dev = d => queue'[k].status = "PENDING"
        BY <1>1 DEF InOrder
      <4>1. CASE k # i
        BY <1>1, <3>1, <4>1
      <4>2. CASE k = i
        <5>1. ASSUME NEW j \in 1 .. k - 1, queue'[j].dev = d PROVE FALSE
          <6>1. j \in 1 .. n /\ queue[j].dev = d
            BY <1>1, <5>1
          <6> QED
            BY <1>1, <1>2, <2>2, <4>2, <6>1 DEF OldestFirst, InOrder
        <5> QED
          BY <1>1, <1>2, <4>2, <5>1
      <4> QED
        BY <4>1, <4>2
    <3>3. NoEcho(strays, d)'
      BY <1>2 DEF OldestFirst, NoEcho
    <3>4. ASSUME NEW b \in BOOLEAN, EndsUp(d, b) PROVE EndsUp(d, b)'
      <4>1. LastRow(d, b)'
        <5> SUFFICES ASSUME NEW k \in 1 .. n, queue'[k].dev = d, queue'[k].status # "TAKEN",
                            \A j \in k + 1 .. n : queue'[j].dev # d
                     PROVE  (queue'[k].act = "ON") = b
          BY <1>1 DEF LastRow, n
        <5>1. k # i /\ queue[k].dev = d /\ queue[k].status # "TAKEN"
          BY <1>1
        <5>2. \A j \in k + 1 .. n : j \in 1 .. n
          BY <1>1
        <5>3. \A j \in k + 1 .. n : queue[j].dev # d
          BY <1>1, <5>2
        <5> QED
          BY <1>1, <3>4, <5>1, <5>3 DEF EndsUp, LastRow, n
      <4>2. ASSUME ~Ahead(d)' PROVE on'[d] = b
        <5>1. ASSUME NEW j \in i + 1 .. n, queue[j].dev = d PROVE FALSE
          <6>1. j \in 1 .. n /\ j # i
            BY <1>1, <1>2
          <6>2. queue'[j].dev = d /\ queue'[j].status = "PENDING"
            BY <1>1, <3>1, <5>1, <6>1
          <6> QED
            BY <1>1, <4>2, <6>1, <6>2 DEF Ahead
        <5>2. (queue[i].act = "ON") = b
          BY <1>1, <1>2, <2>2, <3>4, <5>1 DEF EndsUp, LastRow, n
        <5> QED
          BY <1>3, <2>2, <5>2
      <4>3. LastOf(strays, d, b)'
        <5>1. DOMAIN strays' = {}
          BY <1>2
        <5> QED
          BY <5>1 DEF LastOf
      <4> QED
        BY <4>1, <4>2, <4>3 DEF EndsUp
    <3> QED
      BY <3>2, <3>3, <3>4 DEF OldestFirst
  <2> QED
    BY <2>1, <2>2
<1> QED
  BY <1>2, <1>5, UntouchedDevice

\* A row in flight is its device's oldest.
LEMMA FlightFirst ==
  ASSUME TypeOK, NEW d \in Devices, NEW i \in DOMAIN queue, InFlight(queue[i]),
         queue[i].dev = d, InOrder(d)
  PROVE  \A j \in 1 .. i - 1 : queue[j].dev # d
BY Queue DEF InOrder, InFlight

LEMMA SettleDevice ==
  ASSUME TypeOK, NEW i \in DOMAIN queue, Settle(i), NEW d \in Devices, DeviceInv(d)
  PROVE  DeviceInv(d)'
<1>1. /\ queue[i].status = "TAKEN" /\ queue' = RemoveAt(queue, i) /\ InFlight(queue[i])
      /\ strays' = strays /\ on' = on /\ Untouched(d)
  BY DEF Settle, Undisturbed, Untouched, InFlight
<1>2. RowsSame(d)
  <2>1. CASE queue[i].dev # d
    BY <1>1, <2>1, OtherRow
  <2>2. CASE queue[i].dev = d
    <3> SUFFICES ASSUME InOrder(d)
                 PROVE  /\ InOrder(d)' /\ Ahead(d)' = Ahead(d)
                        /\ \A b \in BOOLEAN : LastRow(d, b) => LastRow(d, b)'
      BY DEF RowsSame
    <3>1. \A j \in 1 .. i - 1 : queue[j].dev # d
      BY <1>1, <2>2, FlightFirst
    <3> QED
      BY <1>1, <2>2, <3>1, RowRemoved
  <2> QED
    BY <2>1, <2>2
<1>3. EndsSame(d)
  BY <1>1, <1>2, SameStrays, BothSame
<1> QED
  BY <1>1, <1>3, UntouchedDevice

\* The stream after another's message has joined it.
LEMMA OtherMessage ==
  ASSUME TypeOK, NEW c \in Command, NEW d \in Devices, c.dev # d, strays' = Append(strays, c)
  PROVE  StraysSame(d)
<1>1. strays \in Seq(Command)
  BY DEF TypeOK
<1>2. /\ InStream(Append(strays, c), d) = InStream(strays, d)
      /\ NoEcho(strays, d) => NoEcho(Append(strays, c), d)
      /\ \A b \in BOOLEAN : LastOf(strays, d, b) => LastOf(Append(strays, c), d, b)
  BY <1>1, MessageAdded
<1>3. /\ InStream(strays, d)' = InStream(Append(strays, c), d)
      /\ NoEcho(strays, d)' = NoEcho(Append(strays, c), d)
      /\ \A b \in BOOLEAN : LastOf(strays, d, b)' = LastOf(Append(strays, c), d, b)
  BY DEF InStream, NoEcho, LastOf
<1> QED
  BY <1>2, <1>3 DEF StraysSame

\* A row is given up; its message follows it in the stream and leads where it
\* led.
LEMMA TimeoutDevice ==
  ASSUME TypeOK, NEW i \in DOMAIN queue, Timeout(i), NEW d \in Devices, DeviceInv(d)
  PROVE  DeviceInv(d)'
<1> DEFINE c == [queue[i] EXCEPT !.status = "GHOST"]
<1>1. /\ queue[i].status = "SENT" /\ queue' = RemoveAt(queue, i) /\ InFlight(queue[i])
      /\ strays' = Append(strays, c) /\ on' = on /\ Untouched(d)
  BY DEF Timeout, Strand, Undisturbed, Untouched, InFlight
<1>2. c \in Command /\ c.dev = queue[i].dev /\ c.act = queue[i].act /\ c.status = "GHOST"
  BY StrayType DEF Statuses
<1> HIDE DEF c
<1>3. EndsSame(d)
  <2>1. CASE queue[i].dev # d
    BY <1>1, <1>2, <2>1, OtherRow, OtherMessage, BothSame
  <2>2. CASE queue[i].dev = d
    <3> SUFFICES ASSUME OldestFirst(d)
                 PROVE  OldestFirst(d)' /\ \A b \in BOOLEAN : EndsUp(d, b) => EndsUp(d, b)'
      BY DEF EndsSame
    <3>1. InOrder(d) /\ NoEcho(strays, d)
      BY DEF OldestFirst
    <3>2. \A j \in 1 .. i - 1 : queue[j].dev # d
      BY <1>1, <2>2, <3>1, FlightFirst
    <3>3. /\ InOrder(d)'
          /\ \A b \in BOOLEAN : LastRow(d, b) => LastRow(d, b)'
          /\ ~Ahead(d)' => \A b \in BOOLEAN : LastRow(d, b) => (queue[i].act = "ON") = b
      BY <1>1, <2>2, <3>1, <3>2, RowRemoved
    <3>4. /\ InStream(Append(strays, c), d) /\ NoEcho(Append(strays, c), d)
          /\ LastOf(Append(strays, c), d, c.act = "ON")
      <4>1. strays \in Seq(Command)
        BY DEF TypeOK
      <4> QED
        BY <1>2, <2>2, <3>1, <4>1, MessageAdded
    <3>5. InStream(strays, d)' /\ NoEcho(strays, d)'
      BY <1>1, <3>4 DEF InStream, NoEcho
    <3>6. ASSUME NEW b \in BOOLEAN, LastRow(d, b), ~Ahead(d)' PROVE LastOf(strays, d, b)'
      <4>1. (c.act = "ON") = b
        BY <1>2, <3>3, <3>6
      <4> QED
        BY <1>1, <3>4, <4>1 DEF LastOf
    <3> QED
      BY <3>3, <3>5, <3>6 DEF OldestFirst, EndsUp
  <2> QED
    BY <2>1, <2>2
<1> QED
  BY <1>1, <1>3, UntouchedDevice

\* The answer to another's stray.
LEMMA OtherAnswer ==
  ASSUME TypeOK, NEW d \in Devices, strays # <<>>, Head(strays).dev # d, Answered \/ Unanswered
  PROVE  RowsSame(d) /\ StraysSame(d)
<1> DEFINE t == Tail(strays)
<1>1. strays \in Seq(Command) /\ t \in Seq(Command)
  BY Strays DEF TypeOK
<1>2. /\ NoEcho(strays, d) => NoEcho(t, d)
      /\ InStream(t, d) = InStream(strays, d)
      /\ \A b \in BOOLEAN : LastOf(strays, d, b) => LastOf(t, d, b)
  BY <1>1, FirstGone
<1>3. CASE Unanswered
  <2>1. queue' = queue /\ strays' = t
    BY <1>3 DEF Unanswered
  <2>2. RowsSame(d)
    BY <2>1 DEF RowsSame, InOrder, Ahead, LastRow
  <2>3. /\ InStream(strays, d)' = InStream(t, d) /\ NoEcho(strays, d)' = NoEcho(t, d)
        /\ \A b \in BOOLEAN : LastOf(strays, d, b)' = LastOf(t, d, b)
    BY <2>1 DEF InStream, NoEcho, LastOf
  <2> QED
    BY <1>2, <2>2, <2>3 DEF StraysSame
<1>4. ASSUME NEW i \in RowsOf(Head(strays)), queue' = RemoveAt(queue, i),
             strays' = IF queue[i].status = "SENT"
                       THEN Append(t, [queue[i] EXCEPT !.status = "GHOST"]) ELSE t
      PROVE  RowsSame(d) /\ StraysSame(d)
  <2> DEFINE c == [queue[i] EXCEPT !.status = "GHOST"]
  <2>1. i \in DOMAIN queue /\ queue[i].dev # d
    BY DEF RowsOf
  <2>2. RowsSame(d)
    BY <1>4, <2>1, OtherRow
  <2>3. c \in Command /\ c.dev # d
    BY <2>1, StrayType DEF Statuses
  <2>4. strays' = Append(t, c) \/ strays' = t
    BY <1>4
  <2> HIDE DEF c, t
  <2>5. /\ InStream(Append(t, c), d) = InStream(t, d)
        /\ NoEcho(t, d) => NoEcho(Append(t, c), d)
        /\ \A b \in BOOLEAN : LastOf(t, d, b) => LastOf(Append(t, c), d, b)
    BY <1>1, <2>3, MessageAdded
  <2>7. CASE strays' = Append(t, c)
    <3>1. /\ InStream(strays, d)' = InStream(Append(t, c), d)
          /\ NoEcho(strays, d)' = NoEcho(Append(t, c), d)
          /\ \A b \in BOOLEAN : LastOf(strays, d, b)' = LastOf(Append(t, c), d, b)
      BY <2>7 DEF InStream, NoEcho, LastOf
    <3>2. StraysSame(d)
      BY <1>2, <2>5, <3>1 DEF StraysSame
    <3> QED
      BY <2>2, <3>2
  <2>8. CASE strays' = t
    <3>1. /\ InStream(strays, d)' = InStream(t, d)
          /\ NoEcho(strays, d)' = NoEcho(t, d)
          /\ \A b \in BOOLEAN : LastOf(strays, d, b)' = LastOf(t, d, b)
      BY <2>8 DEF InStream, NoEcho, LastOf
    <3>2. StraysSame(d)
      BY <1>2, <3>1 DEF StraysSame
    <3> QED
      BY <2>2, <3>2
  <2> QED
    BY <2>4, <2>7, <2>8
<1> QED
  BY <1>3, <1>4 DEF Answered

LEMMA TakeStrayDevice ==
  ASSUME TypeOK, TakeStray, NEW d \in Devices, DeviceInv(d)
  PROVE  DeviceInv(d)'
<1> DEFINE c == Head(strays)
           t == Tail(strays)
<1>1. /\ strays # <<>> /\ Answered /\ Untouched(d)
      /\ on' = [on EXCEPT ![c.dev] = (c.act = "ON")]
  BY DEF TakeStray, Carry, Undisturbed, Untouched
<1>2. strays \in Seq(Command) /\ c = strays[1] /\ 1 \in DOMAIN strays
  BY <1>1, Strays DEF TypeOK
<1>3. CASE c.dev # d
  <2>1. on'[d] = on[d]
    BY <1>1, <1>3 DEF TypeOK
  <2> QED
    BY <1>1, <1>3, <2>1, OtherAnswer, BothSame, UntouchedDevice
<1>4. CASE c.dev = d
  <2>1. on'[d] = (c.act = "ON")
    BY <1>1, <1>4 DEF TypeOK
  <2>2. EndsSame(d)
    <3> SUFFICES ASSUME OldestFirst(d)
                 PROVE  OldestFirst(d)' /\ \A b \in BOOLEAN : EndsUp(d, b) => EndsUp(d, b)'
      BY DEF EndsSame
    <3>1. c.status = "GHOST"
      BY <1>2, <1>4 DEF OldestFirst, NoEcho
    <3>2. queue' = queue /\ strays' = t
      BY <1>1, <3>1, ZenonT(30) DEF Answered, RowsOf, Unanswered
    <3> HIDE DEF c, t
    <3>3. /\ NoEcho(strays, d) => NoEcho(t, d)
          /\ \A b \in BOOLEAN : LastOf(strays, d, b) => LastOf(t, d, b)
          /\ ~InStream(t, d) => \A b \in BOOLEAN : LastOf(strays, d, b) => (c.act = "ON") = b
      <4>1. strays \in Seq(Command) /\ strays # <<>> /\ Head(strays).dev = d
        BY <1>1, <1>2, <1>4 DEF c
      <4>2. /\ NoEcho(strays, d) => NoEcho(Tail(strays), d)
            /\ \A b \in BOOLEAN : LastOf(strays, d, b) => LastOf(Tail(strays), d, b)
            /\ ~InStream(Tail(strays), d)
                 => \A b \in BOOLEAN : LastOf(strays, d, b) => (Head(strays).act = "ON") = b
        BY <4>1, FirstGone
      <4> QED
        BY <4>2 DEF c, t
    <3>4. InStream(strays, d)
      BY <1>2, <1>4 DEF InStream
    <3>5. /\ InStream(strays, d)' = InStream(t, d) /\ NoEcho(strays, d)' = NoEcho(t, d)
          /\ \A b \in BOOLEAN : LastOf(strays, d, b)' = LastOf(t, d, b)
      BY <3>2 DEF InStream, NoEcho, LastOf
    <3>6. /\ InOrder(d)' = InOrder(d) /\ Ahead(d)' = Ahead(d)
          /\ \A b \in BOOLEAN : LastRow(d, b)' = LastRow(d, b)
      BY <3>2 DEF InOrder, Ahead, LastRow
    <3> QED
      BY <2>1, <3>3, <3>5, <3>6 DEF OldestFirst, EndsUp
  <2> QED
    BY <1>1, <2>2, UntouchedDevice
<1> QED
  BY <1>3, <1>4

\* What goes wrong with a row or a message of another device.
LEMMA OtherDisturbed ==
  ASSUME TypeOK, NEW x \in Devices, Disturb({x}), NEW d \in Devices, DeviceInv(d),
         UNCHANGED <<now, slots, mode, enabled, keys, loop, ran>>,
         x # d => RowsSame(d) /\ StraysSame(d) /\ on'[d] = on[d]
  PROVE  DeviceInv(d)'
<1>1. {x} \in SUBSET Devices
  OBVIOUS
<1>2. CASE x = d
  <2>1. disturbed'[d] /\ ~calm'[d]
    BY <1>1, <1>2, DisturbType
  <2> QED
    BY <2>1, DisturbedDevice
<1>3. CASE x # d
  <2>1. Untouched(d)
    BY <1>1, <1>3, DisturbType DEF Untouched
  <2> QED
    BY <1>3, <2>1, BothSame, UntouchedDevice
<1> QED
  BY <1>2, <1>3

LEMMA PublishFailsDevice ==
  ASSUME TypeOK, NEW i \in DOMAIN queue, PublishFails(i), NEW d \in Devices, DeviceInv(d)
  PROVE  DeviceInv(d)'
<1>1. queue[i].dev \in Devices /\ queue[i] \in Command
  BY Queue
<1>2. ASSUME queue[i].dev # d PROVE RowsSame(d) /\ StraysSame(d) /\ on'[d] = on[d]
  <2> DEFINE row == [queue[i] EXCEPT !.status = "BACKOFF", !.attempt = @ + 1]
             c == [queue[i] EXCEPT !.status = "ECHO"]
  <2>1. row.dev = queue[i].dev
    BY <1>1 DEF Command
  <2>2. queue' = [queue EXCEPT ![i] = row] \/ queue' = RemoveAt(queue, i)
    BY DEF PublishFails
  <2>3. c \in Command /\ c.dev = queue[i].dev
    BY StrayType DEF Statuses
  <2>4. strays' = Append(strays, c) \/ strays' = strays
    BY DEF PublishFails, Strand
  <2>5. on' = on
    BY DEF PublishFails
  <2> HIDE DEF row, c
  <2>6. RowsSame(d)
    BY <1>2, <2>1, <2>2, OtherRow
  <2>7. StraysSame(d)
    BY <1>2, <2>3, <2>4, OtherMessage, SameStrays
  <2> QED
    BY <2>5, <2>6, <2>7
<1>3. Disturb({queue[i].dev}) /\ UNCHANGED <<now, slots, mode, enabled, keys, loop, ran>>
  BY DEF PublishFails
<1> QED
  BY <1>1, <1>2, <1>3, OtherDisturbed

\* A status changes and nothing else but the flags of the device.
LEMMA StatusDisturbs ==
  ASSUME TypeOK, NEW i \in DOMAIN queue, NEW st \in Statuses,
         queue' = [queue EXCEPT ![i].status = st], Disturb({queue[i].dev}),
         UNCHANGED <<now, slots, mode, enabled, strays, keys, loop, ran, on>>,
         NEW d \in Devices, DeviceInv(d)
  PROVE  DeviceInv(d)'
<1>1. queue[i].dev \in Devices
  BY Queue
<1>2. ASSUME queue[i].dev # d PROVE RowsSame(d) /\ StraysSame(d) /\ on'[d] = on[d]
  <2> DEFINE row == [queue[i] EXCEPT !.status = st]
  <2>1. row.dev = queue[i].dev
    BY StrayType
  <2>2. queue' = [queue EXCEPT ![i] = row]
    OBVIOUS
  <2> HIDE DEF row
  <2> QED
    BY <1>2, <2>1, <2>2, OtherRow, SameStrays
<1> QED
  BY <1>1, <1>2, OtherDisturbed

LEMMA LoseStrayDevice ==
  ASSUME TypeOK, LoseStray, NEW d \in Devices, DeviceInv(d)
  PROVE  DeviceInv(d)'
<1>1. /\ strays # <<>> /\ Disturb({Head(strays).dev}) /\ (Answered \/ Unanswered)
      /\ UNCHANGED <<now, slots, mode, enabled, keys, loop, ran>>
      /\ on' = [on EXCEPT ![Head(strays).dev] = (Head(strays).act = "ON")] \/ on' = on
  BY DEF LoseStray, Carry
<1>2. Head(strays).dev \in Devices
  BY <1>1, Strays DEF Command
<1>3. Head(strays).dev # d => on'[d] = on[d]
  BY <1>1 DEF TypeOK
<1>4. Head(strays).dev # d => RowsSame(d) /\ StraysSame(d)
  BY <1>1, OtherAnswer
<1> QED
  BY <1>1, <1>2, <1>3, <1>4, OtherDisturbed

-----------------------------------------------------------------------------
(* A device through a minute: the run and the tick. *)

LEMMA RanksFromZero ==
  ASSUME TypeOK
  PROVE  \A due \in BOOLEAN : \A e \in Entries(due) : ~(Rank(e, Entries(due), ByDevice) < 0)
<1> SUFFICES ASSUME NEW due \in BOOLEAN, NEW e \in Entries(due)
             PROVE  ~(Rank(e, Entries(due), ByDevice) < 0)
  OBVIOUS
<1>1. Entries(due) \in SUBSET Entry
  BY DEF Entries
<1>2. IsFiniteSet(Entries(due)) /\ Orders(ByDevice, Entries(due))
  BY <1>1, EntriesOrdered
<1> QED
  BY <1>2, RankType, FS_CardinalityType

LEMMA StartRunDevice ==
  ASSUME Base, NEW phases \in {<<"due", "end">>, <<"end", "due">>}, StartRun(phases),
         NEW d \in Devices, DeviceInv(d)
  PROVE  DeviceInv(d)'
<1>1. /\ keys = {} /\ ~ran /\ TypeOK
      /\ loop' = [phases |-> phases, offset |-> 0] /\ calm'[d] = ~Open(d)
      /\ UNCHANGED <<now, slots, mode, enabled, queue, strays, keys, ran, on, disturbed>>
  BY DEF StartRun, Base, FreshMinute
<1>2. Steady(d)' => ~disturbed[d] \/ ~Open(d)
  BY <1>1 DEF Steady
<1>3. Steady(d)' => OldestFirst(d)'
  <2>1. OldestFirst(d)' = OldestFirst(d)
    BY <1>1 DEF OldestFirst, InOrder, NoEcho
  <2>2. ~Open(d) => OldestFirst(d)
    BY DEF Open, OldestFirst, InOrder, NoEcho
  <2> QED
    BY <1>2, <2>1, <2>2 DEF DeviceInv, Steady
<1>4. Covered(d)'
  <2>1. \A due \in BOOLEAN : \A e \in Entries(due) : ~(Rank(e, Entries(due), ByDevice) < 0)
    BY <1>1, RanksFromZero
  <2>2. loop'.offset = 0 /\ loop'.phases = phases /\ Len(phases) # 1
    BY <1>1
  <2>3. (\A due \in BOOLEAN : Entries(due)' = Entries(due)) /\ ByDevice' = ByDevice
    BY <1>1, SameQuestions
  <2>4. \A due \in BOOLEAN : ReadTo(d, due, 0)'
    BY <2>1, <2>3 DEF ReadTo, Rank
  <2>5. ReadTo(d, Head(loop.phases) = "due", loop.offset)'
    BY <2>2, <2>4 DEF ReadTo
  <2> QED
    BY <1>1, <2>2, <2>5 DEF Covered
<1>5. ~Asked(d)'
  BY <1>1 DEF Asked
<1>6. \A b \in BOOLEAN : EndsUp(d, b)' = EndsUp(d, b)
  BY <1>1 DEF EndsUp, LastRow, Ahead, LastOf, InStream
<1>7. Within' = Within /\ EndsNow' = EndsNow
  BY <1>1, SameQuestions
<1> QED
  BY <1>1, <1>3, <1>4, <1>5, <1>6, <1>7 DEF DeviceInv, Leads

\* New rows of one action, behind the others.
LEMMA NewRows ==
  ASSUME TypeOK, NEW page \in SUBSET Entry, NEW act \in Actions, Enqueue(page, act),
         NEW d \in Devices, on' = on, strays' = strays
  PROVE  /\ OldestFirst(d) => OldestFirst(d)'
         /\ (\E e \in page : e.dev = d /\ [dev |-> e.dev, slot |-> e.slot, act |-> act] \notin keys)
              => EndsUp(d, act = "ON")'
         /\ EndsUp(d, act = "ON") => EndsUp(d, act = "ON")'
         /\ (\A e \in page : e.dev # d) => \A b \in BOOLEAN : EndsUp(d, b) => EndsUp(d, b)'
<1> DEFINE n == Len(queue)
           m == Len(queue')
<1>1. n \in Nat /\ DOMAIN queue = 1 .. n
  BY Queue
<1>2. /\ m \in Nat /\ n <= m /\ DOMAIN queue' = 1 .. m
      /\ \A i \in 1 .. n : queue'[i] = queue[i]
      /\ \A i \in n + 1 .. m :
           /\ queue'[i].act = act /\ queue'[i].status = "PENDING"
           /\ \E e \in page : e.dev = queue'[i].dev
      /\ \A e \in page :
           \/ [dev |-> e.dev, slot |-> e.slot, act |-> act] \in keys
           \/ \E i \in n + 1 .. m : queue'[i].dev = e.dev
  BY Enqueued
<1> HIDE DEF n, m
<1>3. \A i \in 1 .. m : i \in 1 .. n \/ i \in n + 1 .. m
  BY <1>1, <1>2
<1>4. OldestFirst(d) => OldestFirst(d)'
  <2> SUFFICES ASSUME OldestFirst(d), NEW k \in 1 .. m, queue'[k].dev = d
               PROVE  /\ queue'[k].status \in {"PENDING", "SENT", "TAKEN"}
                      /\ \A j \in 1 .. k - 1 : queue'[j].dev = d => queue'[k].status = "PENDING"
    BY <1>2 DEF OldestFirst, InOrder, NoEcho
  <2>1. CASE k \in n + 1 .. m
    BY <1>2, <2>1
  <2>2. CASE k \in 1 .. n
    <3>1. \A j \in 1 .. k - 1 : j \in 1 .. n
      BY <1>1, <2>2
    <3> QED
      BY <1>1, <1>2, <2>2, <3>1 DEF OldestFirst, InOrder
  <2> QED
    BY <1>3, <2>1, <2>2
<1>5. ASSUME NEW i \in n + 1 .. m, queue'[i].dev = d PROVE EndsUp(d, act = "ON")'
  <2>1. i \in 1 .. m
    BY <1>1, <1>2
  <2>2. Ahead(d)'
    <3>1. i \in DOMAIN queue' /\ queue'[i].status = "PENDING"
      BY <1>2, <1>5, <2>1
    <3> QED
      BY <1>5, <3>1 DEF Ahead
  <2>3. ASSUME NEW k \in 1 .. m, queue'[k].dev = d, \A j \in k + 1 .. m : queue'[j].dev # d
        PROVE  queue'[k].act = act
    <3>1. i \notin k + 1 .. m
      BY <1>5, <2>3
    <3>2. k \in n + 1 .. m
      BY <1>1, <1>2, <2>1, <3>1
    <3> QED
      BY <1>2, <3>2
  <2>4. LastRow(d, act = "ON")'
    BY <1>2, <2>3 DEF LastRow, m
  <2> QED
    BY <2>2, <2>4 DEF EndsUp
<1>6. ASSUME \A i \in n + 1 .. m : queue'[i].dev # d, NEW b \in BOOLEAN, EndsUp(d, b)
      PROVE  EndsUp(d, b)'
  <2>1. Ahead(d)' = Ahead(d)
    <3>1. \A i \in 1 .. n : i \in 1 .. m
      BY <1>1, <1>2
    <3> QED
      BY <1>1, <1>2, <1>3, <1>6, <3>1 DEF Ahead
  <2>2. ASSUME NEW k \in 1 .. m, queue'[k].dev = d, queue'[k].status # "TAKEN",
               \A j \in k + 1 .. m : queue'[j].dev # d
        PROVE  (queue'[k].act = "ON") = b
    <3>1. k \in 1 .. n /\ queue'[k] = queue[k]
      BY <1>2, <1>3, <1>6, <2>2
    <3>2. \A j \in k + 1 .. n : queue[j].dev # d
      BY <1>1, <1>2, <3>1, <2>2
    <3>3. (queue[k].act = "ON") = b
      BY <1>1, <1>6, <3>1, <3>2, <2>2 DEF EndsUp, LastRow, n
    <3> QED
      BY <3>1, <3>3
  <2>3. LastRow(d, b)'
    BY <1>2, <2>2 DEF LastRow, m
  <2>4. LastOf(strays, d, b)' = LastOf(strays, d, b) /\ InStream(strays, d)' = InStream(strays, d)
    BY DEF LastOf, InStream
  <2> QED
    BY <1>6, <2>1, <2>3, <2>4 DEF EndsUp
<1>7. (act = "ON") \in BOOLEAN
  OBVIOUS
<1> QED
  BY <1>2, <1>4, <1>5, <1>6, <1>7, ZenonT(30)

LEMMA WhatIsAsked ==
  ASSUME TypeOK
  PROVE  /\ \A e \in Entries(TRUE) : Within
         /\ \A e \in Entries(FALSE) : EndsNow
         /\ \A d \in Devices : mode[d] = "SCHEDULE" /\ enabled =>
              /\ Within => \E e \in Entries(TRUE) : e.dev = d
              /\ EndsNow => \E e \in Entries(FALSE) : e.dev = d
<1>1. \A s \in Ids : slots[s].from \in Nat /\ slots[s].to \in Nat
  BY DEF TypeOK, Slot
<1>2. now \in Nat
  BY DEF TypeOK
<1>3. ASSUME NEW s \in Ids PROVE IsDue(slots[s]) <=> now \in slots[s].from .. slots[s].to - 1
  BY <1>1, <1>2 DEF IsDue
<1>4. \A e \in Entries(TRUE) : Within
  BY <1>3 DEF Entries, Entry, Within
<1>5. \A e \in Entries(FALSE) : EndsNow
  BY DEF Entries, Entry, EndsNow, IsEnd
<1>6. ASSUME NEW d \in Devices, mode[d] = "SCHEDULE", enabled
      PROVE  /\ Within => \E e \in Entries(TRUE) : e.dev = d
             /\ EndsNow => \E e \in Entries(FALSE) : e.dev = d
  <2> DEFINE row(s) == [dev |-> d, slot |-> s]
  <2>1. \A s \in Ids : row(s) \in Entry /\ row(s).dev = d /\ row(s).slot = s
    BY DEF Entry
  <2> HIDE DEF row
  <2>2. \A s \in Ids : IsDue(slots[s]) => row(s) \in Entries(TRUE)
    BY <1>6, <2>1 DEF Entries
  <2>3. \A s \in Ids : IsEnd(slots[s]) => row(s) \in Entries(FALSE)
    BY <1>6, <2>1 DEF Entries
  <2>4. Within => \E e \in Entries(TRUE) : e.dev = d
    BY <1>3, <2>1, <2>2 DEF Within
  <2>5. EndsNow => \E e \in Entries(FALSE) : e.dev = d
    BY <2>1, <2>3 DEF EndsNow, IsEnd
  <2> QED
    BY <2>4, <2>5
<1> QED
  BY <1>4, <1>5, <1>6

LEMMA ReadPageDevice ==
  ASSUME Base, ReadPage, NEW d \in Devices, DeviceInv(d),
         NEW due \in BOOLEAN, due = (Head(loop.phases) = "due")
  PROVE  DeviceInv(d)'
<1> DEFINE act == IF due THEN "ON" ELSE "OFF"
           E == Entries(due)
           page == Page(E, loop.offset)
           last == Cardinality(page) < PageSize
           key(e) == [dev |-> e.dev, slot |-> e.slot, act |-> act]
<1>1. /\ TypeOK /\ loop # None /\ Enqueue(page, act)
      /\ loop' = IF ~last THEN [loop EXCEPT !.offset = @ + PageSize]
                 ELSE IF Len(loop.phases) = 1 THEN None
                 ELSE [phases |-> Tail(loop.phases), offset |-> 0]
      /\ ran' = (loop' = None)
      /\ UNCHANGED <<now, slots, mode, enabled, strays, on, disturbed, calm>>
  BY DEF ReadPage, Undisturbed, Base
<1>2. loop \in Runs /\ PageSize \in Nat /\ None \notin Runs
  BY ReadPageBase, WindowsAssumption
<1>3. /\ act \in Actions /\ (act = "ON") = due
      /\ E \in SUBSET Entry /\ page \in SUBSET E
  BY DEF Actions, Entries, Page
<1>4. IsFiniteSet(E) /\ Orders(ByDevice, E)
  BY <1>1, <1>3, EntriesOrdered
<1>5. keys' = keys \cup {key(e) : e \in page}
  BY <1>1 DEF Enqueue
<1>6. /\ Within' = Within /\ EndsNow' = EndsNow /\ ByDevice' = ByDevice
      /\ \A x \in BOOLEAN : Entries(x)' = Entries(x)
  BY <1>1, SameQuestions
<1>7. /\ \A e : key(e) = [dev |-> e.dev, slot |-> e.slot, act |-> IF due THEN "ON" ELSE "OFF"]
      /\ \A e : key(e).dev = e.dev
  OBVIOUS
<1>8. \A e \in E : Rank(e, E, ByDevice) \in Nat
  BY <1>4, RankType, FS_CardinalityType
<1>9. last => \A e \in E : Rank(e, E, ByDevice) < loop.offset + PageSize
  BY <1>2, <1>4, LastPage, PhasesOf
<1>10. \A e \in E : Rank(e, E, ByDevice) < loop.offset + PageSize
          => Rank(e, E, ByDevice) < loop.offset \/ e \in page
  <2>1. loop.offset \in Nat
    BY <1>2, PhasesOf
  <2>2. page = {e \in E : Rank(e, E, ByDevice) \in loop.offset .. loop.offset + PageSize - 1}
    BY DEF Page
  <2> HIDE DEF page, E
  <2> QED
    BY <1>2, <1>8, <2>1, <2>2
<1>11. Steady(d)' = Steady(d)
  BY <1>1 DEF Steady
<1>12. /\ loop' = None <=> last /\ Len(loop.phases) = 1
       /\ ran' => loop' = None
  BY ReadPageBase DEF Base, TypeOK
<1> HIDE DEF page, E, key, act, last
<1>13. Steady(d) => OldestFirst(d)'
  BY <1>1, <1>3, NewRows DEF DeviceInv
<1>14. Steady(d) => Covered(d)'
  <2> SUFFICES ASSUME Steady(d) PROVE Covered(d)'
    OBVIOUS
  <2>1. ReadTo(d, due, loop.offset) /\ (Len(loop.phases) = 1 => ReadAll(d, ~due))
    BY <1>1 DEF DeviceInv, Covered
  <2>2. \A x \in BOOLEAN : ReadAll(d, x) => ReadAll(d, x)'
    BY <1>5, <1>6 DEF ReadAll, InKeys
  <2>3. ASSUME NEW e \in E, e.dev = d, Rank(e, E, ByDevice) < loop.offset + PageSize
        PROVE  InKeys(e, due)'
    <3>1. CASE Rank(e, E, ByDevice) < loop.offset
      <4>1. InKeys(e, due)
        BY <2>1, <2>3, <3>1 DEF ReadTo, E
      <4> QED
        BY <4>1, <1>5 DEF InKeys
    <3>2. CASE e \in page
      BY <1>5, <1>7, <3>2 DEF InKeys, act
    <3> QED
      BY <2>3, <3>1, <3>2, <1>10
  <2>4. last => ReadAll(d, due)'
    BY <1>3, <1>6, <1>9, <2>3 DEF ReadAll, E
  <2>5. CASE ~last
    <3>1. loop' = [loop EXCEPT !.offset = @ + PageSize] /\ loop' # None /\ ~ran'
      BY <1>1, <1>12, <2>5
    <3>2. loop'.phases = loop.phases /\ loop'.offset = loop.offset + PageSize
      <4>1. loop = [phases |-> loop.phases, offset |-> loop.offset]
        BY <1>2 DEF Runs
      <4>2. loop' = [phases |-> loop.phases, offset |-> loop.offset + PageSize]
        BY <3>1, <4>1
      <4> QED
        BY <4>2
    <3>3. ReadTo(d, due, loop.offset)'
      BY <1>6, <2>3, <3>2 DEF ReadTo, E, Rank
    <3> QED
      BY <2>1, <2>2, <3>1, <3>2, <3>3 DEF Covered
  <2>6. CASE last /\ Len(loop.phases) # 1
    <3>1. loop' = [phases |-> Tail(loop.phases), offset |-> 0]
      BY <1>1, <2>6
    <3>2. loop'.phases = Tail(loop.phases) /\ loop'.offset = 0
      BY <3>1
    <3>3. loop' # None /\ ~ran'
      BY <1>12, <2>6
    <3>4. (Head(Tail(loop.phases)) = "due") = ~due
      BY <1>2, <2>6, PhasesOf
    <3>5. (Head(loop'.phases) = "due") = ~due
      BY <3>2, <3>4
    <3>6. ReadTo(d, ~due, 0)'
      <4>1. \A x \in BOOLEAN : ReadTo(d, x, 0)'
        BY <1>1, <1>6, RanksFromZero DEF ReadTo, Rank
      <4> QED
        BY <4>1
    <3> QED
      BY <2>4, <2>6, <3>2, <3>3, <3>5, <3>6 DEF Covered
  <2>7. CASE last /\ Len(loop.phases) = 1
    <3>1. loop' = None
      BY <1>1, <2>7
    <3>2. ReadAll(d, due)' /\ ReadAll(d, ~due)'
      BY <2>1, <2>2, <2>4, <2>7
    <3>3. ReadAll(d, TRUE)' /\ ReadAll(d, FALSE)'
      BY <3>2
    <3> QED
      BY <3>1, <3>3 DEF Covered
  <2> QED
    BY <2>5, <2>6, <2>7
<1>15. \A e \in page : e \in Entries(due)
  BY <1>3 DEF E
<1>16. ASSUME NEW b \in BOOLEAN, EndsUp(d, b), page = {} PROVE EndsUp(d, b)' /\ keys' = keys
  BY <1>1, <1>3, <1>5, <1>16, NewRows
<1>17. ASSUME Asked(d) => EndsUp(d, due), Asked(d)' PROVE EndsUp(d, due)'
  <2>1. CASE Asked(d)
    BY <1>1, <1>3, <1>17, <2>1, NewRows
  <2>2. CASE ~Asked(d)
    <3>1. PICK e \in page : key(e).dev = d
      BY <1>5, <1>17, <2>2 DEF Asked
    <3>2. e.dev = d /\ key(e) \notin keys
      BY <1>7, <2>2, <3>1 DEF Asked
    <3> QED
      BY <1>1, <1>3, <3>1, <3>2, NewRows DEF key
  <2> QED
    BY <2>1, <2>2
<1>18. Leads(d)'
  <2>1. ASSUME ~disturbed[d], ~Within, ~EndsNow PROVE EndsUp(d, FALSE)'
    <3>1. page = {}
      BY <1>1, <1>15, <2>1, WhatIsAsked
    <3> QED
      BY <1>16, <2>1, <3>1 DEF DeviceInv, Leads
  <2>2. ASSUME ~disturbed[d], ~Within, EndsNow, Asked(d)' PROVE EndsUp(d, FALSE)'
    <3>1. Asked(d) => EndsUp(d, FALSE)
      BY <2>2 DEF DeviceInv, Leads
    <3>2. CASE due = TRUE
      <4>1. page = {}
        BY <1>1, <1>15, <2>2, <3>2, WhatIsAsked
      <4>2. Asked(d)
        BY <1>5, <2>2, <4>1 DEF Asked
      <4> QED
        BY <1>16, <3>1, <4>1, <4>2
    <3>3. CASE due = FALSE
      BY <1>17, <2>2, <3>1, <3>3
    <3> QED
      BY <3>2, <3>3
  <2>3. ASSUME Steady(d), Within, ~EndsNow, Asked(d)' PROVE EndsUp(d, TRUE)'
    <3>1. Asked(d) => EndsUp(d, TRUE)
      BY <2>3 DEF DeviceInv, Leads
    <3>2. CASE due = FALSE
      <4>1. page = {}
        BY <1>1, <1>15, <2>3, <3>2, WhatIsAsked
      <4>2. Asked(d)
        BY <1>5, <2>3, <4>1 DEF Asked
      <4> QED
        BY <1>16, <3>1, <4>1, <4>2
    <3>3. CASE due = TRUE
      BY <1>17, <2>3, <3>1, <3>3
    <3> QED
      BY <3>2, <3>3
  <2> QED
    BY <1>1, <1>6, <1>11, <2>1, <2>2, <2>3 DEF Leads
<1> QED
  BY <1>11, <1>13, <1>14, <1>18 DEF DeviceInv

\* Settled(d) of a steady device, at the end of a minute or of its run.
LEMMA RanThrough ==
  ASSUME Base, NEW d \in Devices, DeviceInv(d), ran, mode[d] = "SCHEDULE", enabled, Steady(d)
  PROVE  /\ ~disturbed[d] /\ ~Within => EndsUp(d, FALSE)
         /\ Within /\ ~EndsNow => EndsUp(d, TRUE)
<1>1. TypeOK /\ ReadAll(d, TRUE) /\ ReadAll(d, FALSE)
  BY DEF Base, DeviceInv, Covered
<1>2. Within \/ EndsNow => Asked(d)
  <2>1. ASSUME NEW due \in BOOLEAN, NEW e \in Entries(due), e.dev = d PROVE Asked(d)
    <3> DEFINE k == [dev |-> e.dev, slot |-> e.slot, act |-> IF due THEN "ON" ELSE "OFF"]
    <3>1. k \in keys /\ k.dev = d
      BY <1>1, <2>1 DEF ReadAll, InKeys
    <3> QED
      BY <3>1 DEF Asked
  <2> QED
    BY <1>1, <2>1, WhatIsAsked
<1> QED
  BY <1>2 DEF DeviceInv, Leads

LEMMA TickDevice ==
  ASSUME Base, Tick, NEW d \in Devices, DeviceInv(d)
  PROVE  DeviceInv(d)'
<1>1. /\ TypeOK /\ loop' = None /\ ~ran' /\ keys' = {} /\ ~calm'[d]
      /\ UNCHANGED <<slots, mode, enabled, queue, strays, on>> /\ now' = now + 1
  BY BaseNext DEF Base, Tick, TypeOK
<1>2. ~disturbed'[d] => \/ Settled(d) /\ on[d] = Within
                        \/ ~disturbed[d] /\ ran
  BY DEF Tick
<1>3. ~disturbed'[d] => OldestFirst(d)
  BY <1>2 DEF DeviceInv, Steady, Settled, Open, OldestFirst, InOrder, NoEcho
<1>4. ~Within' /\ ~EndsNow' => ~Within
  <2>1. now \in Nat /\ \A s \in Ids : slots[s].from \in Nat /\ slots[s].to \in Nat
    BY <1>1 DEF TypeOK, Slot
  <2> SUFFICES ASSUME NEW s \in Ids, now \in slots[s].from .. slots[s].to - 1,
                      slots[s].to # now + 1
               PROVE  now + 1 \in slots[s].from .. slots[s].to - 1
    BY <1>1 DEF Within, EndsNow, Ids
  <2> QED
    BY <2>1
<1>5. ASSUME ~disturbed'[d], ~Within PROVE EndsUp(d, FALSE)
  <2>1. CASE Settled(d) /\ on[d] = Within
    BY <1>5, <2>1 DEF EndsUp, LastRow, LastOf, Settled, Open
  <2>2. CASE ~disturbed[d] /\ ran
    BY <1>5, <2>2, RanThrough DEF Base, InCharge, Steady
  <2> QED
    BY <1>2, <1>5, <2>1, <2>2
<1>6. EndsUp(d, FALSE)' = EndsUp(d, FALSE) /\ OldestFirst(d)' = OldestFirst(d)
  BY <1>1 DEF EndsUp, LastRow, Ahead, LastOf, InStream, OldestFirst, InOrder, NoEcho
<1>7. Leads(d)'
  BY <1>1, <1>4, <1>5, <1>6 DEF Leads, Asked
<1>8. Steady(d)' => OldestFirst(d)' /\ Covered(d)'
  BY <1>1, <1>3, <1>6 DEF Steady, Covered
<1> QED
  BY <1>7, <1>8 DEF DeviceInv

LEMMA SetModeDevice ==
  ASSUME Base, NEW x \in Devices, NEW new \in {"SCHEDULE", "MANUAL"}, SetMode(x, new),
         NEW d \in Devices, DeviceInv(d)
  PROVE  DeviceInv(d)'
<1>1. /\ TypeOK /\ Disturb(IF loop = None THEN {x} ELSE Devices)
      /\ UNCHANGED <<now, slots, enabled, queue, strays, keys, loop, ran>>
      /\ \A y \in Devices : y # x => mode'[y] = mode[y] /\ on'[y] = on[y]
  BY DEF SetMode, Base, TypeOK
<1>2. CASE loop # None \/ d = x
  <2>1. disturbed'[d] /\ ~calm'[d]
    BY <1>1, <1>2, DisturbType
  <2> QED
    BY <2>1, DisturbedDevice
<1>3. CASE loop = None /\ d # x
  <2>1. disturbed'[d] = disturbed[d] /\ calm'[d] = calm[d] /\ on'[d] = on[d] /\ mode'[d] = mode[d]
    BY <1>1, <1>3, DisturbType
  <2>2. \A due \in BOOLEAN : ReadAll(d, due) => ReadAll(d, due)'
    BY <1>1, <2>1 DEF ReadAll, Entries, Entry, Ids, IsDue, IsEnd, InKeys
  <2>3. Covered(d) => Covered(d)'
    BY <1>1, <1>3, <2>2 DEF Covered
  <2>4. /\ Steady(d)' = Steady(d) /\ OldestFirst(d)' = OldestFirst(d) /\ Asked(d)' = Asked(d)
        /\ \A b \in BOOLEAN : EndsUp(d, b)' = EndsUp(d, b)
    BY <1>1, <2>1 DEF Steady, OldestFirst, InOrder, NoEcho, Asked, EndsUp, LastRow, Ahead,
                      LastOf, InStream
  <2>5. Within' = Within /\ EndsNow' = EndsNow
    BY <1>1 DEF Within, EndsNow, Ids
  <2> QED
    BY <2>1, <2>3, <2>4, <2>5 DEF DeviceInv, Leads
<1> QED
  BY <1>2, <1>3

-----------------------------------------------------------------------------
LEMMA WindowsInit == Init => IInv
<1> SUFFICES ASSUME Init, NEW d \in Devices PROVE DeviceInv(d)
  BY BaseInit DEF IInv
<1>1. /\ queue = <<>> /\ keys = {} /\ loop = None /\ ran = FALSE /\ on[d] = FALSE
      /\ DOMAIN queue = {} /\ DOMAIN strays = {}
  BY DEF Init
<1>2. OldestFirst(d) /\ Covered(d) /\ ~Asked(d)
  BY <1>1 DEF OldestFirst, InOrder, NoEcho, Covered, Asked
<1>3. EndsUp(d, FALSE)
  BY <1>1 DEF EndsUp, LastRow, LastOf
<1> QED
  BY <1>2, <1>3 DEF DeviceInv, Leads

LEMMA WindowsNext == IInv /\ [Next]_vars => IInv'
<1> SUFFICES ASSUME IInv, [Next]_vars, NEW d \in Devices PROVE DeviceInv(d)'
  BY BaseNext DEF IInv
<1>0. Base /\ TypeOK /\ DeviceInv(d)
  BY DEF IInv, Base
<1>1. ASSUME NEW phases \in {<<"due", "end">>, <<"end", "due">>}, StartRun(phases)
      PROVE  DeviceInv(d)'
  BY <1>0, <1>1, StartRunDevice
<1>2. CASE ReadPage
  <2>1. PICK due \in BOOLEAN : due = (Head(loop.phases) = "due")
    OBVIOUS
  <2> QED
    BY <1>0, <1>2, <2>1, ReadPageDevice
<1>3. CASE Tick
  BY <1>0, <1>3, TickDevice
<1>4. ASSUME NEW i \in DOMAIN queue, Publish(i) PROVE DeviceInv(d)'
  BY <1>0, <1>4, PublishDevice
<1>5. ASSUME NEW i \in DOMAIN queue, Take(i) \/ Settle(i) \/ Timeout(i) PROVE DeviceInv(d)'
  BY <1>0, <1>5, TakeDevice, SettleDevice, TimeoutDevice
<1>6. ASSUME NEW i \in DOMAIN queue, PublishFails(i) PROVE DeviceInv(d)'
  BY <1>0, <1>6, PublishFailsDevice
<1>7. ASSUME NEW i \in DOMAIN queue, Lose(i) \/ RetryDue(i) PROVE DeviceInv(d)'
  <2>1. CASE Lose(i)
    BY <1>0, <2>1, StatusDisturbs DEF Lose, Statuses
  <2>2. CASE RetryDue(i)
    BY <1>0, <2>2, StatusDisturbs DEF RetryDue, Statuses
  <2> QED
    BY <1>7, <2>1, <2>2
<1>11. CASE TakeStray \/ LoseStray
  BY <1>0, <1>11, TakeStrayDevice, LoseStrayDevice
<1>8. CASE \/ \E choice \in SlotChoices : UpdateScheduler(choice)
           \/ DeleteScheduler
           \/ \E new \in BOOLEAN : SetEnabled(new)
  <2>1. Disturb(Devices) /\ Devices \in SUBSET Devices
    BY <1>8 DEF UpdateScheduler, DeleteScheduler, SetEnabled
  <2>2. disturbed'[d] /\ ~calm'[d]
    BY <1>0, <2>1, DisturbType
  <2> QED
    BY <2>2, DisturbedDevice
<1>9. ASSUME NEW x \in Devices, NEW new \in {"SCHEDULE", "MANUAL"}, SetMode(x, new)
      PROVE  DeviceInv(d)'
  BY <1>0, <1>9, SetModeDevice
<1>10. CASE UNCHANGED vars
  <2>1. queue' = queue /\ strays' = strays /\ on' = on /\ Untouched(d)
    BY <1>10 DEF vars, Untouched
  <2>2. RowsSame(d)
    BY <2>1 DEF RowsSame, InOrder, Ahead, LastRow
  <2> QED
    BY <1>0, <2>1, <2>2, SameStrays, BothSame, UntouchedDevice
<1> QED
  BY <1>1, <1>2, <1>3, <1>4, <1>5, <1>6, <1>7, <1>8, <1>9, <1>10,
     <1>11 DEF Next

LEMMA WindowsInvariant == Spec => []IInv
BY WindowsInit, WindowsNext, PTL DEF Spec

\* Once the commands of a minute are settled, an undisturbed device is on just
\* in the slots of its scheduler (fetch_due_entries and fetch_end_entries read by
\* pages, enqueue_command, the queue and the agent together).
THEOREM DevicesFollowWindows == Spec => []FollowsWindow
<1>1. IInv => FollowsWindow
  <2> SUFFICES ASSUME IInv, NEW d \in Devices, Settled(d), ~disturbed[d], ~(EndsNow /\ Within)
               PROVE  on[d] = Within
    BY DEF FollowsWindow
  <2>1. /\ ~Within => EndsUp(d, FALSE)
        /\ Within => EndsUp(d, TRUE)
    BY RanThrough DEF IInv, Settled, Steady
  <2>2. Within \in BOOLEAN
    BY DEF Within
  <2> QED
    BY <2>1, <2>2 DEF EndsUp, Ahead, InStream, Open, Settled
<1> QED
  BY <1>1, WindowsInvariant, PTL

\* Whatever went wrong before, a run that nothing disturbs and that found no open
\* command switches a device on in its slots: the loop asks for ON again in every
\* minute of a slot (fetch_due_entries).
THEOREM DevicesHeal == Spec => []HealsWithinMinute
<1>1. IInv => HealsWithinMinute
  <2> SUFFICES ASSUME IInv, NEW d \in Devices, Settled(d), calm[d], ~EndsNow, Within
               PROVE  on[d]
    BY DEF HealsWithinMinute
  <2>1. EndsUp(d, TRUE)
    BY RanThrough DEF IInv, Settled, Steady
  <2> QED
    BY <2>1 DEF EndsUp, Ahead, InStream, Open, Settled
<1> QED
  BY <1>1, WindowsInvariant, PTL

\* The agent carries out the commands of an undisturbed device in the order in
\* which they were enqueued, each sent once and none waiting for a retry.
THEOREM DevicesInOrder == Spec => [](\A d \in Devices : Steady(d) => OldestFirst(d))
<1>1. IInv => \A d \in Devices : Steady(d) => OldestFirst(d)
  BY DEF IInv, DeviceInv
<1> QED
  BY <1>1, WindowsInvariant, PTL
=============================================================================

----------------------------- MODULE SlotWindows -----------------------------
(***************************************************************************)
(* What the slots of a scheduler do to its devices.  Every minute a loop   *)
(* asks page by page which slots are due and which end, enqueues commands, *)
(* and a dispatcher sends them; meanwhile users replace the slots, change  *)
(* modes and switch the microcontroller off and on.  The queue is that of  *)
(* SchedulerCommands with one place in flight; the loop, the stream and    *)
(* the agent are external.  Slots have no rule here: RuleEvaluation is     *)
(* about those.                                                            *)
(***************************************************************************)
EXTENDS Naturals, Sequences, SequencesExt, FiniteSets

CONSTANTS
  Devices,      \* ids of devices, naturals, all of one microcontroller
  SlotChoices,  \* what a user may submit: sequences of [from, to]
  PageSize,     \* limit of a page
  MaxRetry,     \* retries of a command
  Horizon,      \* bound: last minute
  MaxChanges,   \* bound: what users do and what gets lost
  None

Slot == [from : Nat, to : Nat]

Runs == [phases : {<<"due", "end">>, <<"end", "due">>, <<"due">>, <<"end">>}, offset : Nat]

ASSUME WindowsAssumption ==
  /\ Devices \subseteq Nat /\ IsFiniteSet(Devices)
  /\ SlotChoices \subseteq Seq(Slot) /\ None \notin Runs
  /\ PageSize \in Nat \ {0} /\ MaxRetry \in Nat /\ Horizon \in Nat /\ MaxChanges \in Nat
  /\ \A choice \in SlotChoices : \A i \in DOMAIN choice : choice[i].from < choice[i].to

VARIABLES
  now,       \* minute of the day
  slots,     \* slots of the scheduler, by id
  nextSlot,  \* next id of a slot
  mode,      \* mode of each device
  enabled,   \* whether the microcontroller is enabled
  queue,     \* rows to be sent or confirmed, in the order of their ids
  strays,    \* messages in the stream of which no row in flight knows, oldest
             \* first; that of the row in flight comes after them
  keys,      \* device, slot and action enqueued this minute
  loop,      \* phases left and offset of the run in progress, or None
  ran,       \* a run of this minute is complete
  on,        \* what the devices really do
  changes,   \* what users have done, what was lost and what came too late so far
  disturbed, \* history: since it last did as its slots say, a minute was missed,
             \* a user intervened or a command went wrong
  calm       \* history: this minute's run found no old command, and nothing
             \* disturbed the device since

vars == <<now, slots, nextSlot, mode, enabled, queue, strays, keys, loop, ran, on,
          changes, disturbed, calm>>

Actions == {"ON", "OFF"}

\* SENT rows have their message in the stream, TAKEN ones are SENT rows whose
\* message is gone from it.  A stray is a GHOST when its row is settled or
\* deleted, an ECHO when the row was put back because its publish failed.
Statuses == {"PENDING", "SENT", "TAKEN", "BACKOFF", "GHOST", "ECHO"}

Command == [minute : Nat, dev : Devices, slot : Nat, act : Actions, status : Statuses,
            attempt : 0..MaxRetry]

Ids == DOMAIN slots

\* The place of e in S, counted from 0, and S as a sequence, in the order R.
Rank(e, S, R) == Cardinality({a \in S : <<a, e>> \in R})

Listed(S, R) ==
  [i \in 1 .. Cardinality(S) |-> CHOOSE e \in S : Rank(e, S, R) = i - 1]

\* A row of a query, and ORDER BY device id, slot id
Entry == [dev : Devices, slot : Ids]

ByDevice ==
  {p \in Entry \X Entry :
     p[1].dev < p[2].dev \/ (p[1].dev = p[2].dev /\ p[1].slot < p[2].slot)}

\* SchedulerSlotIn has checked that a slot ends after it starts.
WithIds(choice, first) ==
  [id \in first .. first + Len(choice) - 1 |-> choice[id - first + 1]]

-----------------------------------------------------------------------------
(* What the slots say, for the properties. *)

Within == \E s \in Ids : now \in slots[s].from .. slots[s].to - 1

EndsNow == \E s \in Ids : slots[s].to = now

\* A command of d is to be sent or confirmed, or is still in the stream.
Open(d) ==
  \/ \E i \in DOMAIN queue : queue[i].dev = d
  \/ \E i \in DOMAIN strays : strays[i].dev = d

\* The commands of this minute are settled and the scheduler is in charge.
Settled(d) == ran /\ loop = None /\ mode[d] = "SCHEDULE" /\ enabled /\ ~Open(d)

Change == changes < MaxChanges /\ changes' = changes + 1

Disturb(D) ==
  /\ disturbed' = [d \in Devices |-> disturbed[d] \/ d \in D]
  /\ calm' = [d \in Devices |-> calm[d] /\ d \notin D]

Undisturbed == UNCHANGED <<disturbed, calm>>

-----------------------------------------------------------------------------
Init ==
  /\ now = 0
  /\ \E choice \in SlotChoices :
       slots = WithIds(choice, 1) /\ nextSlot = Len(choice) + 1
  /\ mode = [d \in Devices |-> "SCHEDULE"]
  /\ enabled = TRUE
  /\ queue = <<>>
  /\ strays = <<>>
  /\ keys = {}
  /\ loop = None
  /\ ran = FALSE
  /\ on = [d \in Devices |-> FALSE]
  /\ changes = 0
  /\ disturbed = [d \in Devices |-> FALSE]
  /\ calm = [d \in Devices |-> FALSE]

\* Mutants: the end minute still counts; a slot ends again every minute after.
DueToTheEnd(slot) == slot.from <= now /\ now <= slot.to
EndedBefore(slot) == slot.to <= now

\* fetch_due_entries: start_col <= hhmm, hhmm < end_col
IsDue(slot) == slot.from <= now /\ now < slot.to

\* fetch_end_entries: end_col == hhmm
IsEnd(slot) == slot.to = now

\* The joins, the filter on mode and microcontroller.
Entries(due) ==
  {e \in Entry :
     mode[e.dev] = "SCHEDULE" /\ enabled
       /\ IF due THEN IsDue(slots[e.slot]) ELSE IsEnd(slots[e.slot])}

\* The rows at the places offset + 1 to offset + PageSize in the order of the query.
Page(entries, offset) ==
  {e \in entries : Rank(e, entries, ByDevice) \in offset .. offset + PageSize - 1}

\* enqueue_command for the entries of a page: ON CONFLICT DO NOTHING.
Enqueue(page, act) ==
  LET key(e) == [dev |-> e.dev, slot |-> e.slot, act |-> act]
      row(e) == [minute |-> now, dev |-> e.dev, slot |-> e.slot, act |-> act,
                 status |-> "PENDING", attempt |-> 0]
      fresh == Listed({e \in page : key(e) \notin keys}, ByDevice) IN
  /\ queue' = queue \o [i \in DOMAIN fresh |-> row(fresh[i])]
  /\ keys' = keys \cup {key(e) : e \in page}

-----------------------------------------------------------------------------
(* The loop (external): a run asks for what is due and for what ends, in     *)
(* either order, and is over before the next minute.                         *)

StartRun(phases) ==
  /\ loop = None /\ ~ran
  /\ loop' = [phases |-> phases, offset |-> 0]
  /\ calm' = [d \in Devices |-> ~Open(d)]
  /\ UNCHANGED <<now, slots, nextSlot, mode, enabled, queue, strays, keys, ran, on,
                 changes, disturbed>>

ReadPage ==
  LET due == Head(loop.phases) = "due"
      page == Page(Entries(due), loop.offset)
      last == Cardinality(page) < PageSize IN
  /\ loop # None
  /\ Enqueue(page, IF due THEN "ON" ELSE "OFF")
  /\ loop' = IF ~last THEN [loop EXCEPT !.offset = @ + PageSize]
             ELSE IF Len(loop.phases) = 1 THEN None
             ELSE [phases |-> Tail(loop.phases), offset |-> 0]
  /\ ran' = (loop' = None)
  /\ Undisturbed
  /\ UNCHANGED <<now, slots, nextSlot, mode, enabled, strays, on, changes>>

Tick ==
  /\ now < Horizon /\ loop = None
  /\ now' = now + 1
  /\ ran' = FALSE
  /\ keys' = {}
  /\ disturbed' = [d \in Devices |->
       IF Settled(d) /\ on[d] = Within THEN FALSE ELSE disturbed[d] \/ ~ran]
  /\ calm' = [d \in Devices |-> FALSE]
  /\ UNCHANGED <<slots, nextSlot, mode, enabled, queue, strays, loop, on, changes>>

-----------------------------------------------------------------------------
(* The dispatcher, and the agent (external), which takes one message after    *)
(* the other from the stream.                                                *)

InFlight(row) == row.status \in {"SENT", "TAKEN"}

\* The row that claim_pending_for_dispatch with one place in flight claims.
Claims(i) ==
  /\ i \in DOMAIN queue /\ queue[i].status = "PENDING"
  /\ \A j \in 1 .. i - 1 : queue[j].status # "PENDING"
  /\ \A j \in DOMAIN queue : ~InFlight(queue[j])

Carry(c) == on' = [on EXCEPT ![c.dev] = (c.act = "ON")]

\* The message of a row, or what is left of it in the stream.
Strand(c, status) == strays' = Append(strays, [c EXCEPT !.status = status])

Publish(i) ==
  /\ Claims(i)
  /\ queue' = [queue EXCEPT ![i].status = "SENT"]
  /\ Undisturbed
  /\ UNCHANGED <<now, slots, nextSlot, mode, enabled, strays, keys, loop, ran, on, changes>>

\* The publish fails, though the message may have reached the stream.
\* mark_publish_failure: the row waits for a retry, or fails after the last.
PublishFails(i) ==
  /\ Claims(i)
  /\ Change
  /\ Strand(queue[i], "ECHO") \/ UNCHANGED strays
  /\ queue' = IF queue[i].attempt < MaxRetry
              THEN [queue EXCEPT ![i].status = "BACKOFF", ![i].attempt = @ + 1]
              ELSE RemoveAt(queue, i)
  /\ Disturb({queue[i].dev})
  /\ UNCHANGED <<now, slots, nextSlot, mode, enabled, keys, loop, ran, on>>

\* The agent takes the message of the row in flight.
Take(i) ==
  /\ i \in DOMAIN queue /\ queue[i].status = "SENT" /\ strays = <<>>
  /\ Carry(queue[i])
  /\ queue' = [queue EXCEPT ![i].status = "TAKEN"]
  /\ Undisturbed
  /\ UNCHANGED <<now, slots, nextSlot, mode, enabled, strays, keys, loop, ran, changes>>

\* The message is lost, or the agent refuses it.
Lose(i) ==
  /\ i \in DOMAIN queue /\ queue[i].status = "SENT" /\ strays = <<>>
  /\ Change
  /\ queue' = [queue EXCEPT ![i].status = "TAKEN"]
  /\ Disturb({queue[i].dev})
  /\ UNCHANGED <<now, slots, nextSlot, mode, enabled, strays, keys, loop, ran, on>>

\* mark_ack, or claim_timeouts for a row whose message or answer is lost: both
\* are final.
Settle(i) ==
  /\ i \in DOMAIN queue /\ queue[i].status = "TAKEN"
  /\ queue' = RemoveAt(queue, i)
  /\ Undisturbed
  /\ UNCHANGED <<now, slots, nextSlot, mode, enabled, strays, keys, loop, ran, on, changes>>

\* claim_timeouts settles a row whose message is still in the stream.
Timeout(i) ==
  /\ i \in DOMAIN queue /\ queue[i].status = "SENT"
  /\ Change
  /\ queue' = RemoveAt(queue, i)
  /\ Strand(queue[i], "GHOST")
  /\ Undisturbed
  /\ UNCHANGED <<now, slots, nextSlot, mode, enabled, keys, loop, ran, on>>

\* The row of a stray that has come back from a failed publish.
RowsOf(c) ==
  {i \in DOMAIN queue : c.status = "ECHO" /\ queue[i].minute = c.minute
       /\ queue[i].dev = c.dev /\ queue[i].slot = c.slot /\ queue[i].act = c.act}

\* The first stray is gone unanswered.
Unanswered == strays' = Tail(strays) /\ UNCHANGED queue

\* The answer to a stray: mark_ack settles the row of an echo, if it is still
\* open; a second message of that row may be in the stream.
Answered ==
  \/ RowsOf(Head(strays)) = {} /\ Unanswered
  \/ \E i \in RowsOf(Head(strays)) :
       /\ queue' = RemoveAt(queue, i)
       /\ strays' = IF queue[i].status = "SENT"
                    THEN Append(Tail(strays), [queue[i] EXCEPT !.status = "GHOST"])
                    ELSE Tail(strays)

\* The agent takes a stray.
TakeStray ==
  /\ strays # <<>>
  /\ Carry(Head(strays))
  /\ Answered
  /\ Undisturbed
  /\ UNCHANGED <<now, slots, nextSlot, mode, enabled, keys, loop, ran, changes>>

\* A stray or the answer to it is lost, or the agent refuses it.
LoseStray ==
  /\ strays # <<>>
  /\ Change
  /\ Carry(Head(strays)) \/ UNCHANGED on
  /\ Answered \/ Unanswered
  /\ Disturb({Head(strays).dev})
  /\ UNCHANGED <<now, slots, nextSlot, mode, enabled, keys, loop, ran>>

\* next_retry_at is reached.
RetryDue(i) ==
  /\ i \in DOMAIN queue /\ queue[i].status = "BACKOFF"
  /\ queue' = [queue EXCEPT ![i].status = "PENDING"]
  /\ Disturb({queue[i].dev})
  /\ UNCHANGED <<now, slots, nextSlot, mode, enabled, strays, keys, loop, ran, on, changes>>

-----------------------------------------------------------------------------
\* ON DELETE CASCADE of slot_id; what was sent still reaches the agent.
Cascade ==
  /\ queue' = <<>>
  /\ IF \E i \in DOMAIN queue : queue[i].status = "SENT"
     THEN \E i \in DOMAIN queue : queue[i].status = "SENT" /\ Strand(queue[i], "GHOST")
     ELSE UNCHANGED strays

\* update_scheduler clears the slots and inserts the submitted ones under new ids.
UpdateScheduler(choice) ==
  /\ Ids # {}
  /\ Change
  /\ slots' = WithIds(choice, nextSlot)
  /\ nextSlot' = nextSlot + Len(choice)
  /\ Cascade
  /\ keys' = {}
  /\ Disturb(Devices)
  /\ UNCHANGED <<now, mode, enabled, loop, ran, on>>

\* delete_scheduler: its devices stay in SCHEDULE mode without a scheduler.
DeleteScheduler ==
  /\ Ids # {}
  /\ Change
  /\ slots' = <<>>
  /\ Cascade
  /\ keys' = {}
  /\ Disturb(Devices)
  /\ UNCHANGED <<now, nextSlot, mode, enabled, loop, ran, on>>

\* A device leaves SCHEDULE mode, or comes back in whatever state its user left
\* it.  During a run the other devices move to other offsets.
SetMode(d, new) ==
  /\ mode[d] # new
  /\ Change
  /\ mode' = [mode EXCEPT ![d] = new]
  /\ \E state \in BOOLEAN :
       /\ new = "MANUAL" => state = on[d]
       /\ on' = [on EXCEPT ![d] = state]
  /\ Disturb(IF loop = None THEN {d} ELSE Devices)
  /\ UNCHANGED <<now, slots, nextSlot, enabled, queue, strays, keys, loop, ran>>

\* set_enabled of the microcontroller
SetEnabled(new) ==
  /\ enabled # new
  /\ Change
  /\ enabled' = new
  /\ Disturb(Devices)
  /\ UNCHANGED <<now, slots, nextSlot, mode, queue, strays, keys, loop, ran, on>>

-----------------------------------------------------------------------------
Next ==
  \/ \E phases \in {<<"due", "end">>, <<"end", "due">>} : StartRun(phases)
  \/ ReadPage
  \/ Tick
  \/ \E i \in DOMAIN queue :
       \/ Publish(i) \/ PublishFails(i) \/ RetryDue(i)
       \/ Take(i) \/ Lose(i) \/ Settle(i) \/ Timeout(i)
  \/ TakeStray
  \/ LoseStray
  \/ \E choice \in SlotChoices : UpdateScheduler(choice)
  \/ DeleteScheduler
  \/ \E d \in Devices, new \in {"SCHEDULE", "MANUAL"} : SetMode(d, new)
  \/ \E new \in BOOLEAN : SetEnabled(new)

Spec == Init /\ [][Next]_vars

-----------------------------------------------------------------------------
\* Once the commands of a minute are settled and nothing is left in the stream,
\* not even of rows given up as timed out, an undisturbed device is on just in
\* the slots of its scheduler: no boundary minute switches it on again after
\* its end, or leaves it on.  In a minute in which one slot ends and another is
\* due it may be either.
FollowsWindow ==
  \A d \in Devices :
    Settled(d) /\ ~disturbed[d] /\ ~(EndsNow /\ Within) => on[d] = Within

\* Whatever went wrong before, a complete run in a slot switches the device on,
\* unless older commands were open or something goes wrong again.
HealsWithinMinute ==
  \A d \in Devices : Settled(d) /\ calm[d] /\ ~EndsNow /\ Within => on[d]
=============================================================================

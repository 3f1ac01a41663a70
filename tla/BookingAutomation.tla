------------------------- MODULE BookingAutomation -------------------------
(***************************************************************************)
(* What the BOOKING_ events of one booking set off: its calendar event,    *)
(* its service execution and the readiness of its payment, each tracked by *)
(* a row of booking_automation_status that the first attempt creates and a *)
(* retry loop revisits.  Bookings share nothing here but the business's    *)
(* calendar connection.                                                    *)
(*                                                                         *)
(* A worker reads the status row, the booking and the sync record, calls   *)
(* the calendar, and commits.  Two workers may run the same event (its     *)
(* outbox lease lapsed) or the same retry (get_retryable locks nothing).   *)
(***************************************************************************)
EXTENDS Integers, Sequences, FiniteSets

CONSTANTS
    Workers,
    MaxAttempts,    \* MAX_ATTEMPTS
    UidUnique,      \* whether the calendar refuses a second event with the booking's iCalUID
    MaxEvents,      \* calendar events made in a behaviour
    MaxFaults       \* crashes and changes of the connection in a behaviour

ASSUME AutomationAssumption ==
    MaxAttempts \in Nat \ {0} /\ MaxEvents \in Nat /\ MaxFaults \in Nat /\ UidUnique \in BOOLEAN

Events == {"BOOKING_CONFIRMED", "BOOKING_IN_PROGRESS", "BOOKING_COMPLETED", "BOOKING_CANCELLED"}
Operations == {"CALENDAR_SYNC", "SERVICE_EXECUTION", "PAYMENT_PREP"}

VARIABLES
    booking,    \* Booking.status
    emitted,    \* events in the outbox
    handled,    \* events a pass has taken to its end
    connection, \* CalendarConnection.status, "none" without a row
    execution,  \* whether the booking has a service execution
    row,        \* the booking_automation_status row of an operation
    sync,       \* the CalendarEventSyncRecord: its status and its calendar_event_id, or 0
    made,       \* how many calendar events were made for the booking, numbered from 1
    live,       \* those of them that are on the calendar
    worker,     \* what each worker has in hand
    tries,      \* attempts made at an operation, saturated at MaxAttempts
    lost,       \* those whose maker never put their id on record, or had it overwritten
    faults

automationVars == <<booking, emitted, handled, connection, execution, row, sync, made, live, worker,
                    tries, lost, faults>>

NoRow == [status |-> "none", attempts |-> 0]
Idle == [event |-> "none", todo |-> <<>>, pc |-> "idle", attempts |-> 0, new |-> FALSE,
         read |-> [status |-> "none", event |-> 0], call |-> "none", ok |-> FALSE, event_id |-> 0]

AutomationInit ==
    /\ booking = "confirmed"
    /\ emitted = {"BOOKING_CONFIRMED"}
    /\ handled = {}
    /\ connection \in {"none", "active"}
    /\ execution = FALSE
    /\ row = [o \in Operations |-> NoRow]
    /\ sync = [status |-> "none", event |-> 0]
    /\ made = 0
    /\ live = {}
    /\ worker = [w \in Workers |-> Idle]
    /\ tries = [o \in Operations |-> 0]
    /\ lost = {}
    /\ faults = 0

-----------------------------------------------------------------------------
(* What happens around the workers.                                        *)

outside == <<handled, row, sync, made, live, worker, tries, lost, faults>>

\* transition_booking, and the event it emits.
BookingMoves(to, event) ==
    /\ booking' = to
    /\ emitted' = emitted \cup {event}
    /\ UNCHANGED <<connection, execution, outside>>

Progress ==
    \/ booking = "confirmed" /\ BookingMoves("in_progress", "BOOKING_IN_PROGRESS")
    \/ booking \in {"confirmed", "in_progress"} /\ BookingMoves("completed", "BOOKING_COMPLETED")
    \/ booking \in {"confirmed", "in_progress"} /\ BookingMoves("cancelled", "BOOKING_CANCELLED")

\* A member of the business creates the execution by hand.
CreateExecutionByHand ==
    /\ ~execution /\ booking \in {"confirmed", "in_progress"}
    /\ execution' = TRUE
    /\ UNCHANGED <<booking, emitted, connection, outside>>

\* The OAuth callback, and the disconnect endpoint.
ChangeConnection(to) ==
    /\ faults < MaxFaults
    /\ faults' = faults + 1
    /\ connection' = to
    /\ UNCHANGED <<booking, emitted, execution, handled, row, sync, made, live, worker, tries, lost>>

Connect == connection # "active" /\ ChangeConnection("active")
Disconnect == connection = "active" /\ ChangeConnection("disconnected")

-----------------------------------------------------------------------------
(* Taking up work.                                                         *)

Task(operation, fn) == [op |-> operation, fn |-> fn]

\* _handle_confirmed, _handle_cancelled, _handle_completed, _handle_in_progress.
Handler(event) ==
    CASE event = "BOOKING_CONFIRMED" ->
            <<Task("CALENDAR_SYNC", "sync"), Task("SERVICE_EXECUTION", "create")>>
      [] event = "BOOKING_CANCELLED" ->
            <<Task("CALENDAR_SYNC", "cancel"), Task("SERVICE_EXECUTION", "not_applicable")>>
      [] event = "BOOKING_COMPLETED" -> <<Task("PAYMENT_PREP", "prep")>>
      [] event = "BOOKING_IN_PROGRESS" -> <<Task("SERVICE_EXECUTION", "ensure")>>

ProcessEvent(w, event) ==
    /\ worker[w].pc = "idle"
    /\ event \in emitted \ handled
    /\ worker' = [worker EXCEPT ![w] = [Idle EXCEPT !.pc = "next", !.event = event, !.todo = Handler(event)]]
    /\ UNCHANGED <<booking, emitted, handled, connection, execution, row, sync, made, live, tries, lost, faults>>

\* _retry_operation: whatever the event was, the creating variant runs.
RetryTask(operation) ==
    CASE operation = "CALENDAR_SYNC" -> Task(operation, "sync")
      [] operation = "SERVICE_EXECUTION" -> Task(operation, "create")
      [] operation = "PAYMENT_PREP" -> Task(operation, "prep")

Retryable(o) == row[o].status = "FAILED" /\ row[o].attempts < MaxAttempts

\* retry_failed_operations, one row of the batch it read.
Retry(w, o) ==
    /\ worker[w].pc = "idle"
    /\ Retryable(o)
    /\ worker' = [worker EXCEPT ![w] = [Idle EXCEPT !.pc = "next", !.event = "retry", !.todo = <<RetryTask(o)>>]]
    /\ UNCHANGED <<booking, emitted, handled, connection, execution, row, sync, made, live, tries, lost, faults>>

-----------------------------------------------------------------------------
(* One operation: its reads.                                               *)

Current(w) == Head(worker[w].todo)

\* A mutant: the record's event id is not looked at.
CalendarCall_AlwaysCreates(fn) ==
    IF connection # "active" THEN "none"
    ELSE IF fn = "cancel" \/ booking = "cancelled" THEN IF sync.event # 0 THEN "delete" ELSE "none"
    ELSE "create"

\* The call an operation leads to: of the calendar service for a sync, and
\* otherwise what it decides about the execution.
CalendarCall(fn) ==
    IF connection # "active" THEN "none"
    ELSE IF fn = "cancel" \/ booking = "cancelled" THEN IF sync.event # 0 THEN "delete" ELSE "none"
    ELSE IF sync.event # 0 THEN "update" ELSE "create"

CreateFromBooking == IF ~execution /\ booking \in {"confirmed", "in_progress"} THEN "insert" ELSE "refused"

Decide(step) ==
    CASE step.fn \in {"sync", "cancel"} -> CalendarCall(step.fn)
      [] step.fn = "create" -> CreateFromBooking
      [] step.fn = "ensure" -> IF execution THEN "none" ELSE CreateFromBooking
      [] step.fn \in {"not_applicable", "prep"} -> "none"

\* The row a worker has inserted and not committed blocks another insert.
Inserting(o) == \E v \in Workers : worker[v].new /\ worker[v].pc # "next" /\ Current(v).op = o

Settled(o) == row[o].status \in {"SUCCESS", "NOT_APPLICABLE"}

\* On to the next operation.  After the last one the event is done with: the
\* outbox will not deliver it again.
Advance(w) ==
    LET rest == Tail(worker[w].todo)
    IN  /\ worker' = [worker EXCEPT ![w] = IF rest = <<>> THEN Idle
              ELSE [Idle EXCEPT !.pc = "next", !.event = worker[w].event, !.todo = rest]]
        /\ handled' = IF rest = <<>> /\ worker[w].event # "retry"
                      THEN handled \cup {worker[w].event} ELSE handled

\* _get_or_create_status and the early return of _run_operation.
SkipDone(w) ==
    /\ worker[w].pc = "next"
    /\ worker[w].event # "retry"
    /\ Settled(Current(w).op)
    /\ Advance(w)
    /\ UNCHANGED <<booking, emitted, connection, execution, row, sync, made, live, tries, lost, faults>>

RunOperation(w) ==
    LET o == Current(w).op
        call == Decide(Current(w))
    IN  /\ worker[w].pc = "next"
        /\ worker[w].event # "retry" => ~Settled(o)
        /\ row[o].status = "none" => ~Inserting(o)
        /\ worker' = [worker EXCEPT ![w] = [@ EXCEPT
              !.pc = IF call \in {"create", "update", "delete"} THEN "call" ELSE "write",
              !.attempts = row[o].attempts,
              !.new = row[o].status = "none",
              !.read = sync,
              !.call = call,
              !.ok = call # "refused"]]
        /\ tries' = [tries EXCEPT ![o] = IF @ < MaxAttempts THEN @ + 1 ELSE @]
        /\ UNCHANGED <<booking, emitted, handled, connection, execution, row, sync, made, live, lost, faults>>

\* The insert waited for another worker's and lost: process_event logs it.
RunCollides(w) ==
    /\ worker[w].pc = "next"
    /\ worker[w].event # "retry"
    /\ row[Current(w).op].status = "none" /\ Inserting(Current(w).op)
    /\ worker' = [worker EXCEPT ![w] = Idle]
    /\ UNCHANGED <<booking, emitted, handled, connection, execution, row, sync, made, live, tries, lost, faults>>

-----------------------------------------------------------------------------
(* The calendar.                                                           *)

\* create_event sends the booking's iCalUID and no event id: a second creation
\* is refused or makes a second event.  A call that times out may have been
\* carried out.
CalendarAnswers(w) ==
    /\ worker[w].pc = "call"
    /\ \E ok, done \in BOOLEAN :
        LET new == IF worker[w].call = "create" /\ done THEN made + 1 ELSE 0
        IN  /\ ok => done
            /\ new <= MaxEvents
            /\ UidUnique /\ live # {} => new = 0
            /\ worker' = [worker EXCEPT ![w] = [@ EXCEPT
                  !.pc = "write", !.ok = ok, !.event_id = IF ok THEN new ELSE 0]]
            /\ made' = IF new # 0 THEN new ELSE made
            /\ live' = IF worker[w].call = "delete" /\ done THEN live \ {worker[w].read.event}
                       ELSE live \cup ({new} \ {0})
            /\ lost' = IF ok THEN lost ELSE lost \cup ({new} \ {0})
    /\ UNCHANGED <<booking, emitted, handled, connection, execution, row, sync, tries, faults>>

-----------------------------------------------------------------------------
(* One operation: its writes and their commit.                             *)

\* What the calendar service leaves in the sync record.  A column that
\* already had the value when the record was read is not written.
SyncAfter(w) ==
    LET call == worker[w].call
        ok == worker[w].ok
        was == worker[w].read.status
    IN  CASE call = "create" /\ ok -> [status |-> "SYNCED", event |-> worker[w].event_id]
          [] call = "create" /\ ~ok /\ was = "none" -> [status |-> "FAILED", event |-> 0]
          [] call = "update" /\ ok /\ was # "SYNCED" -> [sync EXCEPT !.status = "SYNCED"]
          [] call = "delete" /\ ok /\ was # "CANCELLED" -> [sync EXCEPT !.status = "CANCELLED"]
          [] OTHER -> sync

\* The sync record is unique per booking, and so is the execution.
Collides(w) ==
    \/ worker[w].call = "create" /\ worker[w].read.status = "none" /\ sync.status # "none"
    \/ worker[w].call = "insert" /\ execution

\* When operation_fn raises.  A failed update, and a failed delete in a
\* retry, do not: the record still says what it said.
Failed(w) ==
    \/ worker[w].call = "refused"
    \/ worker[w].call = "create" /\ ~worker[w].ok
    \/ /\ worker[w].call = "delete" /\ ~worker[w].ok
       /\ Current(w).fn = "cancel" /\ worker[w].read.status # "CANCELLED"

\* Mutants: the limit is reached one attempt early, and one late.
RowAfterFailure_Early(w) ==
    LET n == worker[w].attempts + 1
    IN  [status |-> IF n + 1 >= MaxAttempts THEN "EXHAUSTED" ELSE "FAILED", attempts |-> n]

RowAfterFailure_Late(w) ==
    LET n == IF worker[w].attempts < MaxAttempts THEN worker[w].attempts + 1 ELSE MaxAttempts
    IN  [status |-> IF worker[w].attempts + 1 > MaxAttempts THEN "EXHAUSTED" ELSE "FAILED", attempts |-> n]

\* attempt_count is written from the row as it was read.
RowAfterFailure(w) ==
    LET n == IF worker[w].attempts < MaxAttempts THEN worker[w].attempts + 1 ELSE MaxAttempts
    IN  [status |-> IF n >= MaxAttempts THEN "EXHAUSTED" ELSE "FAILED", attempts |-> n]

Record(w) ==
    /\ worker[w].pc = "write"
    /\ ~Collides(w)
    /\ sync' = SyncAfter(w)
    /\ execution' = (execution \/ worker[w].call = "insert")
    /\ row' = [row EXCEPT ![Current(w).op] =
          IF Failed(w) THEN RowAfterFailure(w) ELSE [@ EXCEPT !.status = "SUCCESS"]]
    /\ Advance(w)
    /\ lost' = IF worker[w].event_id # 0 /\ worker[w].read.event = 0
               THEN lost \cup ({sync.event} \ {0}) ELSE lost
    /\ UNCHANGED <<booking, emitted, connection, made, live, tries, faults>>

\* The unique index refuses the write, the status row cannot be marked in a
\* session that failed, and the pass is rolled back.
RecordCollides(w) ==
    /\ worker[w].pc = "write"
    /\ Collides(w)
    /\ worker' = [worker EXCEPT ![w] = Idle]
    /\ lost' = lost \cup ({worker[w].event_id} \ {0})
    /\ UNCHANGED <<booking, emitted, handled, connection, execution, row, sync, made, live, tries, faults>>

Crash(w) ==
    /\ worker[w].pc # "idle" /\ faults < MaxFaults
    /\ faults' = faults + 1
    /\ worker' = [worker EXCEPT ![w] = Idle]
    /\ lost' = lost \cup ({worker[w].event_id} \ {0})
    /\ UNCHANGED <<booking, emitted, handled, connection, execution, row, sync, made, live, tries>>

-----------------------------------------------------------------------------

Works(w) ==
    \/ SkipDone(w) \/ RunOperation(w) \/ RunCollides(w) \/ CalendarAnswers(w)
    \/ Record(w) \/ RecordCollides(w)

TakesUp(w) ==
    \/ \E event \in Events : ProcessEvent(w, event)
    \/ \E o \in Operations : Retry(w, o)

AutomationNext ==
    \/ Progress \/ CreateExecutionByHand \/ Connect \/ Disconnect
    \/ \E w \in Workers : TakesUp(w) \/ Works(w) \/ Crash(w)

\* A worker that is in the middle of something goes on with it, and its loop
\* comes back to the outbox and to the failed rows.
Fairness ==
    \A w \in Workers : WF_automationVars(Works(w)) /\ WF_automationVars(TakesUp(w))

AutomationSpec == AutomationInit /\ [][AutomationNext]_automationVars /\ Fairness

-----------------------------------------------------------------------------
(* Properties.                                                             *)

\* An operation is given up only after MAX_ATTEMPTS attempts were made,
\* although workers overwrite each other's counts and start over.
TriedBeforeExhausted ==
    \A o \in Operations :
        /\ row[o].status = "EXHAUSTED" => tries[o] = MaxAttempts
        /\ row[o].attempts <= tries[o]

\* Every event on the business's calendar is the recorded one, or about to be,
\* except those whose own creation was lost to a timeout, a crash, a collision
\* or the record of another worker: no other step leaves an event behind.
NoStrayEvent == live \subseteq lost \cup {sync.event} \cup {worker[w].event_id : w \in Workers}

\* What _booking_event_id promises: a creation that is tried again can end with
\* the id of the event that is on the calendar already.
RetryFindsEvent ==
    \A w \in Workers :
        worker[w].pc = "call" /\ worker[w].call = "create" /\ live # {}
            => ENABLED (CalendarAnswers(w) /\ worker'[w].event_id \in live)

\* Every failed operation is retried until it succeeds or is given up, and
\* stale counts of two workers cannot keep one failing for ever.
FailuresEnd == <>[](\A o \in Operations : row[o].status # "FAILED")

=============================================================================

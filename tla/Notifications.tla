---------------------------- MODULE Notifications ----------------------------
(***************************************************************************)
(* Delivery of the notifications of one user on one channel                *)
(* (NotificationsService in                                                *)
(* src/src/modules/notifications/notifications.service.ts): direct,        *)
(* batched and scheduled sends, the retry loop, preferences and read marks.*)
(* A delivery keeps the row it was given and saves all of it after every   *)
(* attempt.                                                                *)
(***************************************************************************)
EXTENDS Integers, Sequences, FiniteSets

CONSTANTS
    Couriers,       \* deliveries that may be in flight together
    MAX_RETRIES,    \* attempts of a delivery, 3 in the code
    MaxNotes,       \* bound on notifications
    MaxNoteFaults   \* bound on database errors and crashes

VARIABLES
    notes,          \* the rows
    preference,     \* the user's preference for the channel
    couriers,       \* the deliveries in flight: note, copy, attempt and what is next
    taken,          \* per notification: how often the provider has taken it
    noteFaults,
    notesCrossed    \* history: two deliveries had the same notification, or a
                    \* read mark was set during one

vars == <<notes, preference, couriers, taken, noteFaults, notesCrossed>>

DeliveryStatus == {"pending", "scheduled", "retrying", "sent", "failed"}
Note == [status : DeliveryStatus, retries : 0 .. MAX_RETRIES, read : BOOLEAN]
Preference == {"enabled", "unsubscribed", "disabled"}

TypeOK ==
    /\ notes \in Seq(Note) /\ Len(notes) <= MaxNotes
    /\ preference \in Preference
    /\ taken \in [1 .. MaxNotes -> Nat]

NoDelivery == [pc |-> "none"]
Delivering(n) == \E k \in Couriers : couriers[k].pc # "none" /\ couriers[k].note = n

\* deliverWithRetry begins; a batched delivery saves no retry.
Deliver(n, copy, batch) == [pc |-> "attempt", note |-> n, copy |-> copy, attempt |-> 1, batch |-> batch]

Init ==
    /\ notes = <<>>
    /\ preference = "enabled"
    /\ couriers = [k \in Couriers |-> NoDelivery]
    /\ taken = [n \in 1 .. MaxNotes |-> 0]
    /\ noteFaults = 0 /\ notesCrossed = FALSE

\* send: a disabled channel or an unsubscribed type stores nothing; a
\* notification for later is stored as SCHEDULED.
Send(k, later) ==
    LET row == [status |-> IF later THEN "scheduled" ELSE "pending", retries |-> 0, read |-> FALSE] IN
    /\ couriers[k].pc = "none" /\ Len(notes) < MaxNotes
    /\ preference = "enabled"
    /\ notes' = Append(notes, row)
    /\ couriers' = IF later THEN couriers
                   ELSE [couriers EXCEPT ![k] = Deliver(Len(notes) + 1, row, FALSE)]
    /\ UNCHANGED <<preference, taken, noteFaults, notesCrossed>>

\* sendBatch, for one recipient: the row is stored either way, FAILED when
\* the preference forbids the delivery.
SendBatch(k) ==
    LET row == [status |-> IF preference = "enabled" THEN "pending" ELSE "failed",
                retries |-> 0, read |-> FALSE]
    IN
    /\ couriers[k].pc = "none" /\ Len(notes) < MaxNotes
    /\ notes' = Append(notes, row)
    /\ couriers' = IF preference # "enabled" THEN couriers
                   ELSE [couriers EXCEPT ![k] = Deliver(Len(notes) + 1, row, TRUE)]
    /\ UNCHANGED <<preference, taken, noteFaults, notesCrossed>>

\* processScheduledNotifications: a due row is delivered as it was read.  The
\* preference is not looked at again and the row is not claimed first.
ProcessScheduled(k, n) ==
    /\ couriers[k].pc = "none"
    /\ notes[n].status = "scheduled"
    /\ couriers' = [couriers EXCEPT ![k] = Deliver(n, notes[n], FALSE)]
    /\ notesCrossed' = (notesCrossed \/ Delivering(n))
    /\ UNCHANGED <<notes, preference, taken, noteFaults>>

\* provider.send returns.
Accept(k) ==
    /\ couriers[k].pc = "attempt"
    /\ taken' = [taken EXCEPT ![couriers[k].note] = @ + 1]
    /\ couriers' = [couriers EXCEPT ![k].pc = "accepted"]
    /\ UNCHANGED <<notes, preference, noteFaults, notesCrossed>>

\* Mutant: the loop goes on after a success.
SaveSentAndGoOn(k) ==
    LET d == couriers[k]
        row == [d.copy EXCEPT !.status = "sent", !.retries = IF d.batch THEN @ ELSE d.attempt - 1]
    IN
    /\ d.pc = "accepted"
    /\ notes' = [notes EXCEPT ![d.note] = row]
    /\ couriers' = [couriers EXCEPT ![k] =
          IF d.attempt = MAX_RETRIES THEN NoDelivery
          ELSE [d EXCEPT !.pc = "attempt", !.attempt = @ + 1, !.copy = row]]
    /\ UNCHANGED <<preference, taken, noteFaults, notesCrossed>>

\* The row is saved as SENT and the loop is left.
SaveSent(k) ==
    LET d == couriers[k] IN
    /\ d.pc = "accepted"
    /\ notes' = [notes EXCEPT ![d.note] =
          [d.copy EXCEPT !.status = "sent", !.retries = IF d.batch THEN @ ELSE d.attempt - 1]]
    /\ couriers' = [couriers EXCEPT ![k] = NoDelivery]
    /\ UNCHANGED <<preference, taken, noteFaults, notesCrossed>>

\* The catch block: RETRYING and another attempt after a delay, FAILED after
\* the last one.
Catch(k) ==
    LET d == couriers[k]
        last == d.attempt = MAX_RETRIES
        row == [d.copy EXCEPT !.retries = d.attempt, !.status = IF last THEN "failed" ELSE IF d.batch THEN @ ELSE "retrying"]
    IN
    /\ notes' = [notes EXCEPT ![d.note] = IF last \/ ~d.batch THEN row ELSE @]
    /\ couriers' = [couriers EXCEPT ![k] =
          IF last THEN NoDelivery ELSE [d EXCEPT !.pc = "attempt", !.attempt = @ + 1, !.copy = row]]

\* provider.send throws.
Reject(k) ==
    /\ couriers[k].pc = "attempt"
    /\ Catch(k)
    /\ UNCHANGED <<preference, taken, noteFaults, notesCrossed>>

\* Saving SENT throws: the catch block treats it as a failed attempt.
SaveSentFails(k) ==
    /\ couriers[k].pc = "accepted" /\ noteFaults < MaxNoteFaults
    /\ Catch(k)
    /\ noteFaults' = noteFaults + 1
    /\ UNCHANGED <<preference, taken, notesCrossed>>

\* The save in the catch block throws: the delivery is given up as it is.
CatchFails(k) ==
    /\ couriers[k].pc = "attempt" /\ noteFaults < MaxNoteFaults
    /\ couriers' = [couriers EXCEPT ![k] = NoDelivery]
    /\ noteFaults' = noteFaults + 1
    /\ UNCHANGED <<notes, preference, taken, notesCrossed>>

\* markAsRead updates the one column.
MarkAsRead(n) ==
    /\ ~notes[n].read
    /\ notes' = [notes EXCEPT ![n].read = TRUE]
    /\ notesCrossed' = (notesCrossed \/ Delivering(n))
    /\ UNCHANGED <<preference, couriers, taken, noteFaults>>

UpdateUserPreference(p) ==
    /\ p # preference
    /\ preference' = p
    /\ UNCHANGED <<notes, couriers, taken, noteFaults, notesCrossed>>

\* The process ends: deliveries are not resumed by the next one.
Crash ==
    /\ noteFaults < MaxNoteFaults
    /\ couriers' = [k \in Couriers |-> NoDelivery]
    /\ noteFaults' = noteFaults + 1
    /\ UNCHANGED <<notes, preference, taken, notesCrossed>>

Step(k) == Accept(k) \/ Reject(k) \/ SaveSent(k)

Next ==
    \/ \E k \in Couriers :
        \/ \E later \in BOOLEAN : Send(k, later)
        \/ SendBatch(k)
        \/ \E n \in DOMAIN notes : ProcessScheduled(k, n)
        \/ Accept(k) \/ Reject(k) \/ SaveSent(k)
        \/ SaveSentFails(k) \/ CatchFails(k)
    \/ \E n \in DOMAIN notes : MarkAsRead(n)
    \/ \E p \in Preference : UpdateUserPreference(p)
    \/ Crash

Spec == Init /\ [][Next]_vars

-----------------------------------------------------------------------------
\* A notification stored as SENT was taken by the provider, whatever
\* deliveries overlap; and without database errors, crashes or two deliveries
\* of one notification, the provider takes it at most once and not at all when
\* it is stored as FAILED (deliverWithRetry, sendBatch).
OutcomeIsTrue ==
    \A n \in DOMAIN notes :
        /\ notes[n].status = "sent" => taken[n] > 0
        /\ (noteFaults = 0 /\ ~notesCrossed) =>
              /\ taken[n] <= 1
              /\ notes[n].status = "failed" => taken[n] = 0

Has(n, statuses) == n \in DOMAIN notes /\ notes[n].status \in statuses

\* Without faults, every notification whose delivery has begun ends as SENT or
\* FAILED: nothing is left PENDING or RETRYING.
NotesSettle ==
    \A n \in 1 .. MaxNotes :
        Has(n, {"pending", "retrying"}) ~> (Has(n, {"sent", "failed"}) \/ noteFaults > 0)
=============================================================================

--------------------------- MODULE MCCalendarSync ---------------------------
(***************************************************************************)
(* A meeting is created with one attendee whose address is known and one   *)
(* whose address is not; the next batch cancels it, at its start because   *)
(* the cancellation has no update time, and sends the first revision once  *)
(* more.  Two processes sync the calendar; a third appends an event of     *)
(* another application.  The second batch may come an instant later.       *)
(***************************************************************************)
EXTENDS CalendarSync

Resource(id, updated, status, content, attendees) ==
  [id |-> id, updated |-> updated, start |-> 9, status |-> status,
   content |-> content, attendees |-> attendees]

Standup(updated, status) ==
  Resource("standup", updated, status, "10am",
           <<[email |-> "bob", response |-> "accepted"],
             [email |-> NoBlob, response |-> "accepted"]>>)

MCSyncBatches ==
  << <<Standup(1, "confirmed")>>,
     <<Standup(NoBlob, "cancelled"), Standup(1, "confirmed")>> >>

Foreign == [entity |-> "message", op |-> "upsert_entity", validAt |-> 1,
            payload |-> NoBlob, provenance |-> NoBlob, target |-> NoBlob]

MCEvents == Calendar \cup {Foreign}
MCBulk   == {}

\* Bound: the clock moves between the two batches, while no process is in a pass
\* and the first batch is consumed.  Steps of the processes are never constrained.
ClockMovesBetweenBatches ==
  now' # now =>
    /\ published = 1
    /\ cursor = 1
    /\ \A w \in Writers : At(w, "idle")

\* Bound: the other application's process makes its passes while the first batch is
\* synced, not the second.
ForeignPassesFirst ==
  published' = 2 => \A w \in Writers \ Syncers : At(w, "idle")'

=============================================================================

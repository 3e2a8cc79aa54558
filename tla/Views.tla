------------------------------- MODULE Views -------------------------------
(***************************************************************************)
(* The time travel views over the log: the history of one entity, the      *)
(* frames that walk through it, and the activity of a workspace in a       *)
(* window.  They read rows in the order of the fold but fold them by       *)
(* themselves: a frame merges the payload of every row, edges and          *)
(* tombstones included.                                                    *)
(***************************************************************************)
EXTENDS Snapshot

Seqs == INSTANCE SequencesExt

\* ORDER BY valid_at, seq, as Precedes has it.
InOrder(R) == Seqs!SetToSortSeq(R, Precedes)

\* entity_history: what touched the entity, as it was known at ingest.
EntityHistory(R, entity, ingest) ==
  LET touching == {r \in R : r.event.entity = entity /\ r.stamp <= ingest}
  IN  [i \in 1 .. Cardinality(touching) |-> InOrder(touching)[i].event]

\* The fields of a payload that say something else than what has accumulated.
Changed(full, e) ==
  Seqs!Restrict(Fields(e), {f \in DOMAIN Fields(e) : Get(full, f, NoBlob) # Fields(e)[f]})

\* entity_timeline.
EntityTimeline(history) ==
  LET AddFrame(frames, e) ==
        LET full == IF frames = <<>> THEN NoFields ELSE frames[Len(frames)].full
        IN  Append(frames, [valid_at |-> e.validAt, op |-> e.op,
                            changed |-> Changed(full, e), full |-> Updated(full, Fields(e))])
  IN  Seqs!FoldLeft(AddFrame, <<>>, history)

\* timeline: the rows of a window, both ends included.
Timeline(R, start, end) == InOrder({r \in R : r.event.validAt \in start .. end})

\* workspace_activity: the feed of a window.
WorkspaceActivity(R, start, end) ==
  [i \in DOMAIN Timeline(R, start, end) |->
     LET e == Timeline(R, start, end)[i].event
     IN  [valid_at |-> e.validAt, entity |-> e.entity, op |-> e.op]]

=============================================================================

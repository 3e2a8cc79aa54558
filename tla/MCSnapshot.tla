----------------------------- MODULE MCSnapshot -----------------------------
(***************************************************************************)
(* A meeting is created with an attendee, who leaves; it is cancelled and  *)
(* created again with another field at one instant, and a message of       *)
(* another application is posted.  The cancellation comes from a sync,     *)
(* with any sequence number, stamped by the wall clock or by a frozen one; *)
(* the rest is loaded in bulk, before or after, dated 1 or in part 0.      *)
(***************************************************************************)
EXTENDS Views, TLC

Meeting == [app |-> "gcal", id |-> "meeting"]
Message == [app |-> "slack", id |-> "message"]

Event(entity, op, validAt, payload, target) ==
  [entity |-> entity, op |-> op, validAt |-> validAt, payload |-> payload,
   provenance |-> NoBlob, target |-> target]

Attends == [kind |-> "attendee", to |-> "bob"]

e1 == Event(Meeting, "upsert_entity", -1, "start" :> "10am", NoBlob)
e2 == Event(Meeting, "upsert_edge", -1, NoBlob, Attends)
e3 == Event(Meeting, "delete_entity", 0, NoBlob, NoBlob)
e4 == Event(Meeting, "upsert_entity", 0, "place" :> "room", NoBlob)
e5 == Event(Meeting, "delete_edge", 0, NoBlob, Attends)
e6 == Event(Message, "append_version", -1, "start" :> "10am", NoBlob)

MCEvents == {e3}
Dated(es, ats) == [i \in 1 .. Len(es) |-> [event |-> es[i], at |-> ats[i]]]

MCBulk == {Dated(<<e1, e2, e4, e5, e6>>, ats) : ats \in {<<0, 0, 1, 0, 1>>, <<1, 1, 1, 1, 1>>}}

Point(app, valid, ingest) == [app |-> app, valid |-> valid, ingest |-> ingest]

MCCheckouts == {Point("gcal", 0, 0), Point(AllApps, Latest, Latest)}
MCDiffs     == {[app |-> AllApps, before |-> -1, after |-> 0]}

-----------------------------------------------------------------------------
\* The same meeting as the calendar's own sync logs it: an attendee's edge has a payload.
Answered == [e2 EXCEPT !.payload = "responseStatus" :> "accepted"]
Moved    == [e1 EXCEPT !.payload = "start" :> "11am"]

Histories == UNION {[1 .. n -> {e1, e2, e3, e4, e5, Moved, Answered}] : n \in 0 .. 4}

StateAfter(history) == Seqs!FoldLeft(Apply, NewState, history)

\* The walk tells the fields of the fold at each step, as long as no edge has a payload:
\* of a cancelled meeting too, which the fold no longer lists.
ASSUME FramesFollowTheFold ==
  \A history \in Histories :
    LET frames == EntityTimeline(history)
    IN  \A n \in DOMAIN frames :
          /\ Answered \notin Seqs!ToSet(SubSeq(history, 1, n)) =>
               frames[n].full = StateAfter(SubSeq(history, 1, n)).payload
          /\ n > 1 => frames[n].full = Updated(frames[n - 1].full, frames[n].changed)

\* With an answered invitation the walk shows a field the meeting never has.
ASSUME FrameOfAnEdge ==
  LET history == <<e1, Answered>>
  IN  /\ DOMAIN EntityTimeline(history)[2].full = {"start", "responseStatus"}
      /\ DOMAIN StateAfter(history).payload = {"start"}

\* The feed of adjoining windows is the feed of both together, and an entity's history
\* is its part of the feed.
ASSUME FeedsAdd ==
  LET Row(e, seq) == [event |-> e, seq |-> seq, stamp |-> 0]
      R == {Row(e1, 1), Row(e2, 2), Row(e6, 3), Row(e3, 4), Row(e4, 5)}
  IN  /\ WorkspaceActivity(R, -1, 0) = WorkspaceActivity(R, -1, -1) \o WorkspaceActivity(R, 0, 0)
      /\ Len(SelectSeq(WorkspaceActivity(R, -1, 0), LAMBDA f : f.entity = Meeting))
           = Len(EntityHistory(R, Meeting, 0))
      /\ EntityHistory(R, Meeting, 0) = <<e1, e2, e3, e4>>

=============================================================================

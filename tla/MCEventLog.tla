----------------------------- MODULE MCEventLog -----------------------------
(***************************************************************************)
(* Two processes and three events of one entity.  e1 and e2 took effect at *)
(* the same instant, as the two profiles of a Slack user do; e3 later.     *)
(* The bulk load brings an event ingested at 0 and one ingested at 1, and  *)
(* a frozen clock stands at 0, while the wall clock goes on to 2.          *)
(***************************************************************************)
EXTENDS EventLog, TLC

Event(op, validAt, payload) ==
  [entity |-> "user", op |-> op, validAt |-> validAt, payload |-> payload,
   provenance |-> "source", target |-> NoBlob]

e1 == Event("upsert", 1, "A")
e2 == Event("upsert", 1, "B")
e3 == Event("delete", 2, NoBlob)

MCEvents == {e1, e2, e3}
MCBulk   == {<< [event |-> e1, at |-> 0], [event |-> e3, at |-> 1] >>}

Processes == Permutations(Writers)

=============================================================================

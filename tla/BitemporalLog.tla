--------------------------- MODULE BitemporalLog ---------------------------
(***************************************************************************)
(* What the event store promises its readers, with no blob and no program  *)
(* counter: a growing set of rows, each an event, the instant it was       *)
(* learned and its sequence number.  A pass stamps everything it learns    *)
(* with one instant, which the clock it was given showed when it began, so *)
(* a view "as of tau" may still grow while a pass stamped at or before tau *)
(* is open.  Once no such pass is open and the wall clock has moved past   *)
(* tau the view is settled: it changes no more, until someone goes back    *)
(* behind tau, with a clock that stands there or a bulk load dated so.     *)
(***************************************************************************)
EXTENDS Integers, Sequences

CONSTANTS
  Writers,  \* processes that run syncs against one database
  Events,   \* canonical events; an event is its identity (AppEvent.event_id)
  Bulk,     \* the sequences append_many may add: [event, at], at being ingested_at
  Given,    \* instants at which frozen clocks stand or that callers pass
  Closed,   \* the value of open[w] while w runs no pass
  MaxTime   \* bound on the clock

ASSUME InstantsAssumption ==
  /\ Given \subseteq Nat
  /\ \A es \in Bulk : \A i \in 1 .. Len(es) : es[i].at \in Nat

VARIABLES
  rows,     \* app_events: set of [event, stamp, seq]
  open,     \* open[w]: the stamp of the pass w is running, or Closed
  now       \* the wall clock, in the milliseconds to_iso keeps

absVars == <<rows, open, now>>

Learned == {r.event : r \in rows}

\* COALESCE(MAX(seq), 0).
Numbers == {r.seq : r \in rows}
Highest == IF rows = {} THEN 0 ELSE CHOOSE m \in Numbers : \A n \in Numbers : n <= m

\* The rows a reader at ingestion instant tau may use (store.py, iter_events).
Known(tau) == {r \in rows : r.stamp <= tau}

\* No pass can still add a row stamped at or before tau.
Settled(tau) ==
  /\ tau < now
  /\ \A w \in Writers : open[w] # Closed => open[w] > tau

AbsInit ==
  /\ rows = {}
  /\ open = [w \in Writers |-> Closed]
  /\ now = 0

Advance ==
  /\ now < MaxTime
  /\ now' = now + 1
  /\ UNCHANGED <<rows, open>>

BeginAt(w) ==
  /\ open[w] = Closed
  /\ \E ts \in {now} \cup Given : open' = [open EXCEPT ![w] = ts]
  /\ UNCHANGED <<rows, now>>

\* An event is learned once: learning it again is a no-op, so its stamp stays the
\* first one.  The sequence number follows the highest one of an earlier moment.
Learn(w) ==
  /\ open[w] # Closed
  /\ \E e \in Events \ Learned : \E n \in 1 .. Highest + 1 :
       rows' = rows \cup {[event |-> e, stamp |-> open[w], seq |-> n]}
  /\ UNCHANGED <<open, now>>

\* A bulk load learns several events at once, each stamped as it came.
LearnMany ==
  /\ \E es \in Bulk :
       /\ \A i \in 1 .. Len(es) : es[i].event \notin Learned
       /\ rows' = rows \cup {[event |-> es[i].event, stamp |-> es[i].at,
                                seq |-> Highest + i] : i \in 1 .. Len(es)}
  /\ UNCHANGED <<open, now>>

EndAt(w) ==
  /\ open[w] # Closed
  /\ open' = [open EXCEPT ![w] = Closed]
  /\ UNCHANGED <<rows, now>>

AbsNext ==
  \/ Advance
  \/ LearnMany
  \/ \E w \in Writers : BeginAt(w) \/ Learn(w) \/ EndAt(w)

AbsSpec == AbsInit /\ [][AbsNext]_absVars

-----------------------------------------------------------------------------
\* A step that goes back behind tau: a pass begins at or before it, or a bulk load
\* brings a row dated so.
Rewrites(tau) ==
  \/ \E w \in Writers : open[w] = Closed /\ open'[w] # Closed /\ open'[w] <= tau
  \/ LearnMany /\ \E r \in rows' \ rows : r.stamp <= tau

\* A settled view stays settled and keeps exactly its rows, until someone goes back
\* behind it: a backtest "as of tau" reads the same history whenever it is rerun in
\* between, whatever passes at later instants append.
SettledIsFinal ==
  [][\A tau \in Nat : Settled(tau) /\ ~ Rewrites(tau) =>
                       Settled(tau)' /\ Known(tau)' = Known(tau)]_absVars

=============================================================================

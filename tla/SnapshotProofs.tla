--------------------------- MODULE SnapshotProofs ---------------------------
(***************************************************************************)
(* Proofs about Snapshot, for any takers, points, diffs and any log.       *)
(***************************************************************************)
EXTENDS Snapshot, TLAPS

\* First the abstract log, which the snapshots are taken of: a settled view is final
\* until someone goes back behind it.
AbsTypeOK ==
  /\ now \in Nat
  /\ \A r \in rows : r.stamp \in Nat
  /\ open \in [Writers -> Nat \cup {Closed}]

\* Every step keeps the types.
LEMMA AbsTypeStep ==
  AbsTypeOK /\ [AbsNext]_absVars => AbsTypeOK'
<1> SUFFICES ASSUME AbsTypeOK, [AbsNext]_absVars
             PROVE  AbsTypeOK'
  OBVIOUS
<1> USE DEF AbsTypeOK
<1>1. CASE Advance
  BY <1>1 DEF Advance
<1>2. CASE LearnMany
  BY <1>2, InstantsAssumption DEF LearnMany
<1>3. ASSUME NEW w \in Writers, BeginAt(w) \/ Learn(w) \/ EndAt(w)
      PROVE  AbsTypeOK'
  BY <1>3, InstantsAssumption DEF BeginAt, Learn, EndAt
<1>4. CASE UNCHANGED absVars
  BY <1>4 DEF absVars
<1> QED
  BY <1>1, <1>2, <1>3, <1>4 DEF AbsNext

\* Every reachable state is well typed.
LEMMA AbsTypesKept ==
  AbsSpec => []AbsTypeOK
<1>1. AbsInit => AbsTypeOK
  BY DEF AbsInit, AbsTypeOK
<1> QED
  BY <1>1, AbsTypeStep, PTL DEF AbsSpec

\* No step but one that goes back behind tau adds a row to a settled view or unsettles
\* it: every pass under way is stamped later.
LEMMA SettledStep ==
  ASSUME AbsTypeOK, [AbsNext]_absVars, NEW tau \in Nat, Settled(tau), ~ Rewrites(tau)
  PROVE  Settled(tau)' /\ Known(tau)' = Known(tau)
<1> USE DEF AbsTypeOK, Settled, Known
<1>1. CASE Advance
  BY <1>1 DEF Advance
<1>2. CASE LearnMany
  <2>1. \A r \in rows' \ rows : ~ (r.stamp <= tau)
    BY <1>2 DEF Rewrites
  <2>2. rows \subseteq rows' /\ UNCHANGED <<open, now>>
    BY <1>2 DEF LearnMany
  <2> QED
    BY <2>1, <2>2
<1>3. ASSUME NEW w \in Writers, BeginAt(w)
      PROVE  Settled(tau)' /\ Known(tau)' = Known(tau)
  <2>1. PICK ts \in {now} \cup Given : open' = [open EXCEPT ![w] = ts]
    BY <1>3 DEF BeginAt
  <2>2. open[w] = Closed /\ open'[w] = ts /\ rows' = rows /\ now' = now
    BY <1>3, <2>1 DEF BeginAt
  <2>3. ts = Closed \/ ts > tau
    BY <2>1, <2>2, InstantsAssumption DEF Rewrites
  <2> QED
    BY <2>1, <2>2, <2>3
<1>4. ASSUME NEW w \in Writers, Learn(w)
      PROVE  Settled(tau)' /\ Known(tau)' = Known(tau)
  <2>1. PICK e \in Events, n \in 1 .. Highest + 1 :
          rows' = rows \cup {[event |-> e, stamp |-> open[w], seq |-> n]}
    BY <1>4 DEF Learn
  <2>2. open[w] \in Nat /\ open[w] > tau
    BY <1>4 DEF Learn
  <2> QED
    BY <1>4, <2>1, <2>2 DEF Learn
<1>5. ASSUME NEW w \in Writers, EndAt(w)
      PROVE  Settled(tau)' /\ Known(tau)' = Known(tau)
  BY <1>5 DEF EndAt
<1>6. CASE UNCHANGED absVars
  BY <1>6 DEF absVars
<1> QED
  BY <1>1, <1>2, <1>3, <1>4, <1>5, <1>6 DEF AbsNext

\* A reader of a settled view, whenever it comes back, finds the same rows, unless
\* someone went back behind the view in between.
THEOREM SettledViewsAreFinal == AbsSpec => SettledIsFinal
<1>1. AbsTypeOK /\ [AbsNext]_absVars =>
        [\A tau \in Nat : Settled(tau) /\ ~ Rewrites(tau) =>
                           Settled(tau)' /\ Known(tau)' = Known(tau)]_absVars
  BY SettledStep
<1> QED
  BY <1>1, AbsTypesKept, PTL DEF AbsSpec, SettledIsFinal

-----------------------------------------------------------------------------
\* The shape of an EntityState: three fields, two of them functions.
IsState(x) ==
  /\ x = [payload |-> x.payload, edges |-> x.edges, deleted |-> x.deleted]
  /\ x.payload = [f \in DOMAIN x.payload |-> x.payload[f]]
  /\ x.edges = [kind \in DOMAIN x.edges |-> x.edges[kind]]
  /\ x.deleted \in BOOLEAN

AreStates(known) == \A k \in DOMAIN known : IsState(known[k])

-----------------------------------------------------------------------------
(* The operators of the fold.                                              *)

\* EntityState() has the shape of a state.
LEMMA NewStateIsState == IsState(NewState)
BY DEF IsState, NewState, NoFields

\* _apply returns a state, whatever the event.
LEMMA ApplyIsState ==
  ASSUME NEW x, IsState(x), NEW e
  PROVE  IsState(Apply(x, e))
<1>1. CASE e.op = "delete_entity"
  <2>1. Apply(x, e) = [x EXCEPT !.deleted = TRUE]
    BY <1>1 DEF Apply
  <2> QED
    BY <2>1 DEF IsState
<1>2. CASE e.op = "upsert_edge"
  <2>1. Apply(x, e) = [x EXCEPT !.edges = AddEdge(x.edges, e.target)]
    BY <1>2 DEF Apply
  <2>2. AddEdge(x.edges, e.target)
          = [kind \in DOMAIN AddEdge(x.edges, e.target) |-> AddEdge(x.edges, e.target)[kind]]
    BY DEF AddEdge
  <2> QED
    BY <2>1, <2>2 DEF IsState
<1>3. CASE e.op = "delete_edge"
  <2>1. Apply(x, e) = [x EXCEPT !.edges = DropEdge(x.edges, e.target)]
    BY <1>3 DEF Apply
  <2>2. DropEdge(x.edges, e.target)
          = [kind \in DOMAIN DropEdge(x.edges, e.target) |-> DropEdge(x.edges, e.target)[kind]]
    BY DEF DropEdge
  <2> QED
    BY <2>1, <2>2 DEF IsState
<1>4. CASE e.op \notin {"delete_entity", "upsert_edge", "delete_edge"}
  <2>1. Apply(x, e) = [x EXCEPT !.deleted = FALSE, !.payload = Updated(x.payload, Fields(e))]
    BY <1>4 DEF Apply
  <2>2. Updated(x.payload, Fields(e))
          = [f \in DOMAIN Updated(x.payload, Fields(e)) |-> Updated(x.payload, Fields(e))[f]]
    BY DEF Updated
  <2> QED
    BY <2>1, <2>2 DEF IsState
<1> QED
  BY <1>1, <1>2, <1>3, <1>4

\* A row that precedes none of X is a last row of X with it.
LEMMA LastOfJoined ==
  ASSUME NEW X, NEW r, \A q \in X : ~ Precedes(r, q)
  PROVE  r \in Last(X \cup {r})
BY DEF Last, Precedes

\* Folding r after R, none of which it precedes, keeps the payload that of the last
\* writes: an upsert is the last writer of its fields, and leaves the others alone.
LEMMA ApplyKeepsPayload ==
  ASSUME NEW x, IsState(x), NEW R, NEW r, \A q \in R : ~ Precedes(r, q),
         PayloadIsLast(x.payload, R),
         r.event.op \in Upserts \cup EdgeOps \cup {"delete_entity"}
  PROVE  PayloadIsLast(Apply(x, r.event).payload, R \cup {r})
<1>1. CASE r.event.op \in Upserts
  <2> DEFINE new == Fields(r.event)
             payload == Updated(x.payload, new)
  <2>1. Apply(x, r.event).payload = payload
    BY <1>1 DEF Apply, Upserts, IsState
  <2>2. Merges(R \cup {r}) = Merges(R) \cup {r}
    BY <1>1 DEF Merges
  <2>3. DOMAIN payload = DOMAIN new \cup DOMAIN x.payload
    BY DEF Updated
  <2>4. DOMAIN payload = UNION {DOMAIN Fields(q.event) : q \in Merges(R \cup {r})}
    BY <2>2, <2>3 DEF PayloadIsLast
  <2>5. ASSUME NEW f \in DOMAIN payload
        PROVE  \E q \in Last(Writes(R \cup {r}, f)) : payload[f] = Fields(q.event)[f]
    <3>1. CASE f \in DOMAIN new
      <4>1. payload[f] = new[f]
        BY <3>1 DEF Updated
      <4>2. Writes(R \cup {r}, f) = Writes(R, f) \cup {r}
        BY <2>2, <3>1 DEF Writes
      <4>3. r \in Last(Writes(R \cup {r}, f))
        BY <4>2, LastOfJoined DEF Writes, Merges
      <4> QED
        BY <4>1, <4>3
    <3>2. CASE f \notin DOMAIN new
      <4>1. payload[f] = x.payload[f] /\ f \in DOMAIN x.payload
        BY <3>2, <2>3 DEF Updated
      <4>2. Writes(R \cup {r}, f) = Writes(R, f)
        BY <2>2, <3>2 DEF Writes
      <4> QED
        BY <4>1, <4>2 DEF PayloadIsLast
    <3> QED
      BY <3>1, <3>2
  <2> QED
    BY <2>1, <2>4, <2>5 DEF PayloadIsLast
<1>2. CASE r.event.op \notin Upserts
  <2>1. Apply(x, r.event).payload = x.payload
    BY <1>2 DEF Apply, Upserts, EdgeOps, IsState
  <2>2. Merges(R \cup {r}) = Merges(R)
    BY <1>2 DEF Merges
  <2> QED
    BY <2>1, <2>2 DEF PayloadIsLast, Writes
<1> QED
  BY <1>1, <1>2

\* Likewise the tombstone: r is the last to set or clear it, unless it is an edge.
LEMMA ApplyKeepsTombstone ==
  ASSUME NEW x, IsState(x), NEW R, NEW r, \A q \in R : ~ Precedes(r, q),
         TombstoneIsLast(x.deleted, R),
         r.event.op \in Upserts \cup EdgeOps \cup {"delete_entity"}
  PROVE  TombstoneIsLast(Apply(x, r.event).deleted, R \cup {r})
<1>1. CASE r.event.op \in EdgeOps
  <2>1. Apply(x, r.event).deleted = x.deleted
    BY <1>1 DEF Apply, EdgeOps, IsState
  <2>2. Births(R \cup {r}) = Births(R)
    BY <1>1 DEF Births
  <2> QED
    BY <2>1, <2>2 DEF TombstoneIsLast
<1>2. CASE r.event.op \notin EdgeOps
  <2>1. Apply(x, r.event).deleted <=> r.event.op = "delete_entity"
    BY <1>2 DEF Apply, EdgeOps, IsState
  <2>2. Births(R \cup {r}) = Births(R) \cup {r}
    BY <1>2 DEF Births
  <2>3. r \in Last(Births(R \cup {r}))
    BY <2>2, LastOfJoined DEF Births
  <2> QED
    BY <2>1, <2>2, <2>3 DEF TombstoneIsLast
<1> QED
  BY <1>1, <1>2

\* Likewise the edges: r is the last to tie or untie its own target, and no other.
LEMMA ApplyKeepsEdges ==
  ASSUME NEW x, IsState(x), NEW R, NEW r, \A q \in R : ~ Precedes(r, q),
         EdgesAreLast(x.edges, R),
         r.event.op \in Upserts \cup EdgeOps \cup {"delete_entity"},
         \A q \in R \cup {r} : q.event.op \in EdgeOps =>
            q.event.target = [kind |-> q.event.target.kind, to |-> q.event.target.to]
  PROVE  EdgesAreLast(Apply(x, r.event).edges, R \cup {r})
<1> DEFINE t == r.event.target
           edges == Apply(x, r.event).edges
           S == R \cup {r}
<1> SUFFICES EdgesAreLast(edges, S)
  OBVIOUS
<1>1. CASE r.event.op \notin EdgeOps
  <2>1. edges = x.edges
    BY <1>1 DEF Apply, EdgeOps, IsState
  <2>2. Links(S) = Links(R)
    BY <1>1 DEF Links, EdgeOps
  <2>3. \A u : Ties(S, u) = Ties(R, u)
    BY <1>1 DEF Ties
  <2> HIDE DEF edges, S
  <2>4. DOMAIN edges = Kinds(Links(S))
    BY <2>1, <2>2 DEF EdgesAreLast
  <2>5. ASSUME NEW kind \in DOMAIN edges, NEW to \in edges[kind]
        PROVE  \E q \in Links(S) : q.event.target = [kind |-> kind, to |-> to]
    BY <2>1, <2>2, <2>5 DEF EdgesAreLast
  <2>6. ASSUME NEW l \in Links(S)
        PROVE  \E q \in Last(Ties(S, l.event.target)) :
                 l.event.target.to \in edges[l.event.target.kind] <=> q.event.op = "upsert_edge"
    BY <2>1, <2>2, <2>3, <2>6 DEF EdgesAreLast
  <2> QED
    BY <2>4, <2>5, <2>6 DEF EdgesAreLast
<1>2. CASE r.event.op = "upsert_edge"
  <2>1. edges = AddEdge(x.edges, t)
    BY <1>2 DEF Apply, IsState
  <2>2. Links(S) = Links(R) \cup {r}
    BY <1>2 DEF Links
  <2>3. /\ DOMAIN edges = {t.kind} \cup DOMAIN x.edges
        /\ edges[t.kind] = (IF t.kind \in DOMAIN x.edges THEN x.edges[t.kind] ELSE {}) \cup {t.to}
        /\ \A kind \in DOMAIN x.edges : kind # t.kind => edges[kind] = x.edges[kind]
    BY <2>1 DEF AddEdge, Get
  <2> HIDE DEF edges
  <2>4. DOMAIN edges = Kinds(Links(S))
    <3>1. Kinds(Links(R) \cup {r}) = Kinds(Links(R)) \cup {t.kind}
      BY DEF Kinds
    <3> QED
      BY <2>2, <2>3, <3>1 DEF EdgesAreLast
  <2>5. ASSUME NEW kind \in DOMAIN edges, NEW to \in edges[kind]
        PROVE  \E q \in Links(S) : q.event.target = [kind |-> kind, to |-> to]
    <3>1. CASE kind = t.kind /\ to = t.to
      BY <3>1, <1>2, <2>2 DEF EdgeOps
    <3>2. CASE ~ (kind = t.kind /\ to = t.to)
      <4>1. kind \in DOMAIN x.edges /\ to \in x.edges[kind]
        BY <2>3, <2>5, <3>2
      <4> QED
        BY <4>1, <2>2 DEF EdgesAreLast
    <3> QED
      BY <3>1, <3>2
  <2>6. ASSUME NEW l \in Links(S)
        PROVE  \E q \in Last(Ties(S, l.event.target)) :
                 l.event.target.to \in edges[l.event.target.kind] <=> q.event.op = "upsert_edge"
    <3>1. CASE l.event.target = t
      <4>1. Ties(S, t) = Ties(R, t) \cup {r}
        BY <1>2 DEF Ties, EdgeOps
      <4>2. r \in Last(Ties(S, t))
        BY <4>1, LastOfJoined DEF Ties
      <4> QED
        BY <1>2, <2>3, <3>1, <4>2
    <3>2. CASE l.event.target # t
      <4>1. l \in Links(R)
        BY <2>2, <2>6, <3>2
      <4>2. Ties(S, l.event.target) = Ties(R, l.event.target)
        BY <3>2 DEF Ties
      <4>3. l.event.target.kind \in DOMAIN x.edges
        BY <4>1 DEF EdgesAreLast, Kinds
      <4>4. l.event.target.kind # t.kind \/ l.event.target.to # t.to
        <5>1. l.event.target = [kind |-> l.event.target.kind, to |-> l.event.target.to]
          BY <4>1 DEF Links, EdgeOps
        <5>2. t = [kind |-> t.kind, to |-> t.to]
          BY <1>2 DEF EdgeOps
        <5> QED
          BY <3>2, <5>1, <5>2
      <4>5. l.event.target.to \in edges[l.event.target.kind]
              <=> l.event.target.to \in x.edges[l.event.target.kind]
        BY <2>3, <4>3, <4>4
      <4> QED
        BY <4>1, <4>2, <4>5 DEF EdgesAreLast
    <3> QED
      BY <3>1, <3>2
  <2> HIDE DEF S
  <2> QED
    BY <2>4, <2>5, <2>6 DEF EdgesAreLast
<1>3. CASE r.event.op = "delete_edge"
  <2>1. edges = DropEdge(x.edges, t)
    BY <1>3 DEF Apply, IsState
  <2>2. Links(S) = Links(R)
    BY <1>3 DEF Links
  <2>3. /\ DOMAIN edges = DOMAIN x.edges
        /\ \A kind \in DOMAIN x.edges :
             edges[kind] = IF kind = t.kind THEN x.edges[kind] \ {t.to} ELSE x.edges[kind]
    BY <2>1 DEF DropEdge
  <2> HIDE DEF edges
  <2>4. DOMAIN edges = Kinds(Links(S))
    BY <2>2, <2>3 DEF EdgesAreLast
  <2>5. ASSUME NEW kind \in DOMAIN edges, NEW to \in edges[kind]
        PROVE  \E q \in Links(S) : q.event.target = [kind |-> kind, to |-> to]
    BY <2>2, <2>3, <2>5 DEF EdgesAreLast
  <2>6. ASSUME NEW l \in Links(S)
        PROVE  \E q \in Last(Ties(S, l.event.target)) :
                 l.event.target.to \in edges[l.event.target.kind] <=> q.event.op = "upsert_edge"
    <3>0. l.event.target.kind \in DOMAIN x.edges /\ l \in Links(R)
      BY <2>2, <2>6 DEF EdgesAreLast, Kinds
    <3>1. CASE l.event.target = t
      <4>1. Ties(S, t) = Ties(R, t) \cup {r}
        BY <1>3 DEF Ties, EdgeOps
      <4>2. r \in Last(Ties(S, t))
        BY <4>1, LastOfJoined DEF Ties
      <4> QED
        BY <1>3, <2>3, <3>0, <3>1, <4>2
    <3>2. CASE l.event.target # t
      <4>2. Ties(S, l.event.target) = Ties(R, l.event.target)
        BY <3>2 DEF Ties
      <4>4. l.event.target.kind # t.kind \/ l.event.target.to # t.to
        BY <1>3, <3>2, <3>0 DEF Links, EdgeOps
      <4>5. l.event.target.to \in edges[l.event.target.kind]
              <=> l.event.target.to \in x.edges[l.event.target.kind]
        BY <2>3, <3>0, <4>4
      <4> QED
        BY <3>0, <4>2, <4>5 DEF EdgesAreLast
    <3> QED
      BY <3>1, <3>2
  <2> HIDE DEF S
  <2> QED
    BY <2>4, <2>5, <2>6 DEF EdgesAreLast
<1> QED
  BY <1>1, <1>2, <1>3 DEF EdgeOps

\* So _apply keeps the state of an entity that of its last writes.
LEMMA ApplyKeepsLastWrite ==
  ASSUME NEW x, IsState(x), NEW R, NEW r, \A q \in R : ~ Precedes(r, q),
         IsLastWrite(x, R),
         \A q \in R \cup {r} : q.event \in Loggable
  PROVE  IsLastWrite(Apply(x, r.event), R \cup {r})
<1>1. r.event.op \in Upserts \cup EdgeOps \cup {"delete_entity"}
  BY EventsAssumption
<1>2. \A q \in R \cup {r} : q.event.op \in EdgeOps =>
         q.event.target = [kind |-> q.event.target.kind, to |-> q.event.target.to]
  BY EventsAssumption
<1> QED
  BY <1>1, <1>2, ApplyKeepsPayload, ApplyKeepsTombstone, ApplyKeepsEdges DEF IsLastWrite

\* A new state is the one of an entity with no row.
LEMMA NewStateIsLast == IsLastWrite(NewState, {})
<1>1. PayloadIsLast(NewState.payload, {})
  BY DEF PayloadIsLast, NewState, NoFields, Merges
<1>2. EdgesAreLast(NewState.edges, {})
  BY DEF EdgesAreLast, NewState, Kinds, Links
<1>3. TombstoneIsLast(NewState.deleted, {})
  BY DEF TombstoneIsLast, NewState, Births
<1> QED
  BY <1>1, <1>2, <1>3 DEF IsLastWrite

\* A turn of the fold, on every entity.
LEMMA ApplyRowKeepsAgree ==
  ASSUME NEW known, AreStates(known), NEW R, NEW r, \A q \in R : ~ Precedes(r, q),
         Agree(known, R),
         \A q \in R \cup {r} : q.event \in Loggable
  PROVE  /\ AreStates(ApplyRow(known, r.event))
         /\ Agree(ApplyRow(known, r.event), R \cup {r})
<1> DEFINE e == r.event
           after == ApplyRow(known, e)
           old == Get(known, e.entity, NewState)
<1>1. /\ DOMAIN after = DOMAIN known \cup {e.entity}
      /\ after[e.entity] = Apply(old, e)
      /\ \A k \in DOMAIN known : k # e.entity => after[k] = known[k]
  BY DEF ApplyRow
<1>2. IsState(old) /\ IsLastWrite(old, Of(R, e.entity))
  <2>1. CASE e.entity \in DOMAIN known
    BY <2>1 DEF Get, AreStates, Agree
  <2>2. CASE e.entity \notin DOMAIN known
    <3>1. Of(R, e.entity) = {}
      BY <2>2 DEF Agree, Of
    <3> QED
      BY <2>2, <3>1, NewStateIsState, NewStateIsLast DEF Get
  <2> QED
    BY <2>1, <2>2
<1>3. Of(R \cup {r}, e.entity) = Of(R, e.entity) \cup {r}
  BY DEF Of
<1>4. \A k : k # e.entity => Of(R \cup {r}, k) = Of(R, k)
  BY DEF Of
<1>5. IsState(after[e.entity]) /\ IsLastWrite(after[e.entity], Of(R \cup {r}, e.entity))
  <2>1. IsState(Apply(old, e))
    BY <1>2, ApplyIsState
  <2>2. /\ \A q \in Of(R, e.entity) : ~ Precedes(r, q)
        /\ \A q \in Of(R, e.entity) \cup {r} : q.event \in Loggable
    BY DEF Of
  <2>3. IsLastWrite(Apply(old, r.event), Of(R, e.entity) \cup {r})
    BY <1>2, <2>2, ApplyKeepsLastWrite
  <2> QED
    BY <1>1, <1>3, <2>1, <2>3
<1>6. AreStates(after)
  BY <1>1, <1>5 DEF AreStates
<1>7. DOMAIN after = {q.event.entity : q \in R \cup {r}}
  BY <1>1 DEF Agree
<1>8. ASSUME NEW k \in DOMAIN after, k # e.entity
      PROVE  IsLastWrite(after[k], Of(R \cup {r}, k))
  BY <1>1, <1>4, <1>8 DEF Agree
<1> HIDE DEF after
<1>9. Agree(after, R \cup {r})
  BY <1>5, <1>7, <1>8 DEF Agree
<1> QED
  BY <1>6, <1>9 DEF after

\* The fold starts from the states of no rows.
LEMMA NothingAgrees == AreStates(NoStates) /\ Agree(NoStates, {})
BY DEF AreStates, Agree, NoStates

-----------------------------------------------------------------------------
(* The inductive invariant.                                                *)

RowsLoggable == \A r \in rows : r.event \in Loggable

\* Where taker s stands, and what it holds there.
PhaseOK(s) ==
  /\ step[s] # "rest" => point[s] \in Points
  /\ step[s] = "rest" => first[s] = None
  /\ left[s] \subseteq found[s]
  /\ step[s] \notin {"rest", "query", "fold"} => left[s] = {}
  /\ second[s] # None => second[s].app = point[s].app /\ second[s].ingest = point[s].ingest

\* The states folded so far are those of the rows folded so far, and no row left
\* to fold precedes one of these.
FoldOK(s) ==
  /\ AreStates(states[s])
  /\ step[s] \notin {"rest", "query"} =>
       /\ Agree(states[s], found[s] \ left[s])
       /\ \A f \in found[s] \ left[s], l \in left[s] : ~ Precedes(l, f)

\* What a steady query returned is still what the log says.
SteadyOK(s) ==
  steady[s] /\ step[s] \notin {"rest", "query"} =>
    Settled(point[s].ingest) /\ found[s] = View(point[s])

\* The first half of a diff.
FirstOK(s) ==
  /\ step[s] = "report" => first[s] # None
  /\ first[s] # None =>
       /\ IsSnapshot(first[s])
       /\ AreStates(first[s].states)
       /\ first[s].point.app = point[s].app /\ first[s].point.ingest = point[s].ingest
       /\ steady[s] => /\ Settled(first[s].point.ingest)
                       /\ Agree(first[s].states, View(first[s].point))

\* What a checkout has stored by now.
StoredOK(s) ==
  /\ step[s] \in {"manifest", "row", "mapping"} => StateDoc(Taken(s)) \in docs
  /\ step[s] \in {"row", "mapping"} => ManifestDoc(Taken(s)) \in docs
  /\ step[s] = "mapping" => Taken(s) \in manifests

TakerInv(s) == PhaseOK(s) /\ FoldOK(s) /\ SteadyOK(s) /\ FirstOK(s) /\ StoredOK(s)

AssuredOK == \A m \in assured : Settled(m.point.ingest) /\ Agree(m.states, View(m.point))

SnapInv ==
  /\ AbsTypeOK
  /\ RowsLoggable
  /\ SnapTypeOK
  /\ PersistedResolvable
  /\ AssuredOK
  /\ \A s \in Takers : TakerInv(s)

-----------------------------------------------------------------------------
(* What the log does to the takers, and a taker to the others.             *)

\* The log only grows, and a settled view behind which nobody goes back stays settled
\* and as it is.
LogGrows ==
  /\ rows \subseteq rows'
  /\ \A p \in Points : Settled(p.ingest) /\ ~ Rewrites(p.ingest) =>
                         Settled(p.ingest)' /\ View(p)' = View(p)

\* A step of the log changes no settled view, unless it goes back behind it.
LEMMA LogStepGrows ==
  ASSUME AbsTypeOK, [AbsNext]_absVars
  PROVE  LogGrows
<1>1. rows \subseteq rows'
  BY DEF AbsNext, absVars, Advance, LearnMany, BeginAt, Learn, EndAt
<1>2. ASSUME NEW p \in Points, Settled(p.ingest), ~ Rewrites(p.ingest)
      PROVE  Settled(p.ingest)' /\ View(p)' = View(p)
  <2>1. p.ingest \in Nat
    BY DEF Points
  <2>2. Settled(p.ingest)' /\ Known(p.ingest)' = Known(p.ingest)
    BY <1>2, <2>1, SettledStep
  <2> QED
    BY <2>2 DEF View, Known
<1> QED
  BY <1>1, <1>2 DEF LogGrows

\* Every row is one of the events that can be appended.
LEMMA LoggableStep ==
  ASSUME RowsLoggable, [AbsNext]_absVars
  PROVE  RowsLoggable'
<1> USE DEF RowsLoggable
<1>1. CASE LearnMany
  <2>1. PICK es \in Bulk :
          rows' = rows \cup {[event |-> es[i].event, stamp |-> es[i].at, seq |-> Highest + i]
                                : i \in 1 .. Len(es)}
    BY <1>1 DEF LearnMany
  <2>2. \A i \in 1 .. Len(es) : es[i].event \in Loggable
    BY DEF Loggable
  <2> QED
    BY <2>1, <2>2
<1>2. ASSUME NEW w \in Writers, Learn(w)
      PROVE  RowsLoggable'
  BY <1>2 DEF Learn, Loggable
<1>3. CASE rows' = rows
  BY <1>3
<1> QED
  BY <1>1, <1>2, <1>3 DEF AbsNext, absVars, Advance, BeginAt, EndAt

\* Nothing of taker t changes, but that it may be steady no longer: it is not if
\* someone goes back behind its point.
Same(t) ==
  /\ step'[t] = step[t] /\ point'[t] = point[t] /\ second'[t] = second[t]
  /\ found'[t] = found[t] /\ left'[t] = left[t] /\ states'[t] = states[t]
  /\ first'[t] = first[t]
  /\ steady'[t] => steady[t] /\ (point[t] = None \/ ~ Rewrites(point[t].ingest))

\* A step that leaves the log alone goes back behind nothing.
LEMMA NothingRewritten ==
  ASSUME UNCHANGED absVars
  PROVE  \A tau : ~ Rewrites(tau)
BY DEF Rewrites, absVars

\* What holds of taker t outlives the steps of the log and of the other takers.
LEMMA OthersKept ==
  ASSUME NEW t \in Takers, TakerInv(t), Same(t), LogGrows,
         docs \subseteq docs', manifests \subseteq manifests'
  PROVE  TakerInv(t)'
<1> USE DEF Same, TakerInv
<1>1. PhaseOK(t)'
  BY DEF PhaseOK
<1>2. FoldOK(t)'
  BY DEF FoldOK
<1>3. SteadyOK(t)'
  BY PointsAssumption DEF SteadyOK, PhaseOK, LogGrows
<1>4. FirstOK(t)'
  <2>1. first[t] # None => /\ first[t].point \in Points
                           /\ point[t] \in Points /\ point[t] # None
                           /\ first[t].point.ingest = point[t].ingest
    BY PointsAssumption DEF FirstOK, IsSnapshot, PhaseOK
  <2>2. ASSUME first[t] # None, steady'[t]
        PROVE  Settled(first[t].point.ingest)' /\ Agree(first[t].states, View(first[t].point))'
    <3>1. PICK p \in Points : p = first[t].point
      BY <2>1, <2>2
    <3>2. Settled(p.ingest) /\ Agree(first[t].states, View(p)) /\ ~ Rewrites(p.ingest)
      BY <2>1, <2>2, <3>1 DEF FirstOK
    <3>3. Settled(p.ingest)' /\ View(p)' = View(p)
      BY <3>2 DEF LogGrows
    <3>4. p = first'[t].point /\ first'[t].states = first[t].states
      BY <3>1
    <3>5. Settled(first[t].point.ingest)' /\ View(first[t].point)' = View(p)
      BY <3>3, <3>4 DEF Settled, View
    <3> QED
      BY <3>2, <3>4, <3>5
  <2> QED
    BY <2>1, <2>2 DEF FirstOK
<1>5. StoredOK(t)'
  BY DEF StoredOK, Taken
<1> QED
  BY <1>1, <1>2, <1>3, <1>4, <1>5

-----------------------------------------------------------------------------
(* The steps of a taker.                                                   *)

\* What a step of taker s must do.
StepOK(s) ==
  /\ TakerInv(s)'
  /\ SnapTypeOK'
  /\ PersistedResolvable'
  /\ AssuredOK'
  /\ docs \subseteq docs' /\ manifests \subseteq manifests'
  /\ \A t \in Takers \ {s} : Same(t)

\* Starting a checkout or a diff.
LEMMA BeginOK ==
  ASSUME SnapInv, NEW s \in Takers, NEW p \in Points, NEW q \in Points \cup {None},
         q # None => q.app = p.app /\ q.ingest = p.ingest,
         Begin(s, p, q)
  PROVE  StepOK(s)
<1> USE DEF SnapInv, TakerInv, Begin, savedVars, absVars
<1>1. SnapTypeOK'
  BY DEF SnapTypeOK
<1>2. /\ step'[s] = "query" /\ point'[s] = p /\ second'[s] = q
      /\ found'[s] = found[s] /\ left'[s] = left[s] /\ states'[s] = states[s]
      /\ first'[s] = None /\ steady'[s] = steady[s]
  BY DEF SnapTypeOK, PhaseOK
<1>3. PhaseOK(s)'
  BY <1>2 DEF PhaseOK
<1>4. FoldOK(s)' /\ SteadyOK(s)' /\ FirstOK(s)' /\ StoredOK(s)'
  BY <1>2 DEF FoldOK, SteadyOK, FirstOK, StoredOK
<1>5. PersistedResolvable' /\ AssuredOK'
  BY DEF PersistedResolvable, AssuredOK, Settled, View
<1>6. \A t \in Takers \ {s} : Same(t)
  BY NothingRewritten DEF Same, SnapTypeOK
<1> QED
  BY <1>1, <1>3, <1>4, <1>5, <1>6 DEF StepOK

\* The query: nothing is folded, and the rows are those of the view.
LEMMA RunQueryOK ==
  ASSUME SnapInv, NEW s \in Takers, RunQuery(s)
  PROVE  StepOK(s)
<1> USE DEF SnapInv, TakerInv, RunQuery, savedVars, absVars
<1>1. SnapTypeOK'
  <2>1. View(point[s]) \subseteq rows
    BY DEF View
  <2>2. ((first[s] = None \/ steady[s]) /\ Settled(point[s].ingest)) \in BOOLEAN
    OBVIOUS
  <2> QED
    BY <2>1, <2>2 DEF SnapTypeOK
<1>2. /\ step'[s] = "fold" /\ point'[s] = point[s] /\ second'[s] = second[s]
      /\ found'[s] = View(point[s]) /\ left'[s] = View(point[s]) /\ states'[s] = NoStates
      /\ first'[s] = first[s]
      /\ steady'[s] <=> (first[s] = None \/ steady[s]) /\ Settled(point[s].ingest)
  BY DEF SnapTypeOK
<1>3. PhaseOK(s)'
  BY <1>2 DEF PhaseOK
<1>4. FoldOK(s)'
  <2>1. found'[s] \ left'[s] = {}
    BY <1>2
  <2> QED
    BY <1>2, <2>1, NothingAgrees DEF FoldOK
<1>5. SteadyOK(s)'
  BY <1>2 DEF SteadyOK, Settled, View
<1>6. FirstOK(s)' /\ StoredOK(s)'
  BY <1>2 DEF FirstOK, StoredOK, Settled, View
<1>7. PersistedResolvable' /\ AssuredOK'
  BY DEF PersistedResolvable, AssuredOK, Settled, View
<1>8. \A t \in Takers \ {s} : Same(t)
  BY NothingRewritten DEF Same, SnapTypeOK
<1> QED
  BY <1>1, <1>3, <1>4, <1>5, <1>6, <1>7, <1>8 DEF StepOK

\* A turn of the fold: the row goes from the rows left to the rows folded.
LEMMA FoldRowOK ==
  ASSUME SnapInv, NEW s \in Takers, FoldRow(s)
  PROVE  StepOK(s)
<1> USE DEF SnapInv, TakerInv, savedVars, absVars
<1>0. PICK r \in Upcoming(left[s]) :
        /\ states' = [states EXCEPT ![s] = ApplyRow(@, r.event)]
        /\ left' = [left EXCEPT ![s] = @ \ {r}]
  BY DEF FoldRow
<1>1. SnapTypeOK'
  BY <1>0 DEF SnapTypeOK, FoldRow
<1>2. /\ step'[s] = "fold" /\ point'[s] = point[s] /\ second'[s] = second[s]
      /\ found'[s] = found[s] /\ left'[s] = left[s] \ {r}
      /\ states'[s] = ApplyRow(states[s], r.event)
      /\ first'[s] = first[s] /\ steady'[s] = steady[s]
  BY <1>0 DEF SnapTypeOK, FoldRow
<1>3. PhaseOK(s)'
  BY <1>2 DEF PhaseOK, FoldRow
<1>4. FoldOK(s)'
  <2> DEFINE done == found[s] \ left[s]
  <2>1. /\ step[s] = "fold" /\ r \in left[s] /\ left[s] \subseteq found[s]
        /\ \A q \in left[s] : ~ Precedes(q, r)
    BY DEF Upcoming, PhaseOK, FoldRow
  <2>2. /\ AreStates(states[s]) /\ Agree(states[s], done)
        /\ \A f \in done, l \in left[s] : ~ Precedes(l, f)
    BY <2>1 DEF FoldOK
  <2>3. \A q \in done \cup {r} : q.event \in Loggable
    BY <2>1 DEF RowsLoggable, SnapTypeOK
  <2>4. found'[s] \ left'[s] = done \cup {r}
    BY <1>2, <2>1
  <2>5. /\ AreStates(ApplyRow(states[s], r.event))
        /\ Agree(ApplyRow(states[s], r.event), done \cup {r})
    BY <2>1, <2>2, <2>3, ApplyRowKeepsAgree
  <2>6. \A f \in done \cup {r}, l \in left[s] \ {r} : ~ Precedes(l, f)
    BY <2>1, <2>2
  <2> QED
    BY <1>2, <2>4, <2>5, <2>6 DEF FoldOK
<1>5. SteadyOK(s)'
  BY <1>2 DEF SteadyOK, Settled, View, FoldRow
<1>6. FirstOK(s)' /\ StoredOK(s)'
  BY <1>2 DEF FirstOK, StoredOK, Settled, View, FoldRow
<1>7. PersistedResolvable' /\ AssuredOK'
  BY DEF PersistedResolvable, AssuredOK, Settled, View, FoldRow
<1>8. \A t \in Takers \ {s} : Same(t)
  BY <1>0, NothingRewritten DEF Same, SnapTypeOK, FoldRow
<1>9. docs \subseteq docs' /\ manifests \subseteq manifests'
  BY DEF FoldRow
<1> QED
  BY <1>1, <1>3, <1>4, <1>5, <1>6, <1>7, <1>8, <1>9 DEF StepOK

\* The first half of a diff is complete when the second begins.
LEMMA TurnToSecondOK ==
  ASSUME SnapInv, NEW s \in Takers, TurnToSecond(s)
  PROVE  StepOK(s)
<1> USE DEF SnapInv, TakerInv, TurnToSecond, Folded, savedVars, absVars
<1>0. point[s] \in Points /\ second[s] \in Points /\ IsSnapshot(Taken(s))
  BY DEF PhaseOK, SnapTypeOK, IsSnapshot, Taken
<1>1. SnapTypeOK'
  BY <1>0 DEF SnapTypeOK
<1>2. /\ step'[s] = "query" /\ point'[s] = second[s] /\ second'[s] = None
      /\ found'[s] = found[s] /\ left'[s] = left[s] /\ states'[s] = states[s]
      /\ first'[s] = Taken(s) /\ steady'[s] = steady[s]
  BY DEF SnapTypeOK
<1>3. PhaseOK(s)'
  BY <1>0, <1>2 DEF PhaseOK
<1>4. FoldOK(s)' /\ SteadyOK(s)' /\ StoredOK(s)'
  BY <1>2 DEF FoldOK, SteadyOK, StoredOK
<1>5. FirstOK(s)'
  <2>1. /\ AreStates(states[s]) /\ Agree(states[s], found[s])
    <3>1. found[s] \ left[s] = found[s]
      OBVIOUS
    <3> QED
      BY <3>1 DEF FoldOK
  <2>2. steady[s] => Settled(point[s].ingest) /\ found[s] = View(point[s])
    BY DEF SteadyOK
  <2>3. second[s].app = point[s].app /\ second[s].ingest = point[s].ingest
    BY DEF PhaseOK
  <2>4. /\ IsSnapshot(Taken(s)) /\ AreStates(Taken(s).states)
        /\ Taken(s).point = point[s]
        /\ steady[s] => Agree(Taken(s).states, View(point[s]))
    BY <1>0, <2>1, <2>2 DEF Taken
  <2>5. /\ View(first[s].point)' = View(point[s])
        /\ Settled(first[s].point.ingest)' <=> Settled(point[s].ingest)
    BY <1>2, <2>4 DEF View, Settled
  <2>6. first'[s].point.app = point'[s].app /\ first'[s].point.ingest = point'[s].ingest
    BY <1>2, <2>3, <2>4
  <2> HIDE DEF SnapInv, TakerInv, TurnToSecond, Folded
  <2> QED
    BY <1>2, <2>2, <2>4, <2>5, <2>6 DEF FirstOK
<1>7. PersistedResolvable' /\ AssuredOK'
  BY DEF PersistedResolvable, AssuredOK, Settled, View
<1>8. \A t \in Takers \ {s} : Same(t)
  BY NothingRewritten DEF Same, SnapTypeOK
<1> QED
  BY <1>1, <1>3, <1>4, <1>5, <1>7, <1>8 DEF StepOK

\* A step of s that moves it on to another phase and stores what that phase asks.
LEMMA MoveOnOK ==
  ASSUME SnapInv, NEW s \in Takers,
         step[s] \notin {"rest", "query"}, left[s] = {},
         NEW next \in {"state", "manifest", "row", "mapping", "report"},
         step' = [step EXCEPT ![s] = next],
         next = "report" => first[s] # None,
         UNCHANGED <<absVars, point, second, found, left, states, first, steady>>
  PROVE  /\ PhaseOK(s)' /\ FoldOK(s)' /\ SteadyOK(s)' /\ FirstOK(s)'
         /\ step' \in [Takers -> {"rest", "query", "fold", "state", "manifest", "row",
                                  "mapping", "report"}]
         /\ step'[s] = next
         /\ \A t \in Takers \ {s} : Same(t)
<1> USE DEF SnapInv, TakerInv, absVars
<1>1. step'[s] = next
  BY DEF SnapTypeOK
<1>2. PhaseOK(s)' /\ FoldOK(s)'
  BY <1>1 DEF PhaseOK, FoldOK
<1>3. SteadyOK(s)' /\ FirstOK(s)'
  BY <1>1 DEF SteadyOK, FirstOK, Settled, View
<1>4. step' \in [Takers -> {"rest", "query", "fold", "state", "manifest", "row",
                           "mapping", "report"}]
  BY DEF SnapTypeOK
<1>5. \A t \in Takers \ {s} : Same(t)
  BY NothingRewritten DEF Same, SnapTypeOK
<1> QED
  BY <1>1, <1>2, <1>3, <1>4, <1>5

\* The end of the last fold.
LEMMA FinishFoldOK ==
  ASSUME SnapInv, NEW s \in Takers, FinishFold(s)
  PROVE  StepOK(s)
<1> USE DEF FinishFold, Folded, savedVars
<1> DEFINE next == IF first[s] = None THEN "state" ELSE "report"
<1>1. /\ PhaseOK(s)' /\ FoldOK(s)' /\ SteadyOK(s)' /\ FirstOK(s)'
      /\ step' \in [Takers -> {"rest", "query", "fold", "state", "manifest", "row",
                               "mapping", "report"}]
      /\ step'[s] = next
      /\ \A t \in Takers \ {s} : Same(t)
  BY MoveOnOK
<1>2. StoredOK(s)'
  BY <1>1 DEF StoredOK
<1>3. SnapTypeOK'
  BY <1>1 DEF SnapTypeOK, SnapInv, absVars
<1>4. PersistedResolvable' /\ AssuredOK'
  BY DEF PersistedResolvable, AssuredOK, Settled, View, SnapInv, absVars
<1> QED
  BY <1>1, <1>2, <1>3, <1>4 DEF StepOK, TakerInv

\* The state blob is stored.
LEMMA PutStateOK ==
  ASSUME SnapInv, NEW s \in Takers, PutState(s)
  PROVE  StepOK(s)
<1> USE DEF PutState, Goto
<1>1. /\ PhaseOK(s)' /\ FoldOK(s)' /\ SteadyOK(s)' /\ FirstOK(s)'
      /\ step' \in [Takers -> {"rest", "query", "fold", "state", "manifest", "row",
                               "mapping", "report"}]
      /\ step'[s] = "manifest"
      /\ \A t \in Takers \ {s} : Same(t)
  <2>1. left[s] = {}
    BY DEF SnapInv, TakerInv, PhaseOK
  <2> QED
    BY <2>1, MoveOnOK
<1>2. StoredOK(s)'
  BY <1>1 DEF StoredOK, Taken
<1>3. SnapTypeOK'
  BY <1>1 DEF SnapTypeOK, SnapInv, absVars
<1>4. PersistedResolvable' /\ AssuredOK'
  BY DEF PersistedResolvable, AssuredOK, Settled, View, SnapInv, absVars
<1> QED
  BY <1>1, <1>2, <1>3, <1>4 DEF StepOK, TakerInv

\* The manifest blob is stored.
LEMMA PutManifestOK ==
  ASSUME SnapInv, NEW s \in Takers, PutManifest(s)
  PROVE  StepOK(s)
<1> USE DEF PutManifest, Goto
<1>1. /\ PhaseOK(s)' /\ FoldOK(s)' /\ SteadyOK(s)' /\ FirstOK(s)'
      /\ step' \in [Takers -> {"rest", "query", "fold", "state", "manifest", "row",
                               "mapping", "report"}]
      /\ step'[s] = "row"
      /\ \A t \in Takers \ {s} : Same(t)
  <2>1. left[s] = {}
    BY DEF SnapInv, TakerInv, PhaseOK
  <2> QED
    BY <2>1, MoveOnOK
<1>2. StoredOK(s)'
  BY <1>1 DEF StoredOK, Taken, SnapInv, TakerInv
<1>3. SnapTypeOK'
  BY <1>1 DEF SnapTypeOK, SnapInv, absVars
<1>4. PersistedResolvable' /\ AssuredOK'
  BY DEF PersistedResolvable, AssuredOK, Settled, View, SnapInv, absVars
<1> QED
  BY <1>1, <1>2, <1>3, <1>4 DEF StepOK, TakerInv

\* The snapshot is listed: its manifest is stored, and if the query was steady its
\* states are those of the log.
LEMMA InsertManifestOK ==
  ASSUME SnapInv, NEW s \in Takers, InsertManifest(s)
  PROVE  StepOK(s)
<1> USE DEF InsertManifest, Goto
<1>0. left[s] = {} /\ point[s] \in Points /\ IsSnapshot(Taken(s))
  BY DEF SnapInv, TakerInv, PhaseOK, IsSnapshot, Taken
<1>1. /\ PhaseOK(s)' /\ FoldOK(s)' /\ SteadyOK(s)' /\ FirstOK(s)'
      /\ step' \in [Takers -> {"rest", "query", "fold", "state", "manifest", "row",
                               "mapping", "report"}]
      /\ step'[s] = "mapping"
      /\ \A t \in Takers \ {s} : Same(t)
  BY <1>0, MoveOnOK
<1>2. StoredOK(s)'
  BY <1>1 DEF StoredOK, Taken, SnapInv, TakerInv
<1>3. SnapTypeOK'
  BY <1>0, <1>1 DEF SnapTypeOK, SnapInv, absVars
<1>4. PersistedResolvable'
  BY DEF PersistedResolvable, SnapInv, TakerInv, StoredOK
<1>5. AssuredOK'
  <2>1. steady[s] => /\ Settled(Taken(s).point.ingest)
                     /\ Agree(Taken(s).states, View(Taken(s).point))
    <3>1. found[s] \ left[s] = found[s]
      BY <1>0
    <3> QED
      BY <3>1 DEF SnapInv, TakerInv, FoldOK, SteadyOK, Taken
  <2>2. \A m \in assured' : Settled(m.point.ingest) /\ Agree(m.states, View(m.point))
    BY <2>1 DEF SnapInv, AssuredOK
  <2> QED
    BY <2>2 DEF AssuredOK, Settled, View, absVars
<1> QED
  BY <1>1, <1>2, <1>3, <1>4, <1>5 DEF StepOK, TakerInv

\* A taker that returns or dies holds nothing.
LEMMA LeaveTakerOK ==
  ASSUME SnapInv, NEW s \in Takers, LeaveTaker(s)
  PROVE  /\ TakerInv(s)'
         /\ \A t \in Takers \ {s} : Same(t)
         /\ UNCHANGED <<manifests, assured>> => SnapTypeOK'
<1> USE DEF LeaveTaker, absVars
<1>1. /\ step'[s] = "rest" /\ point'[s] = None /\ second'[s] = None
      /\ found'[s] = {} /\ left'[s] = {} /\ states'[s] = NoStates
      /\ first'[s] = None /\ steady'[s] = TRUE
  BY DEF SnapTypeOK, SnapInv
<1>2. PhaseOK(s)' /\ FoldOK(s)' /\ SteadyOK(s)' /\ FirstOK(s)' /\ StoredOK(s)'
  BY <1>1, NothingAgrees DEF PhaseOK, FoldOK, SteadyOK, FirstOK, StoredOK
<1>3. \A t \in Takers \ {s} : Same(t)
  BY NothingRewritten DEF Same, SnapTypeOK, SnapInv
<1>4. UNCHANGED <<manifests, assured>> => SnapTypeOK'
  BY DEF SnapTypeOK, SnapInv
<1> QED
  BY <1>2, <1>3, <1>4 DEF TakerInv

\* The mapping row, the report and the crash: what is mapped has been stored.
LEMMA LeavingStepsOK ==
  ASSUME SnapInv, NEW s \in Takers, InsertMapping(s) \/ Report(s) \/ CrashTaker(s)
  PROVE  StepOK(s)
<1>1. LeaveTaker(s) /\ UNCHANGED <<docs, manifests, assured>>
  BY DEF InsertMapping, Report, CrashTaker, savedVars
<1>2. mapping' = mapping \/ (step[s] = "mapping" /\ mapping' = mapping \cup {Taken(s)})
  BY DEF InsertMapping, Report, CrashTaker, savedVars
<1>3. PersistedResolvable'
  BY <1>1, <1>2 DEF PersistedResolvable, SnapInv, TakerInv, StoredOK
<1>4. AssuredOK'
  BY <1>1 DEF AssuredOK, Settled, View, LeaveTaker, absVars, SnapInv
<1> QED
  BY <1>1, <1>3, <1>4, LeaveTakerOK DEF StepOK

\* Every step of a taker.
LEMMA TakerStepOK ==
  ASSUME SnapInv, NEW s \in Takers, TakerStep(s)
  PROVE  StepOK(s)
<1>1. ASSUME NEW c \in Checkouts, StartCheckout(s, c)
      PROVE  StepOK(s)
  <2> DEFINE p == [app |-> c.app, valid |-> Instant(c.valid), ingest |-> Instant(c.ingest)]
  <2>1. Instant(c.valid) \in Int /\ Instant(c.ingest) \in Nat
    BY PointsAssumption DEF Instant, SnapInv, AbsTypeOK
  <2>2. p \in Points
    BY <2>1, PointsAssumption DEF Points
  <2>3. Begin(s, p, None)
    BY <1>1 DEF StartCheckout
  <2> QED
    BY <2>2, <2>3, BeginOK
<1>2. ASSUME NEW d \in Diffs, StartDiff(s, d)
      PROVE  StepOK(s)
  <2> DEFINE p == [app |-> d.app, valid |-> d.before, ingest |-> d.after]
             q == [app |-> d.app, valid |-> d.after, ingest |-> d.after]
  <2>1. p \in Points /\ q \in Points /\ q.app = p.app /\ q.ingest = p.ingest
    BY PointsAssumption DEF Points
  <2>2. Begin(s, p, q)
    BY <1>2 DEF StartDiff
  <2> QED
    BY <2>1, <2>2, BeginOK
<1> QED
  BY <1>1, <1>2, RunQueryOK, FoldRowOK, TurnToSecondOK, FinishFoldOK, PutStateOK,
     PutManifestOK, InsertManifestOK, LeavingStepsOK DEF TakerStep

-----------------------------------------------------------------------------
(* The theorems.                                                           *)

\* The invariant holds at first.
LEMMA InitOK == SnapInit => SnapInv
<1> SUFFICES ASSUME SnapInit
             PROVE  SnapInv
  OBVIOUS
<1> USE DEF SnapInit
<1>1. AbsTypeOK /\ RowsLoggable
  BY DEF AbsInit, AbsTypeOK, RowsLoggable
<1>2. SnapTypeOK
  BY DEF SnapTypeOK
<1>3. PersistedResolvable /\ AssuredOK
  BY DEF PersistedResolvable, AssuredOK
<1>4. ASSUME NEW s \in Takers
      PROVE  TakerInv(s)
  BY NothingAgrees DEF TakerInv, PhaseOK, FoldOK, SteadyOK, FirstOK, StoredOK
<1> QED
  BY <1>1, <1>2, <1>3, <1>4 DEF SnapInv

\* A step of the snapshots' system is a step of the log or leaves the log alone.
LEMMA TakersOnlyRead == [SnapNext]_snapVars => [AbsNext]_absVars
<1>1. ASSUME NEW s \in Takers, TakerStep(s)
      PROVE  UNCHANGED absVars
  BY <1>1 DEF TakerStep, StartCheckout, StartDiff, Begin, RunQuery, FoldRow, TurnToSecond,
              FinishFold, PutState, PutManifest, InsertManifest, InsertMapping, Report,
              CrashTaker, Goto, LeaveTaker
<1> QED
  BY <1>1 DEF SnapNext, LogStep, snapVars

\* Every step keeps the invariant.
LEMMA SnapInvStep == SnapInv /\ [SnapNext]_snapVars => SnapInv'
<1> SUFFICES ASSUME SnapInv, [SnapNext]_snapVars
             PROVE  SnapInv'
  OBVIOUS
<1>1. [AbsNext]_absVars
  BY TakersOnlyRead
<1>2. AbsTypeOK' /\ RowsLoggable' /\ LogGrows
  BY <1>1, AbsTypeStep, LoggableStep, LogStepGrows DEF SnapInv
<1>3. CASE LogStep \/ UNCHANGED snapVars
  <2>1. /\ UNCHANGED <<step, point, second, found, left, states, first, docs, manifests,
                      mapping>>
        /\ assured' \subseteq {m \in assured : ~ Rewrites(m.point.ingest)}
    <3>1. CASE UNCHANGED snapVars
      BY <3>1, NothingRewritten DEF snapVars, takerVars, savedVars
    <3> QED
      BY <1>3, <3>1 DEF LogStep
  <2>2. /\ steady' \in [Takers -> BOOLEAN]
        /\ \A s \in Takers : steady'[s] =>
             steady[s] /\ (point[s] = None \/ ~ Rewrites(point[s].ingest))
    <3>1. CASE UNCHANGED snapVars
      BY <3>1, NothingRewritten DEF snapVars, takerVars, SnapInv, SnapTypeOK
    <3> QED
      BY <1>3, <3>1 DEF LogStep
  <2>3. ASSUME NEW s \in Takers
        PROVE  TakerInv(s)'
    <3>1. Same(s) /\ docs \subseteq docs' /\ manifests \subseteq manifests'
      BY <2>1, <2>2 DEF Same
    <3> QED
      BY <1>2, <3>1, OthersKept DEF SnapInv
  <2>4. SnapTypeOK'
    BY <1>2, <2>1, <2>2 DEF SnapTypeOK, SnapInv, LogGrows
  <2>5. PersistedResolvable'
    BY <2>1 DEF PersistedResolvable, SnapInv
  <2>6. AssuredOK'
    <3>1. \A m \in assured' : m.point \in Points /\ m \in assured /\ ~ Rewrites(m.point.ingest)
      BY <2>1 DEF SnapInv, SnapTypeOK, IsSnapshot
    <3>2. \A m \in assured' : Settled(m.point.ingest)' /\ View(m.point)' = View(m.point)
      BY <1>2, <3>1 DEF SnapInv, AssuredOK, LogGrows
    <3> QED
      BY <3>1, <3>2 DEF SnapInv, AssuredOK
  <2> QED
    BY <1>2, <2>3, <2>4, <2>5, <2>6 DEF SnapInv
<1>4. ASSUME NEW s \in Takers, TakerStep(s)
      PROVE  SnapInv'
  <2>1. StepOK(s)
    BY <1>4, TakerStepOK
  <2>2. ASSUME NEW t \in Takers
        PROVE  TakerInv(t)'
    <3>1. CASE t = s
      BY <2>1, <3>1 DEF StepOK
    <3>2. CASE t # s
      BY <1>2, <2>1, <3>2, OthersKept DEF StepOK, SnapInv
    <3> QED
      BY <3>1, <3>2
  <2> QED
    BY <1>2, <2>1, <2>2 DEF SnapInv, StepOK
<1> QED
  BY <1>3, <1>4 DEF SnapNext

\* The invariant holds at every moment of every run.
LEMMA SnapInvHolds == SnapSpec => []SnapInv
BY InitOK, SnapInvStep, PTL DEF SnapSpec

\* Every variable keeps its type, and a query never returns a row the log lacks.
THEOREM SnapTypeCorrect == SnapSpec => []SnapTypeOK
<1>1. SnapInv => SnapTypeOK
  BY DEF SnapInv
<1> QED
  BY <1>1, SnapInvHolds, PTL

\* At every turn of the fold each entity's state is that of the last writes to its
\* parts, for any log, any payload and any number of entities: what materialize
\* folds for all the entities together is what each of them ought to be.
THEOREM FoldIsLastWriteHolds == SnapSpec => []FoldIsLastWrite
<1>1. SnapInv => FoldIsLastWrite
  BY DEF SnapInv, TakerInv, FoldOK, FoldIsLastWrite
<1> QED
  BY <1>1, SnapInvHolds, PTL

\* Whenever a process dies, what is listed has its manifest and what is mapped has
\* its state: _persist writes in the order that needs no transaction.
THEOREM PersistedResolvableHolds == SnapSpec => []PersistedResolvable
<1>1. SnapInv => PersistedResolvable
  BY DEF SnapInv
<1> QED
  BY <1>1, SnapInvHolds, PTL

\* A snapshot of a settled point stays what the log says of that point.
THEOREM SteadySnapshotsHoldTrue == SnapSpec => []SteadySnapshotsHold
<1>1. SnapInv => SteadySnapshotsHold
  BY DEF SnapInv, AssuredOK, SteadySnapshotsHold
<1> QED
  BY <1>1, SnapInvHolds, PTL

-----------------------------------------------------------------------------
(* What the rows say of an entity, if none of them tie, is one state.      *)

\* Untied rows have at most one last row.
LEMMA LastIsOne ==
  ASSUME NEW Q, \A r, q \in Q : r = q \/ Precedes(r, q) \/ Precedes(q, r),
         NEW X \in SUBSET Q, NEW r \in Last(X), NEW q \in Last(X)
  PROVE  r = q
BY DEF Last

\* Two states that agree with the same untied rows are the same state.
LEMMA LastWriteIsUnique ==
  ASSUME NEW a, NEW b, IsState(a), IsState(b), NEW Q,
         \A r, q \in Q : r = q \/ Precedes(r, q) \/ Precedes(q, r),
         IsLastWrite(a, Q), IsLastWrite(b, Q)
  PROVE  a = b
<1>1. a.payload = b.payload
  <2>1. /\ DOMAIN a.payload = UNION {DOMAIN Fields(r.event) : r \in Merges(Q)}
        /\ DOMAIN b.payload = UNION {DOMAIN Fields(r.event) : r \in Merges(Q)}
    BY DEF IsLastWrite, PayloadIsLast
  <2>2. ASSUME NEW f \in DOMAIN a.payload
        PROVE  a.payload[f] = b.payload[f]
    <3>1. Writes(Q, f) \in SUBSET Q
      BY DEF Writes, Merges
    <3>2. PICK r \in Last(Writes(Q, f)) : a.payload[f] = Fields(r.event)[f]
      BY DEF IsLastWrite, PayloadIsLast
    <3>3. PICK q \in Last(Writes(Q, f)) : b.payload[f] = Fields(q.event)[f]
      BY <2>1 DEF IsLastWrite, PayloadIsLast
    <3>4. r = q
      BY <3>1, LastIsOne
    <3> QED
      BY <3>2, <3>3, <3>4
  <2> QED
    BY <2>1, <2>2 DEF IsState
<1>2. a.edges = b.edges
  <2>1. DOMAIN a.edges = Kinds(Links(Q)) /\ DOMAIN b.edges = Kinds(Links(Q))
    BY DEF IsLastWrite, EdgesAreLast
  <2>2. ASSUME NEW l \in Links(Q)
        PROVE  l.event.target.to \in a.edges[l.event.target.kind]
                 <=> l.event.target.to \in b.edges[l.event.target.kind]
    <3> DEFINE X == Ties(Q, l.event.target)
    <3>1. X \in SUBSET Q
      BY DEF Ties
    <3>2. PICK r \in Last(X) :
            l.event.target.to \in a.edges[l.event.target.kind] <=> r.event.op = "upsert_edge"
      BY DEF IsLastWrite, EdgesAreLast
    <3>3. PICK q \in Last(X) :
            l.event.target.to \in b.edges[l.event.target.kind] <=> q.event.op = "upsert_edge"
      BY DEF IsLastWrite, EdgesAreLast
    <3>4. r = q
      BY <3>1, LastIsOne
    <3> QED
      BY <3>2, <3>3, <3>4
  <2>3. ASSUME NEW kind \in DOMAIN a.edges
        PROVE  a.edges[kind] = b.edges[kind]
    <3>1. ASSUME NEW to \in a.edges[kind]
          PROVE  to \in b.edges[kind]
      <4>1. PICK l \in Links(Q) : l.event.target = [kind |-> kind, to |-> to]
        BY <3>1 DEF IsLastWrite, EdgesAreLast
      <4>2. l.event.target.kind = kind /\ l.event.target.to = to
        BY <4>1
      <4> QED
        BY <2>2, <3>1, <4>2
    <3>2. ASSUME NEW to \in b.edges[kind]
          PROVE  to \in a.edges[kind]
      <4>1. PICK l \in Links(Q) : l.event.target = [kind |-> kind, to |-> to]
        BY <2>1, <3>2 DEF IsLastWrite, EdgesAreLast
      <4>2. l.event.target.kind = kind /\ l.event.target.to = to
        BY <4>1
      <4> QED
        BY <2>2, <3>2, <4>2
    <3> QED
      BY <3>1, <3>2
  <2> QED
    BY <2>1, <2>3 DEF IsState
<1>3. a.deleted = b.deleted
  <2>1. a.deleted \in BOOLEAN /\ b.deleted \in BOOLEAN
    BY DEF IsState
  <2>2. CASE Births(Q) = {}
    BY <2>1, <2>2 DEF IsLastWrite, TombstoneIsLast
  <2>3. CASE Births(Q) # {}
    <3>1. Births(Q) \in SUBSET Q
      BY DEF Births
    <3>2. PICK r \in Last(Births(Q)) : a.deleted <=> r.event.op = "delete_entity"
      BY <2>3 DEF IsLastWrite, TombstoneIsLast
    <3>3. PICK q \in Last(Births(Q)) : b.deleted <=> q.event.op = "delete_entity"
      BY <2>3 DEF IsLastWrite, TombstoneIsLast
    <3>4. r = q
      BY <3>1, LastIsOne
    <3> QED
      BY <2>1, <3>2, <3>3, <3>4
  <2> QED
    BY <2>2, <2>3
<1> QED
  BY <1>1, <1>2, <1>3 DEF IsState

\* What two halves of a diff say of an entity that nothing happened to is the same.
THEOREM DiffShowsOnlyWindowHolds == SnapSpec => []DiffShowsOnlyWindow
<1>1. SnapInv => DiffShowsOnlyWindow
  <2> SUFFICES ASSUME SnapInv, NEW s \in Takers,
                      step[s] = "report", steady[s], Untied(View(point[s])),
                      first[s].point.valid <= point[s].valid,
                      NEW k,
                      \A r \in View(point[s]) :
                        r.event.entity = k => ~ (first[s].point.valid < r.event.validAt)
               PROVE  LET diff == Diff(first[s], Taken(s))
                      IN  k \notin diff.added \cup diff.removed \cup diff.changed
    BY DEF DiffShowsOnlyWindow
  <2> DEFINE a == first[s].states
             b == states[s]
             R == View(first[s].point)
             S == View(point[s])
             Q == Of(S, k)
  <2>1. /\ point[s] \in Points /\ left[s] = {} /\ first[s].point \in Points
        /\ AreStates(a) /\ AreStates(b) /\ Agree(a, R) /\ Agree(b, S)
        /\ first[s].point.app = point[s].app /\ first[s].point.ingest = point[s].ingest
    <3>1. left[s] = {}
      BY DEF SnapInv, TakerInv, PhaseOK
    <3>2. found[s] \ left[s] = found[s]
      BY <3>1
    <3> QED
      BY <3>1, <3>2 DEF SnapInv, TakerInv, PhaseOK, FoldOK, SteadyOK, FirstOK, IsSnapshot
  <2>2. \A r \in rows : r.event.validAt \in Int
    BY EventsAssumption DEF SnapInv, RowsLoggable
  <2>3. Of(R, k) = Q
    BY <2>1, <2>2 DEF Of, View, Points
  <2>4. k \in DOMAIN a <=> k \in DOMAIN b
    <3>1. k \in DOMAIN a <=> Of(R, k) # {}
      BY <2>1 DEF Agree, Of
    <3>2. k \in DOMAIN b <=> Of(S, k) # {}
      BY <2>1 DEF Agree, Of
    <3> QED
      BY <2>3, <3>1, <3>2
  <2>5. ASSUME k \in DOMAIN b
        PROVE  a[k] = b[k]
    <3>1. IsState(a[k]) /\ IsState(b[k]) /\ IsLastWrite(a[k], Q) /\ IsLastWrite(b[k], Q)
      BY <2>1, <2>3, <2>4, <2>5 DEF AreStates, Agree
    <3>2. \A r, q \in Q : r = q \/ Precedes(r, q) \/ Precedes(q, r)
      BY DEF Untied, Of
    <3> HIDE DEF Q, a, b
    <3> QED
      BY <3>1, <3>2, LastWriteIsUnique
  <2> QED
    BY <2>4, <2>5 DEF Diff, Live, Taken
<1> QED
  BY <1>1, SnapInvHolds, PTL

\* Checkouts and diffs only read the log: beside any number of them it is the
\* abstract log, so a view that is settled when a process begins its checkout is
\* the same when the next one comes back to it, unless a pass or a bulk load has gone
\* back behind it.
THEOREM TakersKeepLog == SnapSpec => AbsSpec /\ SettledIsFinal
<1>1. SnapInit => AbsInit
  BY DEF SnapInit
<1>2. [SnapNext]_snapVars => [AbsNext]_absVars
  BY TakersOnlyRead
<1> QED
  BY <1>1, <1>2, SettledViewsAreFinal, PTL DEF SnapSpec, AbsSpec

=============================================================================

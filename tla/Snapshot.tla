------------------------------ MODULE Snapshot ------------------------------
(***************************************************************************)
(* SnapshotMaterializer: processes that check out the state at a           *)
(* bitemporal point, or diff the states at two points, while others append *)
(* to the log, which is the abstract one that EventLog implements.  A      *)
(* materialization is one query, then a fold over the rows it returned; a  *)
(* checkout then stores the state blob, the manifest blob, the manifest    *)
(* row and the row that maps the snapshot to its state blob, each in a     *)
(* statement of its own.                                                   *)
(*                                                                         *)
(* An entity is a record [app, id]; a payload is a function from fields to *)
(* values and an edge target a record [kind, to].  version_count and       *)
(* last_valid_at are left out: no version hash and no state blob has them. *)
(* A hash stands for what is hashed, so a snapshot's root is its states.   *)
(***************************************************************************)
EXTENDS BitemporalLog, FiniteSets

CONSTANTS
  Takers,     \* processes that materialize
  Apps,       \* applications
  AllApps,    \* app when no application is given
  Latest,     \* valid and ingest when no instant is given
  Checkouts,  \* the points [app, valid, ingest] asked for
  Diffs,      \* the arguments [app, before, after] of "omb saasgit diff"
  NoBlob,     \* an absent payload or edge target
  None,       \* an absent point or snapshot
  MaxDocs     \* bound: no checkout begins once this many blobs are stored

Scopes == Apps \cup {AllApps}
Points == [app : Scopes, valid : Int, ingest : Nat]

ASSUME PointsAssumption ==
  /\ \A c \in Checkouts :
       /\ c.app \in Scopes
       /\ c.valid \in Int \cup {Latest} /\ c.ingest \in Nat \cup {Latest}
  /\ Diffs \subseteq [app : Scopes, before : Int, after : Nat]
  /\ None \notin Points

\* The ops of schema.py: the ones that merge a payload, and the edge ones.
Upserts == {"upsert_entity", "append_version", "permission_change",
            "comment_add", "reaction_add", "status_change"}
EdgeOps == {"upsert_edge", "delete_edge"}

Loggable == Events \cup UNION {{es[i].event : i \in 1 .. Len(es)} : es \in Bulk}

ASSUME EventsAssumption ==
  \A e \in Loggable :
    /\ e.op \in Upserts \cup EdgeOps \cup {"delete_entity"}
    /\ e.validAt \in Int
    /\ e.op \in EdgeOps => e.target = [kind |-> e.target.kind, to |-> e.target.to]

VARIABLES
  step,        \* step[s]: where taker s stands
  point,       \* point[s]: the point s materializes
  second,      \* second[s]: the point a diff materializes next, or None
  found,       \* found[s]: the rows the query returned
  left,        \* left[s]: those not folded yet
  states,      \* states[s]: the entity states folded so far
  first,       \* first[s]: the first snapshot of a diff, or None
  steady,      \* history: steady[s]: every query of s was at a settled instant,
               \* and nobody has gone back behind it since
  docs,        \* the state and manifest blobs stored
  manifests,   \* snapshot_manifests: the snapshots listed
  mapping,     \* the _snapshot_state rows: the snapshots with a state
  assured      \* history: the snapshots listed that were taken steadily, and
               \* behind whose point nobody has gone back since

takerVars == <<step, point, second, found, left, states, first, steady>>
savedVars == <<docs, manifests, mapping, assured>>
snapVars  == <<absVars, takerVars, savedVars>>

-----------------------------------------------------------------------------
(* The fold.                                                               *)

NoFields == [f \in {} |-> NoBlob]

\* A row's payload once loaded: the empty dict if the row has none.
Fields(e) == IF e.payload = NoBlob THEN NoFields ELSE e.payload

\* EntityState() and the states dict, empty.
NewState == [payload |-> NoFields, edges |-> [kind \in {} |-> {}], deleted |-> FALSE]
NoStates == [k \in {} |-> NewState]

\* dict.update: old with the entries of new.
Updated(old, new) ==
  [x \in DOMAIN old \cup DOMAIN new |-> IF x \in DOMAIN new THEN new[x] ELSE old[x]]

\* dict.get.
Get(dict, x, default) == IF x \in DOMAIN dict THEN dict[x] ELSE default

\* The edges with the target t added, or discarded if its kind is known.
AddEdge(edges, t) ==
  [kind \in DOMAIN edges \cup {t.kind} |->
     Get(edges, kind, {}) \cup (IF kind = t.kind THEN {t.to} ELSE {})]
DropEdge(edges, t) ==
  [kind \in DOMAIN edges |-> IF kind = t.kind THEN edges[kind] \ {t.to} ELSE edges[kind]]

\* Mutant: a tombstone is never cleared.
ApplyKeepTombstone(state, e) ==
  CASE e.op = "delete_entity" -> [state EXCEPT !.deleted = TRUE]
    [] e.op = "upsert_edge"   -> [state EXCEPT !.edges = AddEdge(state.edges, e.target)]
    [] e.op = "delete_edge"   -> [state EXCEPT !.edges = DropEdge(state.edges, e.target)]
    [] OTHER                  -> [state EXCEPT !.payload = Updated(state.payload, Fields(e))]

\* _apply: one row on the state of its entity.
Apply(state, e) ==
  CASE e.op = "delete_entity" -> [state EXCEPT !.deleted = TRUE]
    [] e.op = "upsert_edge"   -> [state EXCEPT !.edges = AddEdge(state.edges, e.target)]
    [] e.op = "delete_edge"   -> [state EXCEPT !.edges = DropEdge(state.edges, e.target)]
    [] OTHER                  -> [state EXCEPT !.deleted = FALSE, !.payload = Updated(state.payload, Fields(e))]

\* states.get(key), or a new state, and the row applied to it.
ApplyRow(known, e) ==
  [k \in DOMAIN known \cup {e.entity} |->
     IF k = e.entity THEN Apply(Get(known, k, NewState), e) ELSE known[k]]

-----------------------------------------------------------------------------
(* The query.                                                              *)

\* Mutant: the ingestion filter is lost.
ViewAnyIngest(p) ==
  {r \in rows : r.event.validAt <= p.valid /\ p.app \in {AllApps, r.event.entity.app}}

\* iter_events: the filter.
View(p) ==
  {r \in rows : /\ r.event.validAt <= p.valid
                /\ r.stamp <= p.ingest
                /\ p.app \in {AllApps, r.event.entity.app}}

\* ORDER BY valid_at, seq.
Precedes(r, q) ==
  /\ r # q
  /\ \/ r.event.validAt < q.event.validAt
     \/ r.event.validAt = q.event.validAt /\ r.seq < q.seq

Upcoming(R) == {r \in R : \A q \in R : ~ Precedes(q, r)}

-----------------------------------------------------------------------------
SnapInit ==
  /\ AbsInit
  /\ step = [s \in Takers |-> "rest"]
  /\ point = [s \in Takers |-> None]
  /\ second = [s \in Takers |-> None]
  /\ found = [s \in Takers |-> {}]
  /\ left = [s \in Takers |-> {}]
  /\ states = [s \in Takers |-> NoStates]
  /\ first = [s \in Takers |-> None]
  /\ steady = [s \in Takers |-> TRUE]
  /\ docs = {}
  /\ manifests = {}
  /\ mapping = {}
  /\ assured = {}

\* Mutant: no default.
InstantGiven(t) == t

\* as_of or utcnow().
Instant(t) == IF t = Latest THEN now ELSE t

\* Materializations of the point p and then, for a diff, of q.
Begin(s, p, q) ==
  /\ step[s] = "rest"
  /\ step' = [step EXCEPT ![s] = "query"]
  /\ point' = [point EXCEPT ![s] = p]
  /\ second' = [second EXCEPT ![s] = q]
  /\ UNCHANGED <<absVars, savedVars, found, left, states, first, steady>>

\* materialize: the instants default to now, before the query runs.
StartCheckout(s, c) ==
  /\ Cardinality(docs) < MaxDocs
  /\ Begin(s, [app |-> c.app, valid |-> Instant(c.valid), ingest |-> Instant(c.ingest)], None)

\* diff_cmd: two materializations as of the same ingestion instant.
StartDiff(s, d) ==
  Begin(s, [app |-> d.app, valid |-> d.before, ingest |-> d.after],
           [app |-> d.app, valid |-> d.after, ingest |-> d.after])

\* The SELECT returns all its rows at once.
RunQuery(s) ==
  /\ step[s] = "query"
  /\ step' = [step EXCEPT ![s] = "fold"]
  /\ found' = [found EXCEPT ![s] = View(point[s])]
  /\ left' = [left EXCEPT ![s] = View(point[s])]
  /\ states' = [states EXCEPT ![s] = NoStates]
  /\ steady' = [steady EXCEPT ![s] = (first[s] = None \/ @) /\ Settled(point[s].ingest)]
  /\ UNCHANGED <<absVars, savedVars, point, second, first>>

\* One turn of the loop, on the next row or, if some tie, any of them.
\* RowsResolvable says the payload's blob is there.
FoldRow(s) ==
  /\ step[s] = "fold"
  /\ \E r \in Upcoming(left[s]) :
       /\ states' = [states EXCEPT ![s] = ApplyRow(@, r.event)]
       /\ left' = [left EXCEPT ![s] = @ \ {r}]
  /\ UNCHANGED <<absVars, savedVars, step, point, second, found, first, steady>>

\* The snapshot materialized; snapshot_id is the hash of these fields.
Taken(s) == [point |-> point[s], states |-> states[s]]

Folded(s) == step[s] = "fold" /\ left[s] = {}

\* The first half of a diff is materialized.
TurnToSecond(s) ==
  /\ Folded(s)
  /\ second[s] # None
  /\ first' = [first EXCEPT ![s] = Taken(s)]
  /\ point' = [point EXCEPT ![s] = second[s]]
  /\ second' = [second EXCEPT ![s] = None]
  /\ step' = [step EXCEPT ![s] = "query"]
  /\ UNCHANGED <<absVars, savedVars, found, left, states, steady>>

\* The last materialization is done: a checkout persists it, a diff reports.
FinishFold(s) ==
  /\ Folded(s)
  /\ second[s] = None
  /\ step' = [step EXCEPT ![s] = IF first[s] = None THEN "state" ELSE "report"]
  /\ UNCHANGED <<absVars, savedVars, point, second, found, left, states, first, steady>>

\* The blobs of a snapshot: the full state, and the manifest.
StateDoc(m)    == [kind |-> "state", of |-> m.states]
ManifestDoc(m) == [kind |-> "manifest", of |-> m]

Goto(s, next) ==
  /\ step' = [step EXCEPT ![s] = next]
  /\ UNCHANGED <<absVars, point, second, found, left, states, first, steady>>

\* _persist, in four statements.
PutState(s) ==
  /\ step[s] = "state"
  /\ docs' = docs \cup {StateDoc(Taken(s))}
  /\ Goto(s, "manifest")
  /\ UNCHANGED <<manifests, mapping, assured>>

PutManifest(s) ==
  /\ step[s] = "manifest"
  /\ docs' = docs \cup {ManifestDoc(Taken(s))}
  /\ Goto(s, "row")
  /\ UNCHANGED <<manifests, mapping, assured>>

\* Mutant: the mapping before the row it belongs to.
MappingFirst(s) ==
  /\ step[s] = "row"
  /\ mapping' = mapping \cup {Taken(s)}
  /\ Goto(s, "mapping")
  /\ UNCHANGED <<docs, manifests, assured>>

\* Replaces the row of the same snapshot.
InsertManifest(s) ==
  /\ step[s] = "row"
  /\ manifests' = manifests \cup {Taken(s)}
  /\ assured' = IF steady[s] THEN assured \cup {Taken(s)} ELSE assured
  /\ Goto(s, "mapping")
  /\ UNCHANGED <<docs, mapping>>

\* The taker returns, or dies with its locals.
LeaveTaker(s) ==
  /\ step' = [step EXCEPT ![s] = "rest"]
  /\ point' = [point EXCEPT ![s] = None]
  /\ second' = [second EXCEPT ![s] = None]
  /\ found' = [found EXCEPT ![s] = {}]
  /\ left' = [left EXCEPT ![s] = {}]
  /\ states' = [states EXCEPT ![s] = NoStates]
  /\ first' = [first EXCEPT ![s] = None]
  /\ steady' = [steady EXCEPT ![s] = TRUE]
  /\ UNCHANGED absVars

InsertMapping(s) ==
  /\ step[s] = "mapping"
  /\ mapping' = mapping \cup {Taken(s)}
  /\ LeaveTaker(s)
  /\ UNCHANGED <<docs, manifests, assured>>

\* diff_cmd prints the diff of the two snapshots.
Report(s) ==
  /\ step[s] = "report"
  /\ LeaveTaker(s)
  /\ UNCHANGED savedVars

CrashTaker(s) ==
  /\ step[s] # "rest"
  /\ LeaveTaker(s)
  /\ UNCHANGED savedVars

TakerStep(s) ==
  \/ \E c \in Checkouts : StartCheckout(s, c)
  \/ \E d \in Diffs : StartDiff(s, d)
  \/ RunQuery(s)
  \/ FoldRow(s)
  \/ TurnToSecond(s)
  \/ FinishFold(s)
  \/ PutState(s)
  \/ PutManifest(s)
  \/ InsertManifest(s)
  \/ InsertMapping(s)
  \/ Report(s)
  \/ CrashTaker(s)

\* The log goes on.
LogStep ==
  /\ AbsNext
  /\ steady' = [s \in Takers |->
                  steady[s] /\ (point[s] = None \/ ~ Rewrites(point[s].ingest))]
  /\ assured' = {m \in assured : ~ Rewrites(m.point.ingest)}
  /\ UNCHANGED <<step, point, second, found, left, states, first, docs, manifests, mapping>>

SnapNext == LogStep \/ \E s \in Takers : TakerStep(s)

SnapSpec == SnapInit /\ [][SnapNext]_snapVars

-----------------------------------------------------------------------------
(* diff_snapshots.                                                         *)

\* live_map: the entities that are not tombstones.
Live(m) == {k \in DOMAIN m.states : ~ m.states[k].deleted}

Diff(before, after) ==
  [added   |-> Live(after) \ Live(before),
   removed |-> Live(before) \ Live(after),
   changed |-> {k \in Live(before) \cap Live(after) : before.states[k] # after.states[k]}]

-----------------------------------------------------------------------------
(* The state an entity ought to have, by the last write to each part of it.*)

\* The rows of R that none of R comes after: one row, if no two tie.
Last(R) == {r \in R : \A q \in R : ~ Precedes(r, q)}

\* The rows of R that decide a field, the edge to t, and the tombstone.
Merges(R)    == {r \in R : r.event.op \in Upserts}
Writes(R, f) == {r \in Merges(R) : f \in DOMAIN Fields(r.event)}
Ties(R, t)   == {r \in R : r.event.op \in EdgeOps /\ r.event.target = t}
Links(R)     == {r \in R : r.event.op = "upsert_edge"}
Kinds(R)     == {r.event.target.kind : r \in R}
Births(R)    == {r \in R : r.event.op \notin EdgeOps}

PayloadIsLast(payload, R) ==
  /\ DOMAIN payload = UNION {DOMAIN Fields(r.event) : r \in Merges(R)}
  /\ \A f \in DOMAIN payload :
       \E r \in Last(Writes(R, f)) : payload[f] = Fields(r.event)[f]

EdgesAreLast(edges, R) ==
  /\ DOMAIN edges = Kinds(Links(R))
  /\ \A kind \in DOMAIN edges : \A to \in edges[kind] :
       \E r \in Links(R) : r.event.target = [kind |-> kind, to |-> to]
  /\ \A l \in Links(R) :
       \E r \in Last(Ties(R, l.event.target)) :
         l.event.target.to \in edges[l.event.target.kind] <=> r.event.op = "upsert_edge"

TombstoneIsLast(deleted, R) ==
  IF Births(R) = {} THEN ~ deleted
  ELSE \E r \in Last(Births(R)) : deleted <=> r.event.op = "delete_entity"

IsLastWrite(state, R) ==
  /\ PayloadIsLast(state.payload, R)
  /\ EdgesAreLast(state.edges, R)
  /\ TombstoneIsLast(state.deleted, R)

Of(R, k) == {r \in R : r.event.entity = k}

\* The states of all the entities of R.
Agree(known, R) ==
  /\ DOMAIN known = {r.event.entity : r \in R}
  /\ \A k \in DOMAIN known : IsLastWrite(known[k], Of(R, k))

\* No two rows of one entity tie, so that the fold has one result.
Untied(R) ==
  \A r, q \in R : r.event.entity = q.event.entity => r = q \/ Precedes(r, q) \/ Precedes(q, r)

-----------------------------------------------------------------------------
IsSnapshot(m) == m = [point |-> m.point, states |-> m.states] /\ m.point \in Points

SnapTypeOK ==
  /\ step \in [Takers -> {"rest", "query", "fold", "state", "manifest", "row", "mapping", "report"}]
  /\ point \in [Takers -> Points \cup {None}]
  /\ second \in [Takers -> Points \cup {None}]
  /\ found \in [Takers -> SUBSET rows]
  /\ left \in [Takers -> SUBSET rows]
  /\ DOMAIN states = Takers
  /\ DOMAIN first = Takers
  /\ \A s \in Takers : first[s] = None \/ IsSnapshot(first[s])
  /\ steady \in [Takers -> BOOLEAN]
  /\ \A m \in manifests : IsSnapshot(m)
  /\ assured \subseteq manifests

\* Every turn of the fold leaves each entity in the state the last writes to its
\* fields, its edges and its tombstone say, whatever the other entities' rows in
\* between: materialize and materialize_entity agree.
FoldIsLastWrite ==
  \A s \in Takers : step[s] = "fold" => Agree(states[s], found[s] \ left[s])

\* A snapshot listed has its manifest, a mapping belongs to a snapshot listed and
\* its state is in the store, wherever the process died: load_state and
\* get_manifest never raise.
PersistedResolvable ==
  /\ mapping \subseteq manifests
  /\ \A m \in manifests : ManifestDoc(m) \in docs
  /\ \A m \in mapping : StateDoc(m) \in docs

\* A snapshot taken at a settled point stays what the log says of that point while the
\* log goes on growing, until a pass or a bulk load goes back behind the point.
SteadySnapshotsHold == \A m \in assured : Agree(m.states, View(m.point))

\* A diff of two settled points, behind which nobody went back while it was made,
\* names only entities that something happened to between them, although its two
\* halves are separate queries.
DiffShowsOnlyWindow ==
  \A s \in Takers :
    step[s] = "report" /\ steady[s] /\ Untied(View(point[s])) =>
      LET before == first[s].point.valid
          diff   == Diff(first[s], Taken(s))
      IN  before <= point[s].valid =>
            \A k \in diff.added \cup diff.removed \cup diff.changed :
              \E r \in View(point[s]) : r.event.entity = k /\ before < r.event.validAt

=============================================================================

------------------------------- MODULE Memory -------------------------------
(***************************************************************************)
(* The memory store and what fills it: "omb memory compile", "omb memory   *)
(* bootstrap" and the curated seed, as processes over one database and one *)
(* knowledge base directory.  Candidates are extracted from trajectories   *)
(* and application state, scored, added one by one; then the resolver      *)
(* sweeps over the items it read and writes edges and active flags; then   *)
(* the active items are read again and written as documents.               *)
(*                                                                         *)
(* Every statement commits by itself, so each is an action, and a process  *)
(* may die or meet another one between any two.  Extraction, scoring and   *)
(* the order of the sweep are functions.                                   *)
(*                                                                         *)
(* A claim is its content words and whether a negation cue is in it.  An   *)
(* item's id stands for the hash of its four fields.  A confidence is kept *)
(* as 100 times its log-odds, which orders confidences the same way.       *)
(* Evidence blobs, provenance files and rendering are left out.            *)
(***************************************************************************)
EXTENDS Integers, Sequences, FiniteSets, SequencesExt

CONSTANTS
  Compilers,  \* the processes
  Inputs,     \* the sequences of runs a compile may load
  App,        \* application entities [type, name, about, lines], in the order synced
  Seed,       \* the curated items, in the order of the file
  Ids,        \* every id that can occur
  IdRank,     \* the order of the ids as strings
  None,       \* an absent field
  MaxTime     \* bound on the clock

Unset == -1
Acls  == {"personal", "project", "team"}
Draft == [id : Ids, conf : Int, acl : Acls, created : Nat \cup {Unset}]
Item  == [id : Ids, conf : Int, acl : Acls, created : Nat]

Id(type, namespace, subject, claim) ==
  [type |-> type, namespace |-> namespace, subject |-> subject, claim |-> claim]

-----------------------------------------------------------------------------
\* Extraction.  A run is [spans, emitted]; a span is [kind, says, text, tool], says
\* being the patterns its text matches.
Candidate(kind, namespace, text, hint, source) ==
  [kind |-> kind, namespace |-> namespace, subject |-> None, text |-> text,
   hint |-> hint, source |-> source, occurrences |-> 1, entity |-> None]

\* extract_from_trajectory: a correction needs a tool call before it; otherwise it
\* is tried as a norm, then as a preference.
Spoken(as, text) ==
  CASE as = "correction" -> Candidate("procedural", "user", text, 60, "correction")
    [] as = "norm"       -> Candidate("semantic", "team", text, 55, "explicit")
    [] as = "preference" -> Candidate("semantic", "user", text, 70, "explicit")

FromTurn(spans, i) ==
  LET afterTool == \E j \in 1 .. i - 1 : spans[j].kind = "tool"
      heard == SelectSeq(<<"correction", "norm", "preference">>,
                 LAMBDA as : as \in spans[i].says /\ (as = "correction" => afterTool))
  IN  IF spans[i].kind = "user" /\ heard # <<>>
      THEN <<Spoken(heard[1], spans[i].text)>> ELSE <<>>

FromTrajectory(run) ==
  run.emitted \o FlattenSeq([i \in 1 .. Len(run.spans) |-> FromTurn(run.spans, i)])

\* extract_repeated_procedures: a sequence of two tools or more in two runs or more.
Tools(run) ==
  LET calls == SelectSeq(run.spans, LAMBDA s : s.kind = "tool")
  IN  [i \in 1 .. Len(calls) |-> calls[i].tool]

Repeated(runs) ==
  LET Doing(i) == {j \in 1 .. Len(runs) : Tools(runs[j]) = Tools(runs[i])}
      Procedure(i) ==
        [Candidate("procedural", "team",
                   [words |-> {"repeated", "workflow"} \cup ToSet(Tools(runs[i])),
                    negated |-> FALSE], 60, "procedure")
          EXCEPT !.occurrences = Cardinality(Doing(i))]
      First(i) == /\ Len(Tools(runs[i])) >= 2
                  /\ Cardinality(Doing(i)) >= 2
                  /\ \A j \in Doing(i) : i <= j
  IN  FlattenSeq([i \in 1 .. Len(runs) |-> IF First(i) THEN <<Procedure(i)>> ELSE <<>>])

\* extract_from_app_state: the lines of messages and documents that state a norm.
FromAppState(known) ==
  LET Norm(e, line) ==
        [Candidate("semantic", IF e.type = "document" THEN "project" ELSE "team",
                   line, 50, "app_norm") EXCEPT !.entity = e.type]
      Read(e) == IF e.type \in {"message", "document"} THEN e.lines ELSE <<>>
  IN  FlattenSeq([i \in 1 .. Len(known) |->
        [j \in 1 .. Len(Read(known[i])) |-> Norm(known[i], known[i].lines[j])]])

\* score_candidate, in hundredths of log-odds.
Reliability ==
  [explicit |-> 102, correction |-> 96, procedure |-> 84, app_norm |-> 72]

Score(c, corroborating) ==
  (IF c.source \in {"explicit", "correction"} THEN 180 ELSE 0)
  + 50 * (c.occurrences - 1) + 60 * corroborating + Reliability[c.source]
  - (100 - (IF c.hint = None THEN 60 ELSE c.hint)) - 50

\* PROMOTION_THRESHOLD: a confidence of 0.42.
Threshold == -32

\* _to_item, with the subject inferred for a candidate that names none.
Inferred(c) ==
  CASE c.namespace = "user"    -> "user"
    [] c.namespace = "team"    -> "team-norms"
    [] c.namespace = "project" -> IF c.entity = None THEN "project" ELSE c.entity
    [] OTHER                   -> "general"

ToItem(c, conf) ==
  [id |-> Id(c.kind, c.namespace, IF c.subject = None THEN Inferred(c) ELSE c.subject,
             c.text),
   conf |-> conf,
   acl |-> CASE c.namespace = "user"    -> "personal"
             [] c.namespace = "project" -> "project"
             [] OTHER                   -> "team",
   created |-> Unset]

\* compile, up to the items it adds: every candidate whose score reaches the
\* threshold, corroborated by the others with the same kind, namespace and text.
Promoted(runs, known) ==
  LET cands == FlattenSeq([i \in 1 .. Len(runs) |-> FromTrajectory(runs[i])])
               \o Repeated(runs) \o FromAppState(known)
      Key(c) == <<c.kind, c.namespace, c.text>>
      Conf(c) == Score(c, Cardinality({i \in 1 .. Len(cands) :
                                         Key(cands[i]) = Key(c)}) - 1)
      kept == SelectSeq(cands, LAMBDA c : Conf(c) >= Threshold)
  IN  [i \in 1 .. Len(kept) |-> ToItem(kept[i], Conf(kept[i]))]

\* _structured_facts: what users, channels and documents say of themselves.
Fact(e) ==
  LET Stated(namespace, subject, conf, acl) ==
        [id |-> Id("semantic", namespace, subject,
                   [words |-> {e.name, e.about}, negated |-> FALSE]),
         conf |-> conf, acl |-> acl, created |-> Unset]
  IN  CASE e.type = "user"     -> Stated("user", e.name, 85, "team")
        [] e.type = "channel"  -> Stated("team", "channels", 62, "team")
        [] e.type = "document" -> Stated("project", e.name, 41, "project")

Facts(known) ==
  LET stating == SelectSeq(known, LAMBDA e :
                   e.type \in {"user", "channel", "document"} /\ e.about # None)
  IN  [i \in 1 .. Len(stating) |-> Fact(stating[i])]

ASSUME InputsAssumption ==
  /\ Seed \in Seq(Draft) /\ Len(App) \in Nat
  /\ \A n \in 0 .. Len(App) :
       /\ Facts(SubSeq(App, 1, n)) \in Seq(Draft)
       /\ \A runs \in Inputs \cup {<<>>} : Promoted(runs, SubSeq(App, 1, n)) \in Seq(Draft)

ASSUME IdRankAssumption ==
  /\ IdRank \in [Ids -> Nat]
  /\ \A x, y \in Ids : IdRank[x] = IdRank[y] => x = y

-----------------------------------------------------------------------------
\* Contradiction and rank.

\* contradicts: one subject, opposite polarity, and at least half of the words
\* either uses used by both.
SameGroup(x, y) ==
  x.id.namespace = y.id.namespace /\ x.id.subject = y.id.subject

Contradicts(x, y) ==
  LET u == x.id.claim.words
      v == y.id.claim.words
  IN  /\ SameGroup(x, y)
      /\ x.id.claim.negated # y.id.claim.negated
      /\ u # {} /\ v # {}
      /\ 2 * Cardinality(u \cap v) >= Cardinality(u \cup v)

AclPriority == [personal |-> 3, project |-> 2, team |-> 1]

\* _rank's key: confidence, then recency, then acl.
KeyAtLeast(x, y) ==
  \/ x.conf > y.conf
  \/ /\ x.conf = y.conf
     /\ \/ x.created > y.created
        \/ /\ x.created = y.created
           /\ AclPriority[x.acl] >= AclPriority[y.acl]

\* The order resolve_all sorts a group by: here the older comes first.
RankedBefore(x, y) ==
  \/ x.conf > y.conf
  \/ /\ x.conf = y.conf
     /\ \/ x.created < y.created
        \/ /\ x.created = y.created
           /\ IdRank[x.id] < IdRank[y.id]

\* Mutant: the first of the pair wins.
FirstOf(a, b) == a

\* _rank on a pair in sweep order.
Winner(a, b) == IF KeyAtLeast(a, b) THEN a ELSE b
Loser(a, b)  == IF Winner(a, b) = a THEN b ELSE a

\* path_for_subject: the document an item is shown in.
PathOf(x) ==
  [folder |-> CASE x.id.namespace = "user"    -> "people"
                [] x.id.namespace = "project" -> "projects"
                [] x.id.namespace = "team"    -> "norms"
                [] OTHER                      -> "timeline",
   slug |-> x.id.subject]

-----------------------------------------------------------------------------
VARIABLES
  now,      \* the wall clock
  synced,   \* how many of App's entities are in the event log
  items,    \* memory_items without the active column
  active,   \* the ids whose active column is 1
  edges,    \* memory_edges: [src, relation, dst]
  docs,     \* docs[path]: the items the document shows
  pc,       \* pc[p]: where process p stands
  job,      \* job[p]: what p was started for
  todo,     \* todo[p]: the items it has still to add
  read,     \* read[p]: the items its sweep, then its writing, works on
  gone,     \* gone[p]: the ids its sweep has inactivated
  pair,     \* pair[p]: winner and loser of the pair being resolved
  unwritten,\* unwritten[p]: the documents it has still to write
  alone     \* history: nobody else changed items or documents since p read them

store == <<items, active, edges, docs>>
world == <<now, synced>>
local == <<pc, job, todo, read, gone, pair, unwritten>>
memVars == <<now, synced, items, active, edges, docs,
             pc, job, todo, read, gone, pair, unwritten, alone>>

Known     == SubSeq(App, 1, synced)
Stored    == {x.id : x \in items}
Actives   == {x \in items : x.id \in active}
Paths     == {PathOf([id |-> i]) : i \in Ids}
At(p, at) == pc[p] = at

Steps == {"idle", "add", "insert", "sweep", "contradict", "deactivate", "reactivate",
          "write"}
Jobs  == {"none", "seed", "bootstrap", "compile"}

MemInit ==
  /\ now = 0 /\ synced = 0
  /\ items = {} /\ active = {} /\ edges = {}
  /\ docs = [path \in Paths |-> {}]
  /\ pc = [p \in Compilers |-> "idle"]
  /\ job = [p \in Compilers |-> "none"]
  /\ todo = [p \in Compilers |-> <<>>]
  /\ read = [p \in Compilers |-> {}]
  /\ gone = [p \in Compilers |-> {}]
  /\ pair = [p \in Compilers |-> <<>>]
  /\ unwritten = [p \in Compilers |-> {}]
  /\ alone = [p \in Compilers |-> FALSE]

\* p wrote to the store: nobody else is alone with what it read.
Disturb(p) == alone' = [q \in Compilers |-> q = p /\ alone[q]]

\* The process is over, by return, exception or death: its locals are gone.
Leave(p) ==
  /\ pc' = [pc EXCEPT ![p] = "idle"]
  /\ job' = [job EXCEPT ![p] = "none"]
  /\ todo' = [todo EXCEPT ![p] = <<>>]
  /\ read' = [read EXCEPT ![p] = {}]
  /\ gone' = [gone EXCEPT ![p] = {}]
  /\ pair' = [pair EXCEPT ![p] = <<>>]
  /\ unwritten' = [unwritten EXCEPT ![p] = {}]

Goto(p, at) == pc' = [pc EXCEPT ![p] = at]

-----------------------------------------------------------------------------
Tick ==
  /\ now < MaxTime
  /\ now' = now + 1
  /\ UNCHANGED <<synced, store, local, alone>>

\* The sync worker logs another entity.
Sync ==
  /\ synced < Len(App)
  /\ synced' = synced + 1
  /\ UNCHANGED <<now, store, local, alone>>

Start(p, what, drafts) ==
  /\ job' = [job EXCEPT ![p] = what]
  /\ todo' = [todo EXCEPT ![p] = drafts]
  /\ Goto(p, "add")
  /\ UNCHANGED <<world, store, read, gone, pair, unwritten, alone>>

\* load_memory_seed.
LoadSeed(p) == At(p, "idle") /\ Start(p, "seed", Seed)

\* bootstrap: the facts are made, with one creation time, before any is added.
Bootstrap(p) ==
  LET facts == Facts(Known)
  IN  /\ At(p, "idle")
      /\ Start(p, "bootstrap",
               [i \in 1 .. Len(facts) |-> [facts[i] EXCEPT !.created = now]])

\* compile: the runs are loaded, the application state folded, candidates scored.
Compile(p, runs) == At(p, "idle") /\ Start(p, "compile", Promoted(runs, Known))

\* bootstrap's second part is a compile without runs.
CompileAfterFacts(p) ==
  /\ At(p, "add") /\ todo[p] = <<>> /\ job[p] = "bootstrap"
  /\ Start(p, "compile", Promoted(<<>>, Known))

SeedLoaded(p) ==
  /\ At(p, "add") /\ todo[p] = <<>> /\ job[p] = "seed"
  /\ Leave(p)
  /\ UNCHANGED <<world, store, alone>>

\* add: the SELECT, and the early return for an item already there, whose
\* confidence stays what it was.  A compiled item is created just before.
CheckItem(p) ==
  LET draft == Head(todo[p])
  IN  /\ At(p, "add") /\ todo[p] # <<>>
      /\ IF draft.id \in Stored
         THEN todo' = [todo EXCEPT ![p] = Tail(@)] /\ UNCHANGED pc
         ELSE /\ Goto(p, "insert")
              /\ todo' = [todo EXCEPT ![p][1].created =
                            IF @ = Unset THEN now ELSE @]
      /\ UNCHANGED <<world, store, job, read, gone, pair, unwritten, alone>>

\* Mutant: the row replaces the one another process has inserted.
ReplaceItem(p) ==
  LET x == Head(todo[p])
  IN  /\ At(p, "insert")
      /\ items' = {y \in items : y.id # x.id} \cup {x}
      /\ active' = active \cup {x.id}
      /\ todo' = [todo EXCEPT ![p] = Tail(@)]
      /\ Goto(p, "add")
      /\ Disturb(p)
      /\ UNCHANGED <<world, edges, docs, job, read, gone, pair, unwritten>>

\* add: the INSERT.
InsertItem(p) ==
  LET x == Head(todo[p])
  IN  /\ At(p, "insert")
      /\ x.id \notin Stored
      /\ items' = items \cup {x}
      /\ active' = active \cup {x.id}
      /\ todo' = [todo EXCEPT ![p] = Tail(@)]
      /\ Goto(p, "add")
      /\ Disturb(p)
      /\ UNCHANGED <<world, edges, docs, job, read, gone, pair, unwritten>>

\* ... which the primary key refuses if another process was faster.
InsertConflict(p) ==
  /\ At(p, "insert")
  /\ Head(todo[p]).id \in Stored
  /\ Leave(p)
  /\ UNCHANGED <<world, store, alone>>

-----------------------------------------------------------------------------
\* resolve_all: one query, active or not.
ReadItems(p) ==
  /\ At(p, "add") /\ todo[p] = <<>> /\ job[p] = "compile"
  /\ read' = [read EXCEPT ![p] = items]
  /\ Goto(p, "sweep")
  /\ alone' = [alone EXCEPT ![p] = TRUE]
  /\ UNCHANGED <<world, store, job, todo, gone, pair, unwritten>>

\* A pair the nested loops still resolve: neither of the two is inactivated yet.
Open(p, a, b) ==
  /\ RankedBefore(a, b)
  /\ Contradicts(a, b)
  /\ a.id \notin gone[p] /\ b.id \notin gone[p]

\* The one they come to first.  The groups do not share items, so the order in
\* which they are swept is left open.
NextPair(p, a, b) ==
  /\ Open(p, a, b)
  /\ ~ \E c, d \in read[p] :
         /\ Open(p, c, d) /\ SameGroup(a, c)
         /\ RankedBefore(c, a) \/ (c = a /\ RankedBefore(d, b))

Edge(x, relation, y) == [src |-> x.id, relation |-> relation, dst |-> y.id]

\* resolve_pair: the supersedes edge ...
Supersede(p) ==
  /\ At(p, "sweep")
  /\ \E a, b \in read[p] :
       /\ NextPair(p, a, b)
       /\ pair' = [pair EXCEPT ![p] = <<Winner(a, b), Loser(a, b)>>]
       /\ edges' = edges \cup {Edge(Winner(a, b), "supersedes", Loser(a, b))}
  /\ Goto(p, "contradict")
  /\ UNCHANGED <<world, items, active, docs, job, todo, read, gone, unwritten, alone>>

\* ... the contradicts edge ...
Contradict(p) ==
  /\ At(p, "contradict")
  /\ edges' = edges \cup {Edge(pair[p][2], "contradicts", pair[p][1])}
  /\ Goto(p, "deactivate")
  /\ UNCHANGED <<world, items, active, docs, job, todo, read, gone, pair, unwritten, alone>>

\* ... the loser's flag ...
Deactivate(p) ==
  /\ At(p, "deactivate")
  /\ active' = active \ {pair[p][2].id}
  /\ gone' = [gone EXCEPT ![p] = @ \cup {pair[p][2].id}]
  /\ Goto(p, "reactivate")
  /\ Disturb(p)
  /\ UNCHANGED <<world, items, edges, docs, job, todo, read, pair, unwritten>>

\* Mutant: the wrong one of the two is activated.
ReactivateLoser(p) ==
  /\ At(p, "reactivate")
  /\ active' = active \cup {pair[p][2].id}
  /\ pair' = [pair EXCEPT ![p] = <<>>]
  /\ Goto(p, "sweep")
  /\ Disturb(p)
  /\ UNCHANGED <<world, items, edges, docs, job, todo, read, gone, unwritten>>

\* ... and the winner's.  The loops have seen to it that the winner is not gone.
Reactivate(p) ==
  /\ At(p, "reactivate")
  /\ active' = active \cup {pair[p][1].id}
  /\ pair' = [pair EXCEPT ![p] = <<>>]
  /\ Goto(p, "sweep")
  /\ Disturb(p)
  /\ UNCHANGED <<world, items, edges, docs, job, todo, read, gone, unwritten>>

-----------------------------------------------------------------------------
\* Mutant: the documents show the items the sweep began with.
ListRead(p) ==
  /\ At(p, "sweep")
  /\ ~ \E a, b \in read[p] : Open(p, a, b)
  /\ unwritten' = [unwritten EXCEPT ![p] = {PathOf(x) : x \in read[p]}]
  /\ Goto(p, "write")
  /\ UNCHANGED <<world, store, job, todo, read, gone, pair, alone>>

\* The sweep is over; _write_kb asks once more, for the active items, and groups
\* them by document.
ListActive(p) ==
  /\ At(p, "sweep")
  /\ ~ \E a, b \in read[p] : Open(p, a, b)
  /\ read' = [read EXCEPT ![p] = Actives]
  /\ unwritten' = [unwritten EXCEPT ![p] = {PathOf(x) : x \in Actives}]
  /\ Goto(p, "write")
  /\ UNCHANGED <<world, store, job, todo, gone, pair, alone>>

WriteDocument(p) ==
  /\ At(p, "write")
  /\ \E path \in unwritten[p] :
       /\ docs' = [docs EXCEPT ![path] = {x \in read[p] : PathOf(x) = path}]
       /\ unwritten' = [unwritten EXCEPT ![p] = @ \ {path}]
  /\ Disturb(p)
  /\ UNCHANGED <<world, items, active, edges, pc, job, todo, read, gone, pair>>

Compiled(p) ==
  /\ At(p, "write") /\ unwritten[p] = {}
  /\ Leave(p)
  /\ UNCHANGED <<world, store, alone>>

\* The process is killed or an exception ends it.
Die(p) ==
  /\ ~ At(p, "idle")
  /\ Leave(p)
  /\ UNCHANGED <<world, store, alone>>

\* What a started process does.
Work(p) ==
  \/ CompileAfterFacts(p) \/ SeedLoaded(p)
  \/ CheckItem(p) \/ InsertItem(p) \/ InsertConflict(p)
  \/ ReadItems(p) \/ Supersede(p) \/ Contradict(p) \/ Deactivate(p) \/ Reactivate(p)
  \/ ListActive(p) \/ WriteDocument(p) \/ Compiled(p)

MemNext ==
  \/ Tick \/ Sync
  \/ \E p \in Compilers :
       \/ LoadSeed(p) \/ Bootstrap(p)
       \/ \E runs \in Inputs : Compile(p, runs)
       \/ Work(p) \/ Die(p)

MemSpec == MemInit /\ [][MemNext]_memVars

-----------------------------------------------------------------------------
MemTypeOK ==
  /\ now \in Nat
  /\ synced \in 0 .. Len(App)
  /\ items \subseteq Item
  /\ \A x, y \in items : x.id = y.id => x = y
  /\ active \subseteq Stored
  /\ edges \subseteq [src : Stored, relation : {"supersedes", "contradicts"}, dst : Stored]
  /\ docs \in [Paths -> SUBSET items]
  /\ pc \in [Compilers -> Steps]
  /\ job \in [Compilers -> Jobs]
  /\ todo \in [Compilers -> Seq(Draft)]
  /\ read \in [Compilers -> SUBSET items]
  /\ gone \in [Compilers -> SUBSET Stored]
  /\ unwritten \in [Compilers -> SUBSET Paths]
  /\ alone \in [Compilers -> BOOLEAN]
  /\ pair \in [Compilers -> {<<>>} \cup (items \X items)]
  /\ \A p \in Compilers :
       pc[p] \in {"contradict", "deactivate", "reactivate"} => pair[p] \in read[p] \X read[p]

\* The strict order behind the sweep: whom x beats in a contradiction.
Beats(x, y) == KeyAtLeast(x, y) /\ (KeyAtLeast(y, x) => RankedBefore(x, y))

\* No claim is inactive without a stored claim that contradicts it, ranks higher
\* and says so by an edge; so the strongest claim on a subject is always active,
\* whatever processes sweep with old rows or die in the middle of a sweep.
LosersAreBeaten ==
  \A x \in items : x.id \in active \/
    \E w \in items : /\ Contradicts(w, x) /\ Beats(w, x)
                     /\ Edge(w, "supersedes", x) \in edges

\* A sweep that nobody disturbed leaves no two active claims that contradict each
\* other, whatever earlier sweeps left behind.
SweepTakesSides ==
  \A p \in Compilers :
    At(p, "write") /\ alone[p] =>
      ~ \E x, y \in Actives : Contradicts(x, y)

\* A compile that nobody disturbed leaves in every document exactly the active
\* items, those of documents it did not write included: no document goes stale,
\* because the claims on a subject are never all inactive.
KbShowsView ==
  \A p \in Compilers :
    At(p, "write") /\ alone[p] /\ unwritten[p] = {} =>
      \A path \in Paths : docs[path] = {x \in Actives : PathOf(x) = path}

\* The record of what was believed is append only: no item or edge ever goes, and
\* no item's confidence or creation time changes, although add runs in several
\* processes.  An edge's own created_at is not in the model: every sweep replaces it.
BeliefsAreKept == [][items \subseteq items' /\ edges \subseteq edges']_memVars

=============================================================================

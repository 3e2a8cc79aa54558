---------------------------- MODULE WorkspaceSync ----------------------------
(***************************************************************************)
(* SlackSync, GDocsSync and GmailSync, and the loop that runs them.  A     *)
(* pass reads the whole document of its application, appends every event   *)
(* of it to the log and stores a cursor at the end; no cursor is ever read.*)
(* The worker's cycle, and "omb sync run all", is one pass after another   *)
(* in the order of DEFAULT_APPS, and an exception ends the cycle.          *)
(*                                                                         *)
(* An application's documents are what its source shows one after the      *)
(* other; a cursor is known by the document it came with.  An instant is a *)
(* number; created is 0 if the channel has none.  A payload is the         *)
(* sequence of what its fields hold.                                       *)
(***************************************************************************)
EXTENDS EventLog, SequencesExt, FiniteSetsExt

CONSTANTS
  Workers,      \* processes in run_forever; the others are commands someone runs
  Apps,         \* applications of the registry
  Plan,         \* Plan[w]: the applications w syncs in a cycle, in order
  Documents,    \* Documents[a]: the documents the source of a shows, in order
  MaxFailures   \* bound on the exceptions and kills of a behaviour

ASSUME WorkersAssumption == Workers \subseteq Writers

ASSUME PlanAssumption == Plan \in [Writers -> Seq(Apps) \ {<<>>}]

Change(entity, op, validAt, payload, source, target) ==
  [entity |-> entity, op |-> op, validAt |-> validAt, payload |-> payload,
   provenance |-> <<source>>, target |-> target]

\* What f makes of each item of s, one after the other.
Each(s, f(_)) == FlattenSeq([i \in 1 .. Len(s) |-> f(s[i])])

-----------------------------------------------------------------------------
(* SlackSync: [users, channels, edits], a user being [id, profile], a      *)
(* channel [id, created, topic, members, messages], a message              *)
(* [ts, text, reactions] and an edit [channel, ts, editedTs, text].        *)

\* user_valid_anchor: the earliest creation of a channel.
Anchor(d) ==
  LET created == {d.channels[i].created : i \in 1 .. Len(d.channels)} \ {0}
  IN  IF created = {} THEN 0 ELSE Min(created)

\* _emit_message: the message as posted, its reactions, its edits.
MessageEvents(c, m, edits) ==
  LET message == <<"slack", "message", c.id, m.ts>>
      React(r) == <<Change(message, "status_change", m.ts, <<r>>, "reactions", NoBlob)>>
      Edit(x)  == <<Change(message, "append_version", x.editedTs, <<x.text>> \o m.reactions,
                           "message_changed", NoBlob)>>
  IN  <<Change(message, "upsert_entity", m.ts, <<m.text>> \o m.reactions, "history", NoBlob)>>
      \o Each(m.reactions, React)
      \o Each(SelectSeq(edits, LAMBDA x : x.channel = c.id /\ x.ts = m.ts), Edit)

ChannelEvents(c, edits) ==
  LET channel == <<"slack", "channel", c.id>>
      Join(user) == <<Change(channel, "upsert_edge", c.created, NoBlob, "members", user)>>
      Post(m)    == MessageEvents(c, m, edits)
  IN  <<Change(channel, "upsert_entity", c.created, <<c.topic>>, "conversations", NoBlob)>>
      \o Each(c.members, Join)
      \o Each(c.messages, Post)

SlackEvents(d) ==
  LET User(u)    == <<Change(<<"slack", "user", u.id>>, "upsert_entity", Anchor(d), <<u.profile>>,
                             "users", NoBlob)>>
      Channel(c) == ChannelEvents(c, d.edits)
  IN  Each(d.users, User) \o Each(d.channels, Channel)

-----------------------------------------------------------------------------
(* GDocsSync: a sequence of [id, name, revisions], a revision being        *)
(* [modified, content].  GmailSync: a sequence of [id, date, labels].      *)

\* A time the source gives, or else the time of the pass.
TimeOr(time, ts) == IF time = NoBlob THEN ts ELSE time

\* The metadata, valid from the first revision, then each revision.
FileEvents(x, ts) ==
  LET file  == <<"gdocs", "document", x.id>>
      first == IF x.revisions = <<>> THEN ts ELSE TimeOr(x.revisions[1].modified, ts)
      Version(r) == <<Change(file, "append_version", TimeOr(r.modified, ts), <<x.name, r.content>>,
                             "export", NoBlob)>>
  IN  <<Change(file, "upsert_entity", first, <<x.name>>, "files", NoBlob)>>
      \o Each(x.revisions, Version)

MailEvents(m, ts) ==
  <<Change(<<"gmail", "message", m.id>>, "upsert_entity", TimeOr(m.date, ts), m.labels, "messages", NoBlob)>>

\* sync: the events of the n-th document of a, in a pass with timestamp ts.
\* The calendar's pass, which CalendarSync models, is an empty one here.
Emission(a, n, ts) ==
  LET d       == Documents[a][n]
      File(x) == FileEvents(x, ts)
      Mail(m) == MailEvents(m, ts)
  IN  CASE a = "slack" -> SlackEvents(d)
        [] a = "gdocs" -> Each(d, File)
        [] a = "gmail" -> Each(d, Mail)
        [] OTHER       -> <<>>

NumDocs(a) == Len(Documents[a])

\* The timestamps a pass may have.
Instants == (0 .. MaxTime) \cup Given

Passes ==
  [a \in Apps |-> [n \in 1 .. NumDocs(a) |-> [ts \in Instants |-> Emission(a, n, ts)]]]

ASSUME DocumentsAssumption ==
  \A a \in Apps :
    /\ NumDocs(a) \in Nat
    /\ \A n \in 1 .. NumDocs(a) : \A ts \in Instants : Passes[a][n][ts] \in Seq(Events)

ASSUME InstantAssumption == \A e \in Events : e.validAt \in Int

\* The events of a pass, and of all of a's passes.
Among(em) == {em[i] : i \in 1 .. Len(em)}
EventsOf(a) ==
  UNION {UNION {Among(Passes[a][n][ts]) : ts \in Instants} : n \in 1 .. NumDocs(a)}

\* entity_key has the application in it.
ASSUME EntitiesAssumption ==
  \A a, b \in Apps : \A e \in EventsOf(a), f \in EventsOf(b) : e.entity = f.entity => a = b

-----------------------------------------------------------------------------
VARIABLES
  published,   \* published[a]: the document a's source shows; 0 if it fails
  cursor,      \* sync_cursors: cursor[a], the document of the last pass ended
  leg,         \* leg[w]: where w is in Plan[w]
  loaded,      \* loaded[w]: the document w read
  item,        \* item[w]: the next event of it
  passed,      \* history: passed[a], the document of the last pass over a if
               \* that pass went to its end and none has begun since, or else 0
  failures     \* exceptions and kills so far

passVars == <<published, cursor, leg, loaded, item, passed, failures>>
wsVars   == <<logVars, passVars>>

AppOf(w)    == Plan[w][leg[w]]
Yields(w)   == Passes[AppOf(w)][loaded[w]][stamp[w]]

WsInit ==
  /\ Init
  /\ published = [a \in Apps |-> 0]
  /\ cursor = [a \in Apps |-> 0]
  /\ leg = [w \in Writers |-> 1]
  /\ loaded = [w \in Writers |-> 0]
  /\ item = [w \in Writers |-> 1]
  /\ passed = [a \in Apps |-> 0]
  /\ failures = 0

-----------------------------------------------------------------------------
\* The source shows something else.
Publish(a) ==
  /\ published[a] < NumDocs(a)
  /\ published' = [published EXCEPT ![a] = @ + 1]
  /\ UNCHANGED <<logVars, cursor, leg, loaded, item, passed, failures>>

\* Mutant: the cursor is stored before the events are appended.
StoreCursorFirst(w) ==
  /\ published[AppOf(w)] > 0
  /\ BeginPass(w)
  /\ loaded' = [loaded EXCEPT ![w] = published[AppOf(w)]]
  /\ cursor' = [cursor EXCEPT ![AppOf(w)] = published[AppOf(w)]]
  /\ passed' = [passed EXCEPT ![AppOf(w)] = 0]
  /\ UNCHANGED <<published, leg, item, failures>>

\* build_integration and _load read the document, run_sync takes the timestamp.
StartPass(w) ==
  /\ published[AppOf(w)] > 0
  /\ BeginPass(w)
  /\ loaded' = [loaded EXCEPT ![w] = published[AppOf(w)]]
  /\ passed' = [passed EXCEPT ![AppOf(w)] = 0]
  /\ UNCHANGED <<published, cursor, leg, item, failures>>

\* ... or raise: the cycle is over, and the next one starts from the first.
LoadFails(w) ==
  /\ At(w, "idle")
  /\ published[AppOf(w)] = 0
  /\ leg' = [leg EXCEPT ![w] = 1]
  /\ UNCHANGED <<logVars, published, cursor, loaded, item, passed, failures>>

\* The generator yields its next event and run_sync appends it.
YieldEvent(w) ==
  /\ At(w, "ready")
  /\ item[w] <= Len(Yields(w))
  /\ Emit(w, Yields(w)[item[w]])
  /\ item' = [item EXCEPT ![w] = @ + 1]
  /\ UNCHANGED <<published, cursor, leg, loaded, passed, failures>>

AppendYielded(w) ==
  /\ CheckExists(w) \/ PutPayload(w) \/ PutProvenance(w) \/ ReadLastSeq(w) \/ Insert(w)
  /\ UNCHANGED passVars

\* Mutant: the next generator takes up where this one stopped.
KeepItem(w, j) ==
  /\ leg' = [leg EXCEPT ![w] = j]
  /\ loaded' = [loaded EXCEPT ![w] = 0]
  /\ UNCHANGED item

\* The generator's locals go, and w is at leg j of its plan.
MoveTo(w, j) ==
  /\ leg' = [leg EXCEPT ![w] = j]
  /\ loaded' = [loaded EXCEPT ![w] = 0]
  /\ item' = [item EXCEPT ![w] = 1]

\* Mutants: the plan's end is not noticed; every pass is the last of its cycle.
RunOnLeg(w) == leg[w] + 1
FirstLeg(w) == 1

NextLeg(w) == IF leg[w] = Len(Plan[w]) THEN 1 ELSE leg[w] + 1

\* Mutant: the last event is not waited for.
FinishEarly(w) ==
  /\ At(w, "ready")
  /\ item[w] >= Len(Yields(w))
  /\ EndPass(w)
  /\ cursor' = [cursor EXCEPT ![AppOf(w)] = loaded[w]]
  /\ passed' = [passed EXCEPT ![AppOf(w)] = loaded[w]]
  /\ MoveTo(w, NextLeg(w))
  /\ UNCHANGED <<published, failures>>

\* set_cursor, and the generator returns: on to the next application.
FinishPass(w) ==
  /\ At(w, "ready")
  /\ item[w] > Len(Yields(w))
  /\ EndPass(w)
  /\ cursor' = [cursor EXCEPT ![AppOf(w)] = loaded[w]]
  /\ passed' = [passed EXCEPT ![AppOf(w)] = loaded[w]]
  /\ MoveTo(w, NextLeg(w))
  /\ UNCHANGED <<published, failures>>

\* Mutant: the integrity error is swallowed and the pass goes on.
SwallowConflict(w) ==
  /\ At(w, "insert")
  /\ hand[w] \in Logged
  /\ Return(w, "ready")
  /\ UNCHANGED <<rows, blobs, now, stamp>>
  /\ UNCHANGED passVars

\* An integrity error leaves run_sync and run_once and ends the cycle.
AppendConflict(w) ==
  /\ InsertConflict(w)
  /\ MoveTo(w, 1)
  /\ UNCHANGED <<published, cursor, passed, failures>>

\* So does any other exception; a kill does the same to the process.
Fail(w) ==
  /\ failures < MaxFailures
  /\ Crash(w) \/ (At(w, "idle") /\ UNCHANGED logVars)
  /\ MoveTo(w, 1)
  /\ failures' = failures + 1
  /\ UNCHANGED <<published, cursor, passed>>

CycleStep(w) ==
  \/ StartPass(w)
  \/ LoadFails(w)
  \/ YieldEvent(w)
  \/ AppendYielded(w)
  \/ FinishPass(w)
  \/ AppendConflict(w)

WsNext ==
  \/ Tick /\ UNCHANGED passVars
  \/ \E a \in Apps : Publish(a)
  \/ \E w \in Writers : CycleStep(w) \/ Fail(w)

WsSpec == WsInit /\ [][WsNext]_wsVars

\* run_forever starts the next cycle whatever the last one raised.
FairWsSpec == WsSpec /\ \A w \in Workers : WF_wsVars(CycleStep(w))

-----------------------------------------------------------------------------
WsTypeOK ==
  /\ TypeOK
  /\ published \in [Apps -> Nat]
  /\ \A a \in Apps : published[a] <= NumDocs(a) /\ {cursor[a], passed[a]} \subseteq 0 .. published[a]
  /\ cursor \in [Apps -> Nat]
  /\ passed \in [Apps -> Nat]
  /\ leg \in [Writers -> Nat]
  /\ loaded \in [Writers -> Nat]
  /\ \A w \in Writers :
       /\ leg[w] \in 1 .. Len(Plan[w])
       /\ loaded[w] \in 0 .. published[AppOf(w)]
       /\ loaded[w] = 0 <=> At(w, "idle")
  /\ item \in [Writers -> Nat \ {0}]
  /\ failures \in Nat

\* em holds every event before position i in the log, numbered before seq s.
LoggedBefore(em, i, s) ==
  \A j \in 1 .. i - 1 : \E q \in rows : q.event = em[j] /\ q.seq < s

\* The log is made of beginnings of passes, in order: whatever was killed, raised
\* or raced, an event is logged after every event its document puts before it, so
\* a message after its author, its channel and the members, and a revision after
\* its document's metadata ("Users first so message authors resolve").
PassPrefix ==
  \A r \in rows :
    \E a \in Apps : \E n \in 1 .. NumDocs(a) :
      LET em == Passes[a][n][r.stamp]
      IN  \E i \in 1 .. Len(em) : em[i] = r.event /\ LoggedBefore(em, i, r.seq)

\* A stored cursor stands for a pass whose every event is in the log, although the
\* exception that ends a pass and the death of a process leave the others there.
CursorMeansPass ==
  \A a \in Apps : cursor[a] > 0 =>
    \E ts \in (0 .. now) \cup Given : Among(Passes[a][cursor[a]][ts]) \subseteq Logged

\* The passes do to the log only what the event store allows.
ImplementsEventLog == Spec

\* Some worker reaches a in its cycle: the sources it visits before a answer.
Reached(a) ==
  \E w \in Workers : \E j \in 1 .. Len(Plan[w]) :
    Plan[w][j] = a /\ \A i \in 1 .. j - 1 : published[Plan[w][i]] > 0

\* What a source shows in the end is taken in, whole, whatever was killed or raised
\* on the way: but only behind sources that answer, for one that fails cycle after
\* cycle starves those that come after it.
TakenIn ==
  \A a \in Apps : (published[a] = NumDocs(a) /\ Reached(a)) ~> (cursor[a] = NumDocs(a))

-----------------------------------------------------------------------------
(* What the fold shows, and what the source shows.                         *)

IsContent(e) == e.op \in {"upsert_entity", "append_version"}

\* The content rows of an entity that none comes after in the fold.
Newest(k) ==
  LET content == {r \in rows : r.event.entity = k /\ IsContent(r.event)}
  IN  {r \in content : \A q \in content \ {r} :
         \/ q.event.validAt < r.event.validAt
         \/ q.event.validAt = r.event.validAt /\ q.seq < r.seq}

\* The content events of document n of a, and those that count, the last of their
\* entity by time and then by place.
Content(a, n) == {e \in Among(Passes[a][n][0]) : IsContent(e)}
Rivals(a, n, e) == {f \in Content(a, n) : f.entity = e.entity /\ f # e}
Under(a, n, f, e) ==
  LET em == Passes[a][n][0]
  IN  \E i \in 1 .. Len(em) : em[i] = f /\ \A j \in 1 .. i : em[j] # e
Shown ==
  [a \in Apps |-> [n \in 1 .. NumDocs(a) |->
     {e \in Content(a, n) : \A f \in Rivals(a, n, e) :
        f.validAt < e.validAt \/ (f.validAt = e.validAt /\ Under(a, n, f, e))}]]

\* The fold shows document n of a.
Shows(a, n) == \A e \in Shown[a][n] : {r.event : r \in Newest(e.entity)} = {e}

\* The applications that one process syncs, in one leg.
Alone ==
  {a \in Apps : \A w, v \in Writers : \A i \in 1 .. Len(Plan[w]) : \A j \in 1 .. Len(Plan[v]) :
     Plan[w][i] = a /\ Plan[v][j] = a => w = v /\ i = j}

\* Every time is given by the source.
Dated(a) ==
  \A n \in 1 .. NumDocs(a) : \A ts \in Instants : Passes[a][n][ts] = Passes[a][n][0]

\* No document goes back to content that an earlier one had and one in between
\* did not: whatever differs came before what is shown.
NeverReverts(a) ==
  \A n \in 1 .. NumDocs(a) : \A e \in Shown[a][n] :
    \A m \in 1 .. n : \A f \in Rivals(a, m, e) :
      \/ f.validAt < e.validAt
      \/ /\ f.validAt = e.validAt
         /\ \A l \in 1 .. m : e \in Content(a, l) => Under(a, l, f, e)

Steady == {a \in Alone : Dated(a) /\ NeverReverts(a)}

\* upsert_entity's docstring: "Create or update an entity's current state".  Once
\* a pass is through, and until the next begins, the fold shows what it read.
CurrentStateShown == \A a \in Alone : passed[a] > 0 => Shows(a, passed[a])

\* That is so of a source whose changes have times and never revert, whatever the
\* other passes put between its rows and wherever earlier passes broke off.
SteadySourceShown == \A a \in Steady : passed[a] > 0 => Shows(a, passed[a])

=============================================================================

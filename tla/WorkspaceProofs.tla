-------------------------- MODULE WorkspaceProofs --------------------------
(***************************************************************************)
(* Proofs about WorkspaceSync, for any applications, documents, plans and  *)
(* number of processes.                                                    *)
(***************************************************************************)
EXTENDS WorkspaceSync, EventLogProofs

\* The passes' own part of WsTypeOK, and the bounds of the clock.
Bounds ==
  /\ now <= MaxTime
  /\ \A w \in Writers : stamp[w] \in (0 .. now) \cup Given
  /\ published \in [Apps -> Nat]
  /\ cursor \in [Apps -> Nat]
  /\ passed \in [Apps -> Nat]
  /\ leg \in [Writers -> Nat]
  /\ loaded \in [Writers -> Nat]
  /\ item \in [Writers -> Nat \ {0}]
  /\ failures \in Nat
  /\ \A a \in Apps : published[a] <= NumDocs(a) /\ cursor[a] <= published[a] /\ passed[a] <= published[a]
  /\ \A w \in Writers :
       /\ leg[w] \in 1 .. Len(Plan[w])
       /\ loaded[w] <= published[AppOf(w)]
       /\ loaded[w] = 0 <=> pc[w] = "idle"

\* Every leg of a plan is an application, and there is a first one.
LEMMA PlanFacts ==
  ASSUME NEW w \in Writers
  PROVE  /\ Len(Plan[w]) \in Nat /\ 1 \in 1 .. Len(Plan[w])
         /\ \A j \in 1 .. Len(Plan[w]) : Plan[w][j] \in Apps
<1>1. Plan[w] \in Seq(Apps) /\ Plan[w] # <<>>
  BY PlanAssumption
<1>2. Len(Plan[w]) \in Nat /\ Len(Plan[w]) # 0
  BY <1>1
<1> QED
  BY <1>1, <1>2

\* What a process in a pass is to append is a sequence of events.
LEMMA YieldFacts ==
  ASSUME TypeOK, Bounds, NEW w \in Writers
  PROVE  /\ AppOf(w) \in Apps
         /\ pc[w] # "idle" =>
              /\ loaded[w] \in 1 .. NumDocs(AppOf(w)) /\ stamp[w] \in Instants
              /\ Yields(w) \in Seq(Events) /\ Len(Yields(w)) \in Nat
              /\ \A i \in 1 .. Len(Yields(w)) : Yields(w)[i] \in Events
<1>1. AppOf(w) \in Apps
  BY PlanFacts DEF AppOf, Bounds
<1>2. ASSUME pc[w] # "idle"
      PROVE  loaded[w] \in 1 .. NumDocs(AppOf(w)) /\ stamp[w] \in Instants
  <2>1. loaded[w] \in Nat /\ loaded[w] # 0 /\ loaded[w] <= published[AppOf(w)]
    BY <1>2 DEF Bounds
  <2>2. published[AppOf(w)] \in Nat /\ published[AppOf(w)] <= NumDocs(AppOf(w))
    BY <1>1 DEF Bounds
  <2>3. NumDocs(AppOf(w)) \in Nat
    BY <1>1, DocumentsAssumption
  <2>4. stamp[w] \in Instants
    <3>1. stamp[w] \in (0 .. now) \cup Given /\ now \in Nat /\ now <= MaxTime
      BY DEF TypeOK, Bounds
    <3> QED
      BY <3>1, MaxTimeAssumption DEF Instants
  <2> QED
    BY <2>1, <2>2, <2>3, <2>4, MaxTimeAssumption
<1>3. ASSUME pc[w] # "idle"
      PROVE  Yields(w) \in Seq(Events)
  BY <1>1, <1>2, <1>3, DocumentsAssumption DEF Yields
<1> QED
  BY <1>1, <1>2, <1>3

\* A step of the passes is a step of the log, or leaves it alone.
LEMMA WsStepIsLogStep ==
  ASSUME TypeOK, Bounds, [WsNext]_wsVars
  PROVE  [Next]_logVars
<1>1. CASE Tick
  BY <1>1 DEF Next
<1>2. ASSUME NEW a \in Apps, Publish(a)
      PROVE  UNCHANGED logVars
  BY <1>2 DEF Publish
<1>3. ASSUME NEW w \in Writers, YieldEvent(w)
      PROVE  Next
  <2>1. pc[w] # "idle" /\ item[w] \in Nat \ {0} /\ item[w] <= Len(Yields(w))
    BY <1>3 DEF YieldEvent, At, Bounds
  <2>2. Yields(w)[item[w]] \in Events
    BY <2>1, YieldFacts
  <2> QED
    BY <1>3, <2>2 DEF YieldEvent, Next
<1>4. ASSUME NEW w \in Writers, StartPass(w) \/ AppendYielded(w) \/ AppendConflict(w) \/ FinishPass(w)
      PROVE  Next
  BY <1>4 DEF StartPass, AppendYielded, AppendConflict, FinishPass, Next, AppendStep
<1>5. ASSUME NEW w \in Writers, LoadFails(w)
      PROVE  UNCHANGED logVars
  BY <1>5 DEF LoadFails
<1>6. ASSUME NEW w \in Writers, Fail(w)
      PROVE  Next \/ UNCHANGED logVars
  BY <1>6 DEF Fail, Next
<1>7. CASE UNCHANGED wsVars
  BY <1>7 DEF wsVars
<1> QED
  BY <1>1, <1>2, <1>3, <1>4, <1>5, <1>6, <1>7 DEF WsNext, CycleStep


-----------------------------------------------------------------------------
\* Moving on to a leg of the plan keeps within its bounds, if the process is idle.
LEMMA MoveBounds ==
  ASSUME TypeOK, Bounds, NEW w \in Writers, NEW j \in 1 .. Len(Plan[w]), MoveTo(w, j),
         \/ pc' = [pc EXCEPT ![w] = "idle"]
         \/ pc[w] = "idle" /\ pc' = pc
  PROVE  /\ leg' \in [Writers -> Nat] /\ loaded' \in [Writers -> Nat]
         /\ item' \in [Writers -> Nat \ {0}]
         /\ \A v \in Writers :
              /\ leg'[v] \in 1 .. Len(Plan[v])
              /\ loaded'[v] <= published[Plan[v][leg'[v]]]
              /\ loaded'[v] = 0 <=> pc'[v] = "idle"
<1>1. j \in Nat
  BY PlanFacts
<1>2. leg' \in [Writers -> Nat] /\ loaded' \in [Writers -> Nat] /\ item' \in [Writers -> Nat \ {0}]
  BY <1>1 DEF MoveTo, Bounds
<1>3. leg'[w] = j /\ loaded'[w] = 0 /\ pc'[w] = "idle"
  BY DEF MoveTo, Bounds, TypeOK
<1>4. published[Plan[w][j]] \in Nat
  BY PlanFacts DEF Bounds
<1>5. ASSUME NEW v \in Writers, v # w
      PROVE  leg'[v] = leg[v] /\ loaded'[v] = loaded[v] /\ pc'[v] = pc[v]
  BY <1>5 DEF MoveTo, Bounds, TypeOK
<1>6. ASSUME NEW v \in Writers
      PROVE  /\ leg'[v] \in 1 .. Len(Plan[v])
             /\ loaded'[v] <= published[Plan[v][leg'[v]]]
             /\ loaded'[v] = 0 <=> pc'[v] = "idle"
  <2>1. CASE v = w
    BY <2>1, <1>3, <1>4
  <2>2. CASE v # w
    BY <2>2, <1>5 DEF Bounds, AppOf
  <2> QED
    BY <2>1, <2>2
<1> QED
  BY <1>2, <1>6

\* The bounds hold at first.
LEMMA BoundsInit == WsInit => Bounds
<1> SUFFICES ASSUME WsInit
             PROVE  Bounds
  OBVIOUS
<1>1. \A w \in Writers : AppOf(w) \in Apps
  BY PlanFacts DEF WsInit, AppOf
<1>2. \A a \in Apps : NumDocs(a) \in Nat
  BY DocumentsAssumption
<1>3. \A a \in Apps : NumDocs(a) >= 0
  BY <1>2
<1> QED
  BY <1>1, <1>3, PlanFacts, MaxTimeAssumption DEF WsInit, Init, Bounds

\* Every step stays within the bounds.
LEMMA BoundsNext == TypeOK /\ Bounds /\ [WsNext]_wsVars => Bounds'
<1> SUFFICES ASSUME TypeOK, Bounds, [WsNext]_wsVars
             PROVE  Bounds'
  OBVIOUS
<1>1. CASE Tick /\ UNCHANGED passVars
  <2>1. now \in Nat /\ now < MaxTime /\ now' = now + 1 /\ UNCHANGED <<pc, stamp, passVars>>
    BY <1>1 DEF Tick, TypeOK
  <2>2. now' <= MaxTime
    BY <2>1, MaxTimeAssumption
  <2>3. \A w \in Writers : stamp'[w] \in (0 .. now') \cup Given
    BY <2>1 DEF Bounds, TypeOK
  <2> QED
    BY <2>1, <2>2, <2>3 DEF Bounds, AppOf, passVars
<1>2. ASSUME NEW a \in Apps, Publish(a)
      PROVE  Bounds'
  <2>1. /\ published' = [published EXCEPT ![a] = published[a] + 1] /\ published[a] \in Nat
        /\ NumDocs(a) \in Nat /\ published[a] + 1 <= NumDocs(a)
        /\ UNCHANGED <<pc, now, stamp, cursor, leg, loaded, item, passed, failures>>
    BY <1>2, DocumentsAssumption DEF Publish, logVars, Bounds
  <2>2. \A b \in Apps : published[b] <= published'[b] /\ published'[b] <= NumDocs(b) /\ published'[b] \in Nat
    BY <2>1 DEF Bounds
  <2>3. \A b \in Apps : cursor[b] <= published'[b] /\ passed[b] <= published'[b]
    BY <2>2 DEF Bounds
  <2>4. \A w \in Writers : loaded[w] <= published'[AppOf(w)]
    <3>1. \A w \in Writers : AppOf(w) \in Apps /\ loaded[w] \in Nat /\ loaded[w] <= published[AppOf(w)]
      BY YieldFacts DEF Bounds
    <3> QED
      BY <3>1, <2>2 DEF Bounds
  <2>5. published' \in [Apps -> Nat]
    BY <2>1 DEF Bounds
  <2> QED
    BY <2>1, <2>2, <2>3, <2>4, <2>5 DEF Bounds, AppOf
<1>3. ASSUME NEW w \in Writers, StartPass(w)
      PROVE  Bounds'
  <2> DEFINE a == AppOf(w)
  <2>1. /\ a \in Apps /\ published[a] \in Nat /\ published[a] > 0
        /\ pc' = [pc EXCEPT ![w] = "ready"]
        /\ \E ts \in {now} \cup Given : stamp' = [stamp EXCEPT ![w] = ts]
        /\ loaded' = [loaded EXCEPT ![w] = published[a]]
        /\ passed' = [passed EXCEPT ![a] = 0]
        /\ UNCHANGED <<now, published, cursor, leg, item, failures>>
    BY <1>3, YieldFacts DEF StartPass, BeginPass, Goto, Bounds
  <2>2. \A v \in Writers : stamp'[v] \in (0 .. now') \cup Given
    BY <2>1 DEF Bounds, TypeOK
  <2>3. passed' \in [Apps -> Nat] /\ \A b \in Apps : passed'[b] <= published[b]
    BY <2>1 DEF Bounds
  <2>4. /\ loaded' \in [Writers -> Nat]
        /\ \A v \in Writers : /\ loaded'[v] <= published[AppOf(v)]
                              /\ loaded'[v] = 0 <=> pc'[v] = "idle"
    BY <2>1 DEF Bounds, TypeOK
  <2> QED
    BY <2>1, <2>2, <2>3, <2>4 DEF Bounds, AppOf
<1>4. ASSUME NEW w \in Writers, LoadFails(w)
      PROVE  Bounds'
  <2>1. /\ leg' = [leg EXCEPT ![w] = 1] /\ pc[w] = "idle"
        /\ UNCHANGED <<pc, now, stamp, published, cursor, loaded, item, passed, failures>>
    BY <1>4 DEF LoadFails, At, logVars
  <2>2. /\ leg' \in [Writers -> Nat]
        /\ \A v \in Writers : /\ leg'[v] \in 1 .. Len(Plan[v])
                              /\ loaded[v] <= published[Plan[v][leg'[v]]]
    <3>1. ASSUME NEW v \in Writers, v # w
          PROVE  leg'[v] = leg[v]
      BY <3>1, <2>1 DEF Bounds
    <3>2. leg'[w] = 1 /\ loaded[w] = 0 /\ published[Plan[w][1]] \in Nat
      BY <2>1, PlanFacts DEF Bounds
    <3>3. leg' \in [Writers -> Nat]
      BY <2>1 DEF Bounds
    <3>4. ASSUME NEW v \in Writers
          PROVE  leg'[v] \in 1 .. Len(Plan[v]) /\ loaded[v] <= published[Plan[v][leg'[v]]]
      <4>1. CASE v = w
        BY <4>1, <3>2, PlanFacts
      <4>2. CASE v # w
        BY <4>2, <3>1 DEF Bounds, AppOf
      <4> QED
        BY <4>1, <4>2
    <3> QED
      BY <3>3, <3>4
  <2> QED
    BY <2>1, <2>2 DEF Bounds, AppOf
<1>5. ASSUME NEW w \in Writers, YieldEvent(w) \/ AppendYielded(w)
      PROVE  Bounds'
  <2>1. /\ UNCHANGED <<now, stamp, published, cursor, leg, loaded, passed, failures>>
        /\ item' = item \/ item' = [item EXCEPT ![w] = item[w] + 1]
        /\ pc[w] # "idle"
        /\ \E p \in Steps : p # "idle" /\ pc' = [pc EXCEPT ![w] = p]
    <3>1. CASE YieldEvent(w)
      BY <3>1 DEF YieldEvent, Emit, Goto, At, Steps
    <3>2. CASE AppendYielded(w)
      <4>1. UNCHANGED passVars /\ UNCHANGED <<now, stamp>> /\ pc[w] # "idle"
        BY <3>2 DEF AppendYielded, CheckExists, PutPayload, PutProvenance, ReadLastSeq, Insert, At
      <4>2. \E p \in Steps : p # "idle" /\ pc' = [pc EXCEPT ![w] = p]
        BY <3>2 DEF AppendYielded, CheckExists, PutPayload, PutProvenance, ReadLastSeq, Insert,
                    Goto, Return, Steps
      <4> QED
        BY <4>1, <4>2 DEF passVars
    <3> QED
      BY <1>5, <3>1, <3>2
  <2>2. item' \in [Writers -> Nat \ {0}]
    <3>1. item \in [Writers -> Nat \ {0}] /\ item[w] + 1 \in Nat \ {0}
      BY DEF Bounds
    <3> QED
      BY <2>1, <3>1
  <2>3. \A v \in Writers : pc'[v] = "idle" <=> pc[v] = "idle"
    BY <2>1 DEF TypeOK
  <2>4. \A v \in Writers : loaded'[v] = 0 <=> pc'[v] = "idle"
    BY <2>1, <2>3 DEF Bounds
  <2>5. \A v \in Writers : leg'[v] \in 1 .. Len(Plan[v]) /\ loaded'[v] <= published'[AppOf(v)']
    BY <2>1 DEF Bounds, AppOf
  <2> QED
    BY <2>1, <2>2, <2>4, <2>5 DEF Bounds
<1>6. ASSUME NEW w \in Writers, FinishPass(w)
      PROVE  Bounds'
  <2>1. /\ AppOf(w) \in Apps /\ loaded[w] \in Nat /\ loaded[w] <= published[AppOf(w)]
        /\ NextLeg(w) \in 1 .. Len(Plan[w])
    <3>1. leg[w] \in 1 .. Len(Plan[w]) /\ Len(Plan[w]) \in Nat
      BY PlanFacts DEF Bounds
    <3>2. NextLeg(w) \in 1 .. Len(Plan[w])
      BY <3>1 DEF NextLeg
    <3> QED
      BY <3>2, YieldFacts DEF Bounds
  <2>2. /\ pc' = [pc EXCEPT ![w] = "idle"] /\ MoveTo(w, NextLeg(w))
        /\ cursor' = [cursor EXCEPT ![AppOf(w)] = loaded[w]]
        /\ passed' = [passed EXCEPT ![AppOf(w)] = loaded[w]]
        /\ UNCHANGED <<now, stamp, published, failures>>
    BY <1>6 DEF FinishPass, EndPass, Return, Goto
  <2>3. /\ cursor' \in [Apps -> Nat] /\ passed' \in [Apps -> Nat]
        /\ \A b \in Apps : cursor'[b] <= published[b] /\ passed'[b] <= published[b]
    BY <2>1, <2>2 DEF Bounds
  <2> QED
    BY <2>1, <2>2, <2>3, MoveBounds DEF Bounds, AppOf
<1>7. ASSUME NEW w \in Writers, AppendConflict(w) \/ Fail(w)
      PROVE  Bounds'
  <2>1. /\ pc' = [pc EXCEPT ![w] = "idle"] \/ (pc[w] = "idle" /\ pc' = pc)
        /\ MoveTo(w, 1)
        /\ failures' = failures \/ failures' = failures + 1
        /\ UNCHANGED <<now, stamp, published, cursor, passed>>
    BY <1>7 DEF AppendConflict, InsertConflict, Fail, Crash, Return, Goto, At, logVars
  <2>2. failures' \in Nat
    BY <2>1 DEF Bounds
  <2> QED
    BY <2>1, <2>2, MoveBounds, PlanFacts DEF Bounds, AppOf
<1>8. CASE UNCHANGED wsVars
  BY <1>8 DEF wsVars, logVars, passVars, Bounds, AppOf
<1> QED
  BY <1>1, <1>2, <1>3, <1>4, <1>5, <1>6, <1>7, <1>8 DEF WsNext, CycleStep

\* The log's invariant and the bounds hold together.
LEMMA BoundsInvariant == WsSpec => [](LogInv /\ Bounds)
<1>1. WsInit => LogInv /\ Bounds
  BY LogInvInit, BoundsInit DEF WsInit
<1>2. LogInv /\ Bounds /\ [WsNext]_wsVars => (LogInv /\ Bounds)'
  <2> SUFFICES ASSUME LogInv, Bounds, [WsNext]_wsVars
               PROVE  LogInv' /\ Bounds'
    OBVIOUS
  <2>1. TypeOK
    BY DEF LogInv
  <2> QED
    BY <2>1, WsStepIsLogStep, LogInvNext, BoundsNext
<1> QED
  BY <1>1, <1>2, PTL DEF WsSpec

\* The passes do to the log only what the event store allows, so the theorems about
\* EventLog hold of them.
THEOREM PassesImplementLog == WsSpec => ImplementsEventLog
<1>1. WsInit => Init
  BY DEF WsInit
<1>2. LogInv /\ Bounds /\ [WsNext]_wsVars => [Next]_logVars
  BY WsStepIsLogStep DEF LogInv
<1> QED
  BY <1>1, <1>2, BoundsInvariant, PTL DEF WsSpec, ImplementsEventLog, Spec

\* The type invariant, for every plan and every source.
THEOREM WorkspaceTypeCorrect == WsSpec => []WsTypeOK
<1>1. LogInv /\ Bounds => WsTypeOK
  <2> SUFFICES ASSUME LogInv, Bounds
               PROVE  WsTypeOK
    OBVIOUS
  <2>1. TypeOK
    BY DEF LogInv
  <2>2. \A a \in Apps : {cursor[a], passed[a]} \subseteq 0 .. published[a]
    BY DEF Bounds
  <2>3. \A w \in Writers : loaded[w] \in 0 .. published[AppOf(w)]
    BY <2>1, YieldFacts DEF Bounds
  <2> QED
    BY <2>1, <2>2, <2>3 DEF Bounds, WsTypeOK, At
<1> QED
  BY <1>1, BoundsInvariant, PTL

-----------------------------------------------------------------------------
\* The events of em before place i.
Before(em, i) == {em[j] : j \in {x \in 1 .. Len(em) : x < i}}

\* What comes before the next place: what came before this one, and this one.
LEMMA BeforeNext ==
  ASSUME NEW em, Len(em) \in Nat, NEW i \in 1 .. Len(em)
  PROVE  Before(em, i + 1) \subseteq Before(em, i) \cup {em[i]}
<1> SUFFICES ASSUME NEW j \in 1 .. Len(em), j < i + 1
             PROVE  em[j] \in Before(em, i) \cup {em[i]}
  BY DEF Before
<1>1. j < i \/ j = i
  OBVIOUS
<1> QED
  BY <1>1 DEF Before

\* Past the last place everything has come.
LEMMA BeforeAll ==
  ASSUME NEW em, Len(em) \in Nat, NEW i \in Nat, i > Len(em)
  PROVE  Among(em) \subseteq Before(em, i)
<1> SUFFICES ASSUME NEW j \in 1 .. Len(em)
             PROVE  em[j] \in Before(em, i)
  BY DEF Among
<1>1. j < i
  OBVIOUS
<1> QED
  BY <1>1 DEF Before

\* Nothing comes before the first place.
LEMMA BeforeFirst ==
  ASSUME NEW em, Len(em) \in Nat
  PROVE  Before(em, 1) = {}
BY DEF Before

\* Where a process stands in its pass: what it has been through is logged, what it
\* holds is the event yielded last, and the number it is about to use is higher
\* than that of every event before it.
InPass(w) ==
  /\ pc[w] = "idle" => item[w] = 1
  /\ pc[w] = "ready" => Before(Yields(w), item[w]) \subseteq Logged
  /\ pc[w] \in Appending =>
       /\ item[w] - 1 \in 1 .. Len(Yields(w))
       /\ hand[w] = Yields(w)[item[w] - 1]
       /\ Before(Yields(w), item[w] - 1) \subseteq Logged
  /\ pc[w] = "insert" =>
       \A q \in rows : q.event \in Before(Yields(w), item[w] - 1) => q.seq < nextSeq[w]

\* Row r has its place in document n of a.
PlacedIn(r, a, n) ==
  LET em == Passes[a][n][r.stamp]
  IN  \E i \in 1 .. Len(em) : em[i] = r.event /\ LoggedBefore(em, i, r.seq)

\* The inductive invariant, beside LogInv and Bounds.
PassInv ==
  /\ PassPrefix
  /\ CursorMeansPass
  /\ \A w \in Writers : InPass(w)

Still(v) ==
  /\ Unmoved(v)
  /\ leg'[v] = leg[v] /\ loaded'[v] = loaded[v] /\ item'[v] = item[v] /\ stamp'[v] = stamp[v]

\* A process that stands still yields the same events.
LEMMA StillYields ==
  ASSUME NEW v, Still(v)
  PROVE  Yields(v)' = Yields(v) /\ AppOf(v)' = AppOf(v)
BY DEF Still, Yields, AppOf

\* A row keeps its place when the log grows.
LEMMA PlaceStays ==
  ASSUME NEW r, NEW a, NEW n, PlacedIn(r, a, n), rows \subseteq rows'
  PROVE  PlacedIn(r, a, n)'
<1> DEFINE em == Passes[a][n][r.stamp]
<1>1. PICK i \in 1 .. Len(em) : em[i] = r.event /\ LoggedBefore(em, i, r.seq)
  BY DEF PlacedIn
<1>2. LoggedBefore(em, i, r.seq)'
  BY <1>1 DEF LoggedBefore
<1> QED
  BY <1>1, <1>2 DEF PlacedIn

\* A new row has its place, if what comes before it there is logged with lower
\* numbers.
LEMMA NewPlace ==
  ASSUME NEW r, NEW a, NEW d, NEW i \in 1 .. Len(Passes[a][d][r.stamp]),
         Passes[a][d][r.stamp][i] = r.event, rows \subseteq rows',
         \A j \in 1 .. i - 1 : \E q \in rows : q.event = Passes[a][d][r.stamp][j] /\ q.seq < r.seq
  PROVE  PlacedIn(r, a, d)'
<1>1. LoggedBefore(Passes[a][d][r.stamp], i, r.seq)'
  BY DEF LoggedBefore
<1> QED
  BY <1>1 DEF PlacedIn

\* So the log stays made of beginnings of passes, if the new rows have their place.
LEMMA PrefixStays ==
  ASSUME PassPrefix, rows \subseteq rows',
         \A r \in rows' \ rows : \E a \in Apps : \E d \in 1 .. NumDocs(a) : PlacedIn(r, a, d)'
  PROVE  PassPrefix'
<1>1. \A r \in rows : \E a \in Apps : \E d \in 1 .. NumDocs(a) : PlacedIn(r, a, d)
  BY DEF PassPrefix, PlacedIn
<1>2. \A r \in rows' : \E a \in Apps : \E d \in 1 .. NumDocs(a) : PlacedIn(r, a, d)'
  BY <1>1, PlaceStays
<1> QED
  BY <1>2 DEF PassPrefix, PlacedIn

\* What a cursor stands for stays in the log.
LEMMA CursorStays ==
  ASSUME TypeOK, CursorMeansPass, rows \subseteq rows', cursor' = cursor,
         now' = now \/ now' = now + 1
  PROVE  CursorMeansPass'
<1>1. Logged \subseteq Logged'
  BY DEF Logged
<1>2. 0 .. now \subseteq 0 .. now'
  BY DEF TypeOK
<1> QED
  BY <1>1, <1>2 DEF CursorMeansPass

\* A step of w that leaves the table alone keeps the invariant, if w meets its own
\* conditions afterwards and the cursors theirs.
LEMMA MoveKeeps ==
  ASSUME PassInv, NEW w \in Writers, InPass(w)', rows' = rows, CursorMeansPass',
         \A v \in Writers \ {w} : Still(v)
  PROVE  PassInv'
<1>1. Logged' = Logged
  BY DEF Logged
<1>2. PassPrefix'
  BY PrefixStays DEF PassInv
<1>3. ASSUME NEW v \in Writers, v # w
      PROVE  InPass(v)'
  <2>1. InPass(v) /\ Still(v)
    BY <1>3 DEF PassInv
  <2> QED
    BY <1>1, <2>1, StillYields DEF Still, Unmoved, InPass
<1> QED
  BY <1>2, <1>3 DEF PassInv

\* A row of an event not yet logged disturbs no one: whoever has a number already
\* has all the events before its own in the log.
LEMMA InsertKeeps ==
  ASSUME PassInv, CursorMeansPass', NEW w \in Writers, InPass(w)', NEW n,
         rows' = rows \cup {n}, n.event \notin Logged,
         \E a \in Apps : \E d \in 1 .. NumDocs(a) : PlacedIn(n, a, d)',
         \A v \in Writers \ {w} : Still(v)
  PROVE  PassInv'
<1>1. Logged' = Logged \cup {n.event}
  BY DEF Logged
<1>2. PassPrefix'
  BY PrefixStays DEF PassInv
<1>3. ASSUME NEW v \in Writers, v # w
      PROVE  InPass(v)'
  <2>1. InPass(v) /\ Still(v)
    BY <1>3 DEF PassInv
  <2>2. pc[v] \in Appending => n.event \notin Before(Yields(v), item[v] - 1)
    BY <2>1 DEF InPass
  <2> QED
    BY <1>1, <2>1, <2>2, StillYields DEF Still, Unmoved, InPass, Appending
<1> QED
  BY <1>2, <1>3 DEF PassInv

\* What a process inside append has in hand, and what it will have been through
\* once that is logged.
LEMMA HandPassed ==
  ASSUME TypeOK, Bounds, NEW w \in Writers, InPass(w), pc[w] \in Appending
  PROVE  Before(Yields(w), item[w]) \subseteq Logged \cup {hand[w]}
<1>1. /\ item[w] - 1 \in 1 .. Len(Yields(w)) /\ hand[w] = Yields(w)[item[w] - 1]
      /\ Before(Yields(w), item[w] - 1) \subseteq Logged
  BY DEF InPass
<1>2. (item[w] - 1) + 1 = item[w]
  BY DEF Bounds
<1>3. Len(Yields(w)) \in Nat
  BY YieldFacts DEF Appending
<1>4. Before(Yields(w), (item[w] - 1) + 1) \subseteq Before(Yields(w), item[w] - 1) \cup {hand[w]}
  BY <1>1, <1>3, BeforeNext
<1> QED
  BY <1>1, <1>2, <1>4

\* The moves of one process, seen from the others.
LEMMA OthersStill ==
  ASSUME Bounds, TypeOK, NEW w \in Writers,
         pc' = pc \/ \E p : pc' = [pc EXCEPT ![w] = p],
         hand' = hand \/ \E h : hand' = [hand EXCEPT ![w] = h],
         nextSeq' = nextSeq \/ \E n : nextSeq' = [nextSeq EXCEPT ![w] = n],
         stamp' = stamp \/ \E t : stamp' = [stamp EXCEPT ![w] = t],
         leg' = leg \/ \E j : leg' = [leg EXCEPT ![w] = j],
         loaded' = loaded \/ \E d : loaded' = [loaded EXCEPT ![w] = d],
         item' = item \/ \E i : item' = [item EXCEPT ![w] = i]
  PROVE  \A v \in Writers \ {w} : Still(v)
<1> SUFFICES ASSUME NEW v \in Writers \ {w}
             PROVE  Still(v)
  OBVIOUS
<1>1. pc'[v] = pc[v] /\ hand'[v] = hand[v] /\ nextSeq'[v] = nextSeq[v] /\ stamp'[v] = stamp[v]
  BY DEF TypeOK
<1>2. leg'[v] = leg[v] /\ loaded'[v] = loaded[v] /\ item'[v] = item[v]
  BY DEF Bounds
<1> QED
  BY <1>1, <1>2 DEF Still, Unmoved

\* The invariant holds at first.
LEMMA PassInvInit == WsInit => PassInv
<1> SUFFICES ASSUME WsInit
             PROVE  PassInv
  OBVIOUS
<1>1. rows = {} /\ (\A a \in Apps : cursor[a] = 0) /\ \A w \in Writers : pc[w] = "idle" /\ item[w] = 1
  BY DEF WsInit, Init
<1>2. PassPrefix
  BY <1>1 DEF PassPrefix
<1>3. CursorMeansPass
  BY <1>1 DEF CursorMeansPass
<1>4. \A w \in Writers : InPass(w)
  BY <1>1 DEF InPass, Appending
<1> QED
  BY <1>2, <1>3, <1>4 DEF PassInv

\* A step that leaves the rows and the processes alone keeps the invariant.
LEMMA StillKeeps ==
  ASSUME PassInv, CursorMeansPass', rows' = rows, \A v \in Writers : Still(v)
  PROVE  PassInv'
<1>1. Logged' = Logged
  BY DEF Logged
<1>2. PassPrefix'
  BY PrefixStays DEF PassInv
<1>3. ASSUME NEW v \in Writers
      PROVE  InPass(v)'
  <2>1. InPass(v) /\ Still(v)
    BY DEF PassInv
  <2> QED
    BY <1>1, <2>1, StillYields DEF Still, Unmoved, InPass
<1> QED
  BY <1>2, <1>3 DEF PassInv

\* Every step keeps the invariant.
LEMMA PassInvNext == LogInv /\ Bounds /\ PassInv /\ [WsNext]_wsVars => PassInv'
<1> SUFFICES ASSUME LogInv, Bounds, PassInv, [WsNext]_wsVars
             PROVE  PassInv'
  OBVIOUS
<1> USE DEF At, Goto, Return
<1>types. TypeOK
  BY DEF LogInv
<1>here. CursorMeansPass /\ \A w \in Writers : InPass(w)
  BY DEF PassInv
<1>1. CASE Tick /\ UNCHANGED passVars
  <2>1. \A v \in Writers : Still(v)
    BY <1>1 DEF Tick, passVars, Still, Unmoved
  <2> QED
    BY <1>1, <1>types, <1>here, <2>1, CursorStays, StillKeeps DEF Tick, passVars
<1>2. ASSUME NEW a \in Apps, Publish(a)
      PROVE  PassInv'
  <2>1. \A v \in Writers : Still(v)
    BY <1>2 DEF Publish, logVars, Still, Unmoved
  <2> QED
    BY <1>2, <1>types, <1>here, <2>1, CursorStays, StillKeeps DEF Publish, logVars
<1>3. ASSUME NEW w \in Writers, StartPass(w)
      PROVE  PassInv'
  <2>1. /\ pc[w] = "idle" /\ pc'[w] = "ready" /\ rows' = rows /\ cursor' = cursor /\ now' = now
        /\ item' = item
    BY <1>3, <1>types DEF StartPass, BeginPass, TypeOK
  <2>2. Before(Yields(w)', 1) = {}
    <3>1. TypeOK' /\ Bounds'
      <4>1. LogInv' /\ Bounds'
        BY <1>types, WsStepIsLogStep, LogInvNext, BoundsNext
      <4> QED
        BY <4>1 DEF LogInv
    <3>2. Len(Yields(w)') \in Nat
      <4>1. pc'[w] # "idle" => Len(Yields(w)') \in Nat
        BY <3>1, YieldFacts
      <4> QED
        BY <4>1, <2>1
    <3> QED
      BY <3>2, BeforeFirst
  <2>3. InPass(w)'
    BY <2>1, <2>2, <1>here DEF InPass, Appending
  <2>4. \A v \in Writers \ {w} : Still(v)
    BY <1>3, <1>types, OthersStill DEF StartPass, BeginPass
  <2> QED
    BY <2>1, <2>3, <2>4, <1>types, <1>here, CursorStays, MoveKeeps
<1>4. ASSUME NEW w \in Writers, LoadFails(w)
      PROVE  PassInv'
  <2>1. rows' = rows /\ cursor' = cursor /\ now' = now /\ pc[w] = "idle" /\ UNCHANGED <<pc, item>>
    BY <1>4 DEF LoadFails, logVars
  <2>2. InPass(w)'
    BY <2>1, <1>here DEF InPass, Appending
  <2>3. \A v \in Writers \ {w} : Still(v)
    BY <1>4, <1>types, OthersStill DEF LoadFails, logVars
  <2> QED
    BY <2>1, <2>2, <2>3, <1>types, <1>here, CursorStays, MoveKeeps
<1>5. ASSUME NEW w \in Writers, YieldEvent(w)
      PROVE  PassInv'
  <2>1. /\ pc[w] = "ready" /\ item[w] \in 1 .. Len(Yields(w))
        /\ Before(Yields(w), item[w]) \subseteq Logged
    <3>1. pc[w] = "ready" /\ item[w] \in Nat \ {0} /\ item[w] <= Len(Yields(w))
      BY <1>5 DEF YieldEvent, Bounds
    <3>2. Len(Yields(w)) \in Nat
      BY <3>1, <1>types, YieldFacts
    <3> QED
      BY <3>1, <3>2, <1>here DEF InPass
  <2>2. /\ item'[w] = item[w] + 1 /\ (item[w] + 1) - 1 = item[w]
        /\ pc'[w] = "check" /\ hand'[w] = Yields(w)[item[w]]
        /\ rows' = rows /\ cursor' = cursor /\ now' = now /\ Yields(w)' = Yields(w)
    BY <1>5, <1>types DEF YieldEvent, Emit, Bounds, TypeOK, Yields, AppOf
  <2>3. InPass(w)'
    BY <2>1, <2>2 DEF InPass, Appending, Logged
  <2>4. \A v \in Writers \ {w} : Still(v)
    BY <1>5, <1>types, OthersStill DEF YieldEvent, Emit
  <2> QED
    BY <2>2, <2>3, <2>4, <1>types, <1>here, CursorStays, MoveKeeps
<1>6. ASSUME NEW w \in Writers, CheckExists(w), UNCHANGED passVars
      PROVE  PassInv'
  <2>1. Before(Yields(w), item[w]) \subseteq Logged \cup {hand[w]}
    BY <1>6, <1>here, <1>types, HandPassed DEF CheckExists, Appending
  <2>2. /\ rows' = rows /\ item' = item /\ cursor' = cursor /\ now' = now
        /\ Yields(w)' = Yields(w) /\ pc[w] = "check"
        /\ \/ pc'[w] = "ready" /\ hand[w] \in Logged
           \/ pc'[w] = "payload" /\ hand' = hand
    BY <1>6, <1>types DEF CheckExists, TypeOK, passVars, Yields, AppOf
  <2>3. InPass(w)'
    BY <2>1, <2>2, <1>here DEF InPass, Appending, Logged
  <2>4. \A v \in Writers \ {w} : Still(v)
    BY <1>6, <1>types, OthersStill DEF CheckExists, passVars
  <2> QED
    BY <2>2, <2>3, <2>4, <1>types, <1>here, CursorStays, MoveKeeps
<1>7. ASSUME NEW w \in Writers, PutPayload(w) \/ PutProvenance(w), UNCHANGED passVars
      PROVE  PassInv'
  <2>1. /\ rows' = rows /\ item' = item /\ cursor' = cursor /\ now' = now /\ hand' = hand
        /\ Yields(w)' = Yields(w)
        /\ pc[w] \in {"payload", "provenance"} /\ pc'[w] \in {"provenance", "seq"}
    BY <1>7, <1>types DEF PutPayload, PutProvenance, TypeOK, passVars, Yields, AppOf
  <2>2. InPass(w)'
    BY <2>1, <1>here DEF InPass, Appending, Logged
  <2>3. \A v \in Writers \ {w} : Still(v)
    BY <1>7, <1>types, OthersStill DEF PutPayload, PutProvenance, passVars
  <2> QED
    BY <2>1, <2>2, <2>3, <1>types, <1>here, CursorStays, MoveKeeps
<1>8. ASSUME NEW w \in Writers, ReadLastSeq(w), UNCHANGED passVars
      PROVE  PassInv'
  <2>1. /\ rows' = rows /\ item' = item /\ cursor' = cursor /\ now' = now /\ hand' = hand
        /\ Yields(w)' = Yields(w)
        /\ pc[w] = "seq" /\ pc'[w] = "insert" /\ nextSeq'[w] = LastSeq + 1
    BY <1>8, <1>types DEF ReadLastSeq, TypeOK, passVars, Yields, AppOf
  <2>2. \A q \in rows : q.seq < LastSeq + 1
    <3>1. \A q \in rows : q.seq \in 1 .. LastSeq
      BY DEF LogInv, SeqGapless, SeqsOf
    <3> QED
      BY <3>1 DEF LogInv
  <2>3. InPass(w)'
    BY <2>1, <2>2, <1>here DEF InPass, Appending, Logged
  <2>4. \A v \in Writers \ {w} : Still(v)
    BY <1>8, <1>types, OthersStill DEF ReadLastSeq, passVars
  <2> QED
    BY <2>1, <2>3, <2>4, <1>types, <1>here, CursorStays, MoveKeeps
<1>9. ASSUME NEW w \in Writers, Insert(w), UNCHANGED passVars
      PROVE  PassInv'
  <2>1. PICK n : n = NewRow(w)
    OBVIOUS
  <2>2. /\ rows' = rows \cup {n} /\ n.event = hand[w] /\ n.seq = nextSeq[w] /\ n.stamp = stamp[w]
        /\ hand[w] \notin Logged /\ pc[w] = "insert" /\ pc'[w] = "ready"
        /\ item' = item /\ cursor' = cursor /\ now' = now /\ Yields(w)' = Yields(w)
    BY <1>9, <2>1, <1>types DEF Insert, NewRow, TypeOK, passVars, Yields, AppOf
  <2>3. Logged' = Logged \cup {hand[w]}
    BY <2>2 DEF Logged
  <2>4. InPass(w)'
    <3>1. Before(Yields(w), item[w]) \subseteq Logged \cup {hand[w]}
      BY <2>2, <1>here, <1>types, HandPassed DEF Appending
    <3> QED
      BY <2>2, <2>3, <3>1 DEF InPass, Appending
  <2>5. \E a \in Apps : \E d \in 1 .. NumDocs(a) : PlacedIn(n, a, d)'
    <3>1. PICK a, d, i : a = AppOf(w) /\ d = loaded[w] /\ i = item[w] - 1
      OBVIOUS
    <3>2. /\ a \in Apps /\ d \in 1 .. NumDocs(a) /\ Yields(w) = Passes[a][d][n.stamp]
          /\ Len(Yields(w)) \in Nat
      BY <2>2, <3>1, <1>types, YieldFacts DEF Yields
    <3>3. /\ i \in 1 .. Len(Yields(w)) /\ Yields(w)[i] = n.event
          /\ Before(Yields(w), i) \subseteq Logged
          /\ \A q \in rows : q.event \in Before(Yields(w), i) => q.seq < n.seq
      BY <2>2, <3>1, <1>here DEF InPass, Appending
    <3>4. ASSUME NEW j \in 1 .. i - 1
          PROVE  \E q \in rows : q.event = Yields(w)[j] /\ q.seq < n.seq
      <4>1. Yields(w)[j] \in Before(Yields(w), i)
        BY <3>2, <3>3 DEF Before
      <4>2. PICK q \in rows : q.event = Yields(w)[j]
        BY <4>1, <3>3 DEF Logged
      <4> QED
        BY <4>1, <4>2, <3>3
    <3>5. PlacedIn(n, a, d)'
      BY <2>2, <3>2, <3>3, <3>4, NewPlace
    <3> QED
      BY <3>2, <3>5
  <2>6. \A v \in Writers \ {w} : Still(v)
    BY <1>9, <1>types, OthersStill DEF Insert, passVars
  <2>7. CursorMeansPass'
    BY <2>2, <1>types, <1>here, CursorStays
  <2> QED
    BY <2>2, <2>4, <2>5, <2>6, <2>7, InsertKeeps
<1>10. ASSUME NEW w \in Writers, AppendConflict(w) \/ Fail(w) \/ FinishPass(w), CursorMeansPass'
       PROVE  PassInv'
  <2>1. /\ rows' = rows /\ \E j : MoveTo(w, j)
        /\ pc' = [pc EXCEPT ![w] = "idle"] \/ (pc[w] = "idle" /\ pc' = pc)
    BY <1>10 DEF AppendConflict, InsertConflict, Fail, Crash, FinishPass, EndPass, logVars
  <2>2. pc'[w] = "idle" /\ item'[w] = 1
    BY <2>1, <1>types DEF TypeOK, MoveTo, Bounds
  <2>3. InPass(w)'
    BY <2>2 DEF InPass, Appending
  <2>4. \A v \in Writers \ {w} : Still(v)
    BY <1>10, <1>types, OthersStill
       DEF AppendConflict, InsertConflict, Fail, Crash, FinishPass, EndPass, logVars, MoveTo
  <2> QED
    BY <1>10, <2>1, <2>3, <2>4, MoveKeeps
<1>11. ASSUME NEW w \in Writers, AppendConflict(w) \/ Fail(w)
       PROVE  CursorMeansPass'
  <2>1. rows' = rows /\ cursor' = cursor /\ now' = now
    BY <1>11 DEF AppendConflict, InsertConflict, Fail, Crash, logVars
  <2> QED
    BY <2>1, <1>types, <1>here, CursorStays
<1>12. ASSUME NEW w \in Writers, FinishPass(w)
       PROVE  CursorMeansPass'
  <2>1. /\ rows' = rows /\ now' = now /\ cursor' = [cursor EXCEPT ![AppOf(w)] = loaded[w]]
        /\ pc[w] = "ready" /\ item[w] \in Nat /\ item[w] > Len(Yields(w))
    BY <1>12 DEF FinishPass, EndPass, Bounds
  <2>2. Logged' = Logged
    BY <2>1 DEF Logged
  <2>3. Among(Yields(w)) \subseteq Logged
    <3>1. Len(Yields(w)) \in Nat
      BY <2>1, <1>types, YieldFacts
    <3> QED
      BY <2>1, <3>1, <1>here, BeforeAll DEF InPass
  <2>4. AppOf(w) \in Apps /\ stamp[w] \in (0 .. now) \cup Given
    BY <1>types, YieldFacts DEF TypeOK, Bounds
  <2>5. ASSUME NEW a \in Apps, cursor'[a] > 0
        PROVE  \E ts \in (0 .. now) \cup Given : Among(Passes[a][cursor'[a]][ts]) \subseteq Logged
    <3>1. CASE a = AppOf(w)
      <4>1. cursor'[a] = loaded[w]
        BY <3>1, <2>1, <2>4 DEF Bounds
      <4> QED
        BY <4>1, <3>1, <2>3, <2>4 DEF Yields
    <3>2. CASE a # AppOf(w)
      <4>1. cursor'[a] = cursor[a]
        BY <3>2, <2>1 DEF Bounds
      <4> QED
        BY <4>1, <2>5, <1>here DEF CursorMeansPass
    <3> QED
      BY <3>1, <3>2
  <2> QED
    BY <2>1, <2>2, <2>5 DEF CursorMeansPass
<1>13. CASE UNCHANGED wsVars
  <2>1. \A v \in Writers : Still(v)
    BY <1>13 DEF wsVars, logVars, passVars, Still, Unmoved
  <2> QED
    BY <1>13, <1>types, <1>here, <2>1, CursorStays, StillKeeps DEF wsVars, logVars, passVars
<1> QED
  BY <1>1, <1>2, <1>3, <1>4, <1>5, <1>6, <1>7, <1>8, <1>9, <1>10, <1>11, <1>12, <1>13
     DEF WsNext, CycleStep, AppendYielded

\* The invariant holds at every moment of every run.
LEMMA PassInvariant == WsSpec => []PassInv
BY PassInvInit, PassInvNext, BoundsInvariant, PTL DEF WsSpec

\* The log is always made of beginnings of passes, for every source, every plan and
\* every pattern of failures, conflicts and interleavings.
THEOREM LogIsPrefixes == WsSpec => []PassPrefix
<1>1. PassInv => PassPrefix
  BY DEF PassInv
<1> QED
  BY <1>1, PassInvariant, PTL

\* A stored cursor always stands for a pass wholly in the log.
THEOREM CursorsMeanPasses == WsSpec => []CursorMeansPass
<1>1. PassInv => CursorMeansPass
  BY DEF PassInv
<1> QED
  BY <1>1, PassInvariant, PTL

-----------------------------------------------------------------------------
\* The rows of a, and row r placed in document n of a among rows S.
RowsOf(a) == {r \in rows : r.event \in EventsOf(a)}

PlacedAmong(S, r, a, n) ==
  \E i \in 1 .. Len(Passes[a][n][r.stamp]) :
    /\ Passes[a][n][r.stamp][i] = r.event
    /\ \A j \in 1 .. i - 1 : \E q \in S : q.event = Passes[a][n][r.stamp][j] /\ q.seq < r.seq

\* Rows S of a are in order of documents, up to document m: the lower number of two
\* is of the same document or of an earlier one.
InOrder(S, a, m) ==
  \A q, r \in S :
    /\ \E k \in 1 .. m : PlacedAmong(S, q, a, k)
    /\ q # r => q.seq # r.seq
    /\ r.seq < q.seq =>
         \E k \in 1 .. m : \E l \in 1 .. k : PlacedAmong(S, r, a, l) /\ PlacedAmong(S, q, a, k)

\* The order holds up to any later document.
LEMMA OrderUp ==
  ASSUME NEW S, NEW a, NEW m \in Nat, NEW n \in Nat, m <= n, InOrder(S, a, m)
  PROVE  InOrder(S, a, n)
<1>1. 1 .. m \subseteq 1 .. n
  OBVIOUS
<1> QED
  BY <1>1 DEF InOrder

\* A row of document m with the highest number of all keeps the order.
LEMMA OrderGrows ==
  ASSUME NEW S, NEW a, NEW m \in Nat \ {0}, InOrder(S, a, m), NEW n, PlacedAmong(S, n, a, m),
         n.seq \in Nat, \A r \in S : r.seq \in Nat /\ r.seq < n.seq
  PROVE  InOrder(S \cup {n}, a, m)
<1> DEFINE T == S \cup {n}
<1>1. \A r, k : PlacedAmong(S, r, a, k) => PlacedAmong(T, r, a, k)
  BY DEF PlacedAmong
<1>2. m \in 1 .. m
  OBVIOUS
<1>3. \A q \in S : \E k \in 1 .. m : PlacedAmong(T, q, a, k)
  BY <1>1 DEF InOrder
<1>4. \A q \in T : \E k \in 1 .. m : PlacedAmong(T, q, a, k)
  BY <1>1, <1>2, <1>3
<1>5. ASSUME NEW q \in T, NEW r \in T, q # r
      PROVE  q.seq # r.seq
  <2>1. CASE q \in S /\ r \in S
    BY <2>1, <1>5 DEF InOrder
  <2>2. CASE q = n /\ r \in S
    BY <2>2
  <2>3. CASE r = n /\ q \in S
    BY <2>3
  <2> QED
    BY <1>5, <2>1, <2>2, <2>3
<1>6. ASSUME NEW q \in T, NEW r \in T, r.seq < q.seq
      PROVE  \E k \in 1 .. m : \E l \in 1 .. k : PlacedAmong(T, r, a, l) /\ PlacedAmong(T, q, a, k)
  <2>1. CASE q \in S /\ r \in S
    <3>1. PICK k \in 1 .. m : \E l \in 1 .. k : PlacedAmong(S, r, a, l) /\ PlacedAmong(S, q, a, k)
      BY <2>1, <1>6 DEF InOrder
    <3> QED
      BY <3>1, <1>1
  <2>2. CASE q = n /\ r \in S
    BY <2>2, <1>1, <1>2, <1>3
  <2>3. CASE r = n
    <3>1. ~ (n.seq < q.seq)
      BY <1>6
    <3> QED
      BY <2>3, <3>1, <1>6
  <2> QED
    BY <2>1, <2>2, <2>3
<1> HIDE DEF T
<1>7. InOrder(T, a, m)
  BY <1>4, <1>5, <1>6 DEF InOrder
<1> QED
  BY <1>7 DEF T

\* The heart of it: in rows S of a steady source, in order up to document n, nothing
\* comes after what document n shows.
Below(q, p) ==
  \/ q.event.validAt < p.event.validAt
  \/ q.event.validAt = p.event.validAt /\ q.seq < p.seq

LEMMA RivalBelow ==
  ASSUME NEW a \in Steady, NEW n \in 1 .. NumDocs(a), NEW S, InOrder(S, a, n),
         \A r \in S : r.event \in Events /\ r.seq \in Nat /\ r.stamp \in Instants,
         \A r, q \in S : r.event = q.event => r = q,
         NEW p \in S, p.event \in Shown[a][n],
         NEW q \in S, q # p, q.event.entity = p.event.entity, IsContent(q.event)
  PROVE  Below(q, p)
<1> DEFINE e == p.event
<1> DEFINE f == q.event
<1>1. a \in Apps /\ Dated(a) /\ NeverReverts(a) /\ NumDocs(a) \in Nat
  BY DocumentsAssumption DEF Steady, Alone
<1>2. f # e /\ p.seq # q.seq /\ p.seq \in Nat /\ q.seq \in Nat
  BY DEF InOrder
<1>3. IsContent(e)
  BY <1>1 DEF Shown, Content
<1>4. ASSUME NEW k \in 1 .. n, NEW r \in S, PlacedAmong(S, r, a, k)
      PROVE  /\ k \in 1 .. NumDocs(a) /\ Passes[a][k][r.stamp] = Passes[a][k][0]
             /\ IsContent(r.event) => r.event \in Content(a, k)
  <2>1. k \in 1 .. NumDocs(a)
    BY <1>1
  <2>2. Passes[a][k][r.stamp] = Passes[a][k][0]
    BY <1>1, <2>1 DEF Dated
  <2> QED
    BY <2>1, <2>2, <1>4 DEF PlacedAmong, Content, Among
<1>5. ASSUME NEW k \in 1 .. n, PlacedAmong(S, q, a, k)
      PROVE  \/ f.validAt < e.validAt
             \/ /\ f.validAt = e.validAt
                /\ \A l \in 1 .. k : e \in Content(a, l) => Under(a, l, f, e)
  <2>1. f \in Rivals(a, k, e)
    BY <1>2, <1>4, <1>5 DEF Rivals
  <2> QED
    BY <2>1, <1>1 DEF NeverReverts
<1>6. CASE q.seq < p.seq
  <2>1. PICK k \in 1 .. n : PlacedAmong(S, q, a, k)
    BY DEF InOrder
  <2> QED
    BY <2>1, <1>5, <1>6 DEF Below
<1>7. CASE p.seq < q.seq
  <2>doc. PICK k \in 1 .. n : \E l \in 1 .. k : PlacedAmong(S, p, a, l) /\ PlacedAmong(S, q, a, k)
    BY <1>7 DEF InOrder
  <2>1. PICK l \in 1 .. k : PlacedAmong(S, p, a, l) /\ PlacedAmong(S, q, a, k)
    BY <2>doc
  <2>2. l \in 1 .. n
    BY <1>1
  <2>3. e \in Content(a, l) /\ Passes[a][l][p.stamp] = Passes[a][l][0]
    BY <2>1, <2>2, <1>3, <1>4
  <2>4. ASSUME Under(a, l, f, e)
        PROVE  FALSE
    <3> DEFINE em == Passes[a][l][0]
    <3>1. PICK i \in 1 .. Len(em) : em[i] = f /\ \A j \in 1 .. i : em[j] # e
      BY <2>4 DEF Under
    <3> HIDE DEF em
    <3>place. \E h \in 1 .. Len(em) :
               em[h] = p.event /\ \A j \in 1 .. h - 1 : \E x \in S : x.event = em[j] /\ x.seq < p.seq
      <4>1. Passes[a][l][p.stamp] = em
        BY <2>3 DEF em
      <4> QED
        BY <4>1, <2>1 DEF PlacedAmong
    <3>2. PICK h \in 1 .. Len(em) :
            em[h] = e /\ \A j \in 1 .. h - 1 : \E x \in S : x.event = em[j] /\ x.seq < p.seq
      BY <3>place
    <3>3. i \in 1 .. h - 1
      BY <3>1, <3>2
    <3>4. PICK x \in S : x.event = f /\ x.seq < p.seq
      BY <3>1, <3>2, <3>3
    <3>5. x = q
      BY <3>4
    <3> QED
      BY <3>4, <3>5, <1>7, <1>2
  <2> QED
    BY <2>1, <2>3, <2>4, <1>5 DEF Below
<1> QED
  BY <1>2, <1>6, <1>7

-----------------------------------------------------------------------------
\* What holds of an application synced by one process in one leg: its rows are in
\* order of documents, up to the one its source shows; up to the one being read,
\* while a pass runs, whose next number is higher than all of them; and up to the
\* one last read, which is in the log, once the pass is through.
AloneInv(a) ==
  /\ InOrder(RowsOf(a), a, published[a])
  /\ passed[a] > 0 =>
       /\ InOrder(RowsOf(a), a, passed[a])
       /\ \E t \in Instants : Among(Passes[a][passed[a]][t]) \subseteq Logged
  /\ \A w \in Writers : AppOf(w) = a /\ pc[w] # "idle" =>
       /\ passed[a] = 0
       /\ InOrder(RowsOf(a), a, loaded[w])
       /\ pc[w] = "insert" => \A r \in RowsOf(a) : r.seq < nextSeq[w]

SteadyInv ==
  /\ \A r \in rows : r.stamp \in Instants
  /\ \A a \in Alone : AloneInv(a)

\* One process at most is in a pass over a.
LEMMA OneInPass ==
  ASSUME Bounds, NEW a \in Alone, NEW v \in Writers, NEW w \in Writers, AppOf(v) = a, AppOf(w) = a
  PROVE  v = w
BY DEF Alone, AppOf, Bounds

\* What a pass yields belongs to its application.
LEMMA YieldsOfApp ==
  ASSUME TypeOK, Bounds, NEW w \in Writers, pc[w] # "idle", NEW i \in 1 .. Len(Yields(w))
  PROVE  Yields(w)[i] \in EventsOf(AppOf(w))
BY YieldFacts DEF Yields, EventsOf, Among

\* Once a pass is through, the fold shows what it read.
LEMMA SteadyShows == LogInv /\ Bounds /\ PassInv /\ SteadyInv => SteadySourceShown
<1> SUFFICES ASSUME LogInv, Bounds, PassInv, SteadyInv, NEW a \in Steady, passed[a] > 0,
                    NEW e \in Shown[a][passed[a]]
             PROVE  {r.event : r \in Newest(e.entity)} = {e}
  BY DEF SteadySourceShown, Shows
<1>1. PICK n : n = passed[a]
  OBVIOUS
<1>2. a \in Alone /\ a \in Apps /\ Dated(a) /\ NumDocs(a) \in Nat
  BY DocumentsAssumption DEF Steady, Alone
<1>3. n \in 1 .. NumDocs(a)
  BY <1>1, <1>2 DEF Bounds
<1>4. InOrder(RowsOf(a), a, n) /\ \E t \in Instants : Among(Passes[a][n][t]) \subseteq Logged
  BY <1>1, <1>2 DEF SteadyInv, AloneInv
<1>5. e \in Among(Passes[a][n][0]) /\ IsContent(e) /\ e \in Shown[a][n]
  BY <1>1, <1>2, <1>3 DEF Shown, Content
<1>6. PICK p \in rows : p.event = e
  BY <1>2, <1>3, <1>4, <1>5 DEF Dated, Logged
<1>7. e \in EventsOf(a)
  <2>1. 0 \in Instants
    BY MaxTimeAssumption DEF Instants
  <2> QED
    BY <1>2, <1>3, <1>5, <2>1 DEF EventsOf
<1>8. ASSUME NEW r \in rows, r.event.entity = e.entity
      PROVE  r \in RowsOf(a)
  <2>1. PICK b \in Apps : \E d \in 1 .. NumDocs(b) : r.event \in Among(Passes[b][d][r.stamp])
    BY DEF PassInv, PassPrefix, Among
  <2>2. r.event \in EventsOf(b)
    BY <2>1 DEF SteadyInv, EventsOf
  <2>3. b = a
    BY <1>2, <1>7, <1>8, <2>2, EntitiesAssumption
  <2> QED
    BY <2>2, <2>3 DEF RowsOf
<1>9. \A r \in rows : r.event \in Events /\ r.seq \in Nat /\ r.stamp \in Instants
  BY DEF LogInv, TypeOK, Row, SteadyInv
<1>10. ASSUME NEW q \in rows, q # p, q.event.entity = e.entity, IsContent(q.event)
       PROVE  Below(q, p)
  <2>1. q \in RowsOf(a) /\ p \in RowsOf(a)
    BY <1>6, <1>8, <1>10
  <2>2. \A r \in RowsOf(a) : r.event \in Events /\ r.seq \in Nat /\ r.stamp \in Instants
    BY <1>9 DEF RowsOf
  <2>3. \A r, x \in RowsOf(a) : r.event = x.event => r = x
    BY DEF LogInv, OneRowPerEvent, RowsOf
  <2> QED
    BY <2>1, <2>2, <2>3, <1>3, <1>4, <1>5, <1>6, <1>10, RivalBelow
<1>11. p \in Newest(e.entity)
  BY <1>5, <1>6, <1>10 DEF Newest, Below
<1>12. ASSUME NEW q \in Newest(e.entity)
       PROVE  q = p
  <2> SUFFICES ASSUME q # p
               PROVE  FALSE
    OBVIOUS
  <2>1. q \in rows /\ q.event.entity = e.entity /\ IsContent(q.event) /\ Below(p, q)
    BY <1>5, <1>6 DEF Newest, Below
  <2>2. Below(q, p)
    BY <2>1, <1>10
  <2>3. q.event.validAt \in Int /\ p.event.validAt \in Int /\ q.seq \in Nat /\ p.seq \in Nat
    BY <2>1, <1>6, <1>9, InstantAssumption
  <2> QED
    BY <2>1, <2>2, <2>3 DEF Below
<1> QED
  BY <1>6, <1>11, <1>12

\* A step that adds no row of a keeps its part, if a process goes on as it was in a
\* pass over a, or begins one.
LEMMA AloneKeeps ==
  ASSUME Bounds, Bounds', NEW a \in Apps, AloneInv(a), RowsOf(a)' = RowsOf(a),
         rows \subseteq rows', published[a] <= published'[a], passed'[a] \in {0, passed[a]},
         \A v \in Writers : AppOf(v)' = a /\ pc'[v] # "idle" =>
           /\ \/ AppOf(v) = a /\ pc[v] # "idle" /\ loaded'[v] = loaded[v]
              \/ loaded'[v] = published[a] /\ passed'[a] = 0
           /\ pc'[v] = "insert" => \A r \in RowsOf(a) : r.seq < nextSeq'[v]
  PROVE  AloneInv(a)'
<1> DEFINE S == RowsOf(a)
<1>1. InOrder(S, a, published'[a])
  <2>1. published[a] \in Nat /\ published'[a] \in Nat
    BY DEF Bounds
  <2> QED
    BY <2>1, OrderUp DEF AloneInv
<1>2. ASSUME passed'[a] > 0
      PROVE  InOrder(S, a, passed'[a]) /\ \E t \in Instants : Among(Passes[a][passed'[a]][t]) \subseteq Logged'
  <2>1. passed'[a] = passed[a] /\ Logged \subseteq Logged'
    BY <1>2 DEF Logged
  <2> QED
    BY <1>2, <2>1 DEF AloneInv
<1>3. ASSUME NEW v \in Writers, AppOf(v)' = a, pc'[v] # "idle"
      PROVE  /\ passed'[a] = 0
             /\ InOrder(S, a, loaded'[v])
             /\ pc'[v] = "insert" => \A r \in S : r.seq < nextSeq'[v]
  <2>1. CASE AppOf(v) = a /\ pc[v] # "idle" /\ loaded'[v] = loaded[v]
    <3>1. passed[a] = 0 /\ InOrder(S, a, loaded[v])
      BY <2>1 DEF AloneInv
    <3> QED
      BY <2>1, <3>1, <1>3
  <2>2. CASE loaded'[v] = published[a] /\ passed'[a] = 0
    BY <2>2, <1>3 DEF AloneInv
  <2> QED
    BY <1>3, <2>1, <2>2
<1> QED
  BY <1>1, <1>2, <1>3 DEF AloneInv

\* A process that inserts nothing, and does not begin or end a pass, disturbs none.
LEMMA AloneStill ==
  ASSUME Bounds, Bounds', TypeOK, NEW a \in Apps, AloneInv(a), rows' = rows,
         published[a] <= published'[a], passed' = passed,
         \A v \in Writers : pc'[v] # "idle" =>
           /\ pc[v] # "idle" /\ AppOf(v)' = AppOf(v) /\ loaded'[v] = loaded[v]
           /\ pc'[v] = "insert" =>
                \/ pc[v] = "insert" /\ nextSeq'[v] = nextSeq[v]
                \/ \A r \in rows : r.seq < nextSeq'[v]
  PROVE  AloneInv(a)'
<1>1. RowsOf(a)' = RowsOf(a) /\ RowsOf(a) \subseteq rows
  BY DEF RowsOf
<1>2. ASSUME NEW v \in Writers, AppOf(v)' = a, pc'[v] # "idle"
      PROVE  /\ AppOf(v) = a /\ pc[v] # "idle" /\ loaded'[v] = loaded[v]
             /\ pc'[v] = "insert" => \A r \in RowsOf(a) : r.seq < nextSeq'[v]
  BY <1>1, <1>2 DEF AloneInv
<1> QED
  BY <1>1, <1>2, AloneKeeps

\* The pass that appends a row of a keeps a's rows in order.
LEMMA AloneInsert ==
  ASSUME LogInv, Bounds, Bounds', PassInv, NEW a \in Alone, AloneInv(a),
         NEW w \in Writers, Insert(w), UNCHANGED passVars, AppOf(w) = a
  PROVE  AloneInv(a)'
<1>types. TypeOK
  BY DEF LogInv
<1>1. PICK n : n = NewRow(w)
  OBVIOUS
<1>2. /\ rows' = rows \cup {n} /\ n.event = hand[w] /\ n.seq = nextSeq[w] /\ n.stamp = stamp[w]
      /\ pc[w] = "insert" /\ pc' = [pc EXCEPT ![w] = "ready"]
      /\ UNCHANGED passVars
  BY <1>1, <1>types DEF Insert, NewRow, TypeOK, Return, Goto, At
<1>3. PICK m : m = loaded[w]
  OBVIOUS
<1>4. /\ m \in 1 .. NumDocs(a) /\ m \in Nat \ {0} /\ m <= published[a] /\ a \in Apps
      /\ Yields(w) = Passes[a][m][n.stamp] /\ Len(Yields(w)) \in Nat
  <2>1. a \in Apps /\ NumDocs(a) \in Nat
    BY DocumentsAssumption DEF Alone
  <2>2. m \in 1 .. NumDocs(a) /\ Len(Yields(w)) \in Nat
    BY <1>2, <1>3, <1>types, YieldFacts
  <2> QED
    BY <1>2, <1>3, <2>1, <2>2 DEF Bounds, Yields
<1>5. PICK i : i = item[w] - 1
  OBVIOUS
<1>6. /\ i \in 1 .. Len(Yields(w)) /\ Yields(w)[i] = n.event
      /\ Before(Yields(w), i) \subseteq Logged
  BY <1>2, <1>5 DEF PassInv, InPass, Appending
<1>7. /\ passed[a] = 0 /\ InOrder(RowsOf(a), a, m) /\ \A r \in RowsOf(a) : r.seq < n.seq
  BY <1>2, <1>3 DEF AloneInv
<1>8. PlacedAmong(RowsOf(a), n, a, m)
  <2>1. ASSUME NEW j \in 1 .. i - 1
        PROVE  \E q \in RowsOf(a) : q.event = Yields(w)[j] /\ q.seq < n.seq
    <3>1. j \in 1 .. Len(Yields(w)) /\ Yields(w)[j] \in Before(Yields(w), i)
      BY <1>4, <1>6 DEF Before
    <3>2. PICK q \in rows : q.event = Yields(w)[j]
      BY <1>6, <3>1 DEF Logged
    <3>3. Yields(w)[j] \in EventsOf(a)
      BY <1>2, <1>types, <3>1, YieldsOfApp
    <3>4. q \in RowsOf(a)
      BY <3>2, <3>3 DEF RowsOf
    <3> QED
      BY <3>2, <3>4, <1>7
  <2> QED
    BY <2>1, <1>4, <1>6 DEF PlacedAmong
<1>9. InOrder(RowsOf(a) \cup {n}, a, m)
  <2>1. n.seq \in Nat /\ \A r \in RowsOf(a) : r.seq \in Nat
    BY <1>2, <1>types DEF TypeOK, Row, RowsOf
  <2> QED
    BY <2>1, <1>4, <1>7, <1>8, OrderGrows
<1>10. RowsOf(a)' = RowsOf(a) \cup {n}
  <2>1. n.event \in EventsOf(a)
    BY <1>2, <1>6, <1>types, YieldsOfApp
  <2> QED
    BY <1>2, <2>1 DEF RowsOf
<1>11. InOrder(RowsOf(a)', a, published'[a])
  <2>1. published'[a] = published[a] /\ published[a] \in Nat
    BY <1>2, <1>4 DEF passVars, Bounds
  <2> QED
    BY <2>1, <1>4, <1>9, <1>10, OrderUp
<1>12. passed'[a] = 0
  BY <1>2, <1>7 DEF passVars
<1>13. ASSUME NEW v \in Writers, AppOf(v)' = a, pc'[v] # "idle"
       PROVE  InOrder(RowsOf(a)', a, loaded'[v]) /\ pc'[v] # "insert"
  <2>1. AppOf(v) = a
    BY <1>2, <1>13 DEF passVars, AppOf
  <2>2. v = w
    BY <2>1, OneInPass
  <2>3. loaded'[v] = m /\ pc'[v] = "ready"
    BY <2>2, <1>2, <1>3, <1>types DEF passVars, TypeOK
  <2> QED
    BY <2>3, <1>9, <1>10
<1> QED
  BY <1>11, <1>12, <1>13 DEF AloneInv

\* Every step keeps what holds of an application on its own.
LEMMA AloneNext ==
  ASSUME LogInv, Bounds, Bounds', PassInv, [WsNext]_wsVars, NEW a \in Alone, AloneInv(a)
  PROVE  AloneInv(a)'
<1> USE DEF At, Goto, Return
<1>types. TypeOK /\ a \in Apps
  BY DEF LogInv, Alone
<1>nat. published[a] \in Nat /\ published[a] <= published[a]
  BY <1>types DEF Bounds
<1>1. CASE Tick /\ UNCHANGED passVars
  BY <1>1, <1>types, <1>nat, AloneStill DEF Tick, passVars, AppOf
<1>2. ASSUME NEW b \in Apps, Publish(b)
      PROVE  AloneInv(a)'
  <2>1. published[a] <= published'[a]
    BY <1>2, <1>types, <1>nat DEF Publish, Bounds
  <2> QED
    BY <1>2, <2>1, <1>types, AloneStill DEF Publish, logVars, AppOf
<1>3. ASSUME NEW w \in Writers, StartPass(w)
      PROVE  AloneInv(a)'
  <2>1. /\ rows' = rows /\ published' = published /\ leg' = leg /\ nextSeq' = nextSeq /\ pc[w] = "idle"
        /\ pc' = [pc EXCEPT ![w] = "ready"]
        /\ loaded' = [loaded EXCEPT ![w] = published[AppOf(w)]]
        /\ passed' = [passed EXCEPT ![AppOf(w)] = 0]
    BY <1>3 DEF StartPass, BeginPass
  <2>2. passed'[a] \in {0, passed[a]} /\ (AppOf(w) = a => passed'[a] = 0)
    BY <2>1, <1>types DEF Bounds
  <2>3. RowsOf(a)' = RowsOf(a)
    BY <2>1 DEF RowsOf
  <2>4. ASSUME NEW v \in Writers, AppOf(v)' = a, pc'[v] # "idle"
        PROVE  /\ \/ AppOf(v) = a /\ pc[v] # "idle" /\ loaded'[v] = loaded[v]
                  \/ loaded'[v] = published[a] /\ passed'[a] = 0
               /\ pc'[v] = "insert" => \A r \in RowsOf(a) : r.seq < nextSeq'[v]
    <3>1. AppOf(v) = a
      BY <2>1, <2>4 DEF AppOf
    <3>2. CASE v = w
      BY <3>1, <3>2, <2>1, <2>2, <1>types DEF Bounds, TypeOK
    <3>3. CASE v # w
      <4>1. pc'[v] = pc[v] /\ loaded'[v] = loaded[v] /\ nextSeq'[v] = nextSeq[v]
        BY <3>3, <2>1, <1>types DEF Bounds, TypeOK
      <4> QED
        BY <4>1, <3>1, <2>4 DEF AloneInv
    <3> QED
      BY <3>2, <3>3
  <2> QED
    BY <2>1, <2>2, <2>3, <2>4, <1>types, <1>nat, AloneKeeps
<1>4. ASSUME NEW w \in Writers, LoadFails(w)
      PROVE  AloneInv(a)'
  <2>1. /\ rows' = rows /\ published' = published /\ passed' = passed /\ loaded' = loaded
        /\ pc' = pc /\ nextSeq' = nextSeq /\ pc[w] = "idle" /\ leg' = [leg EXCEPT ![w] = 1]
    BY <1>4 DEF LoadFails, logVars
  <2>2. \A v \in Writers : pc'[v] # "idle" => AppOf(v)' = AppOf(v)
    BY <2>1 DEF Bounds, AppOf
  <2> QED
    BY <2>1, <2>2, <1>types, <1>nat, AloneStill
<1>5. ASSUME NEW w \in Writers, UNCHANGED <<rows, published, leg, loaded, passed>>, pc[w] # "idle",
             \E p \in Steps \ {"insert"} : pc' = [pc EXCEPT ![w] = p],
             nextSeq' = nextSeq \/ \E n : nextSeq' = [nextSeq EXCEPT ![w] = n]
      PROVE  AloneInv(a)'
  <2>1. ASSUME NEW v \in Writers, pc'[v] # "idle"
        PROVE  /\ pc[v] # "idle" /\ AppOf(v)' = AppOf(v) /\ loaded'[v] = loaded[v]
               /\ pc'[v] = "insert" => pc[v] = "insert" /\ nextSeq'[v] = nextSeq[v]
    <3>1. AppOf(v)' = AppOf(v) /\ loaded'[v] = loaded[v]
      BY <1>5 DEF AppOf
    <3>2. CASE v = w
      BY <3>1, <3>2, <1>5, <1>types DEF TypeOK
    <3>3. CASE v # w
      BY <3>1, <3>3, <2>1, <1>5, <1>types DEF TypeOK
    <3> QED
      BY <3>2, <3>3
  <2> QED
    BY <1>5, <2>1, <1>types, <1>nat, AloneStill
<1>6. ASSUME NEW w \in Writers, YieldEvent(w)
      PROVE  AloneInv(a)'
  <2>1. /\ UNCHANGED <<rows, published, leg, loaded, passed, nextSeq>> /\ pc[w] = "ready"
        /\ pc' = [pc EXCEPT ![w] = "check"]
    BY <1>6 DEF YieldEvent, Emit
  <2> QED
    BY <2>1, <1>5 DEF Steps
<1>7. ASSUME NEW w \in Writers, CheckExists(w) \/ PutPayload(w) \/ PutProvenance(w), UNCHANGED passVars
      PROVE  AloneInv(a)'
  <2>1. /\ UNCHANGED <<rows, published, leg, loaded, passed>> /\ pc[w] # "idle"
        /\ \E p \in Steps \ {"insert"} : pc' = [pc EXCEPT ![w] = p]
        /\ nextSeq' = nextSeq \/ \E n : nextSeq' = [nextSeq EXCEPT ![w] = n]
    BY <1>7 DEF CheckExists, PutPayload, PutProvenance, passVars, Steps
  <2> QED
    BY <2>1, <1>5
<1>8. ASSUME NEW w \in Writers, ReadLastSeq(w), UNCHANGED passVars
      PROVE  AloneInv(a)'
  <2>1. /\ UNCHANGED <<rows, published, leg, loaded, passed>> /\ pc[w] = "seq"
        /\ pc' = [pc EXCEPT ![w] = "insert"]
        /\ nextSeq' = [nextSeq EXCEPT ![w] = LastSeq + 1]
    BY <1>8 DEF ReadLastSeq, passVars
  <2>2. \A r \in rows : r.seq < LastSeq + 1
    <3>1. \A r \in rows : r.seq \in 1 .. LastSeq
      BY DEF LogInv, SeqGapless, SeqsOf
    <3> QED
      BY <3>1 DEF LogInv
  <2>3. ASSUME NEW v \in Writers, pc'[v] # "idle"
        PROVE  /\ pc[v] # "idle" /\ AppOf(v)' = AppOf(v) /\ loaded'[v] = loaded[v]
               /\ pc'[v] = "insert" =>
                    \/ pc[v] = "insert" /\ nextSeq'[v] = nextSeq[v]
                    \/ \A r \in rows : r.seq < nextSeq'[v]
    <3>1. AppOf(v)' = AppOf(v) /\ loaded'[v] = loaded[v]
      BY <2>1 DEF AppOf
    <3>2. CASE v = w
      <4>1. nextSeq'[v] = LastSeq + 1
        BY <3>2, <2>1, <1>types DEF TypeOK
      <4> QED
        BY <4>1, <3>1, <3>2, <2>1, <2>2
    <3>3. CASE v # w
      BY <3>1, <3>3, <2>1, <2>3, <1>types DEF TypeOK
    <3> QED
      BY <3>2, <3>3
  <2> QED
    BY <2>1, <2>3, <1>types, <1>nat, AloneStill
<1>9. ASSUME NEW w \in Writers, Insert(w), UNCHANGED passVars
      PROVE  AloneInv(a)'
  <2>1. CASE AppOf(w) = a
    BY <2>1, <1>9, AloneInsert
  <2>2. CASE AppOf(w) # a
    <3>1. /\ rows' = rows \cup {NewRow(w)} /\ pc[w] = "insert" /\ pc' = [pc EXCEPT ![w] = "ready"]
          /\ nextSeq' = [nextSeq EXCEPT ![w] = 0] /\ UNCHANGED <<published, leg, loaded, passed>>
      BY <1>9 DEF Insert, passVars
    <3>2. NewRow(w).event \notin EventsOf(a)
      <4>1. hand[w] \in EventsOf(AppOf(w)) /\ AppOf(w) \in Apps
        <5>1. item[w] - 1 \in 1 .. Len(Yields(w)) /\ hand[w] = Yields(w)[item[w] - 1]
          BY <3>1 DEF PassInv, InPass, Appending
        <5> QED
          BY <5>1, <3>1, <1>types, YieldFacts, YieldsOfApp
      <4> QED
        BY <4>1, <2>2, <1>types, EntitiesAssumption DEF NewRow
    <3>3. RowsOf(a)' = RowsOf(a)
      BY <3>1, <3>2 DEF RowsOf
    <3>4. ASSUME NEW v \in Writers, AppOf(v)' = a, pc'[v] # "idle"
          PROVE  /\ AppOf(v) = a /\ pc[v] # "idle" /\ loaded'[v] = loaded[v]
                 /\ pc'[v] = "insert" => \A r \in RowsOf(a) : r.seq < nextSeq'[v]
      <4>1. AppOf(v) = a /\ loaded'[v] = loaded[v] /\ v # w
        BY <3>1, <3>4, <2>2 DEF AppOf
      <4>2. pc'[v] = pc[v] /\ nextSeq'[v] = nextSeq[v]
        BY <4>1, <3>1, <1>types DEF TypeOK
      <4> QED
        BY <4>1, <4>2, <3>4 DEF AloneInv
    <3> QED
      BY <3>1, <3>3, <3>4, <1>types, <1>nat, AloneKeeps
  <2> QED
    BY <2>1, <2>2
<1>10. ASSUME NEW w \in Writers, UNCHANGED <<rows, published>>, passed' = passed,
              nextSeq' = nextSeq \/ nextSeq' = [nextSeq EXCEPT ![w] = 0],
              pc' = [pc EXCEPT ![w] = "idle"] \/ (pc[w] = "idle" /\ pc' = pc),
              \E j : MoveTo(w, j)
       PROVE  AloneInv(a)'
  <2>1. ASSUME NEW v \in Writers, pc'[v] # "idle"
        PROVE  /\ pc[v] # "idle" /\ AppOf(v)' = AppOf(v) /\ loaded'[v] = loaded[v]
               /\ pc'[v] = "insert" => pc[v] = "insert" /\ nextSeq'[v] = nextSeq[v]
    <3>1. v # w
      BY <1>10, <2>1, <1>types DEF TypeOK
    <3> QED
      BY <3>1, <2>1, <1>10, <1>types DEF TypeOK, Bounds, MoveTo, AppOf
  <2> QED
    BY <1>10, <2>1, <1>types, <1>nat, AloneStill
<1>11. ASSUME NEW w \in Writers, AppendConflict(w) \/ Fail(w)
       PROVE  AloneInv(a)'
  <2>1. /\ UNCHANGED <<rows, published>> /\ passed' = passed
        /\ nextSeq' = nextSeq \/ nextSeq' = [nextSeq EXCEPT ![w] = 0]
        /\ pc' = [pc EXCEPT ![w] = "idle"] \/ (pc[w] = "idle" /\ pc' = pc)
        /\ MoveTo(w, 1)
    BY <1>11 DEF AppendConflict, InsertConflict, Fail, Crash, logVars
  <2> QED
    BY <2>1, <1>10
<1>12. ASSUME NEW w \in Writers, FinishPass(w)
       PROVE  AloneInv(a)'
  <2>1. /\ UNCHANGED <<rows, published>> /\ pc[w] = "ready" /\ pc' = [pc EXCEPT ![w] = "idle"]
        /\ item[w] > Len(Yields(w)) /\ nextSeq' = [nextSeq EXCEPT ![w] = 0]
        /\ passed' = [passed EXCEPT ![AppOf(w)] = loaded[w]] /\ \E j : MoveTo(w, j)
    BY <1>12 DEF FinishPass, EndPass
  <2>2. RowsOf(a)' = RowsOf(a) /\ Logged' = Logged
    BY <2>1 DEF RowsOf, Logged
  <2>3. ASSUME NEW v \in Writers, AppOf(v)' = a, pc'[v] # "idle"
        PROVE  /\ AppOf(v) = a /\ pc[v] # "idle" /\ loaded'[v] = loaded[v] /\ v # w
               /\ pc'[v] = "insert" => \A r \in RowsOf(a) : r.seq < nextSeq'[v]
    <3>1. v # w
      BY <2>1, <2>3, <1>types DEF TypeOK
    <3>2. /\ AppOf(v)' = AppOf(v) /\ loaded'[v] = loaded[v] /\ pc'[v] = pc[v] /\ nextSeq'[v] = nextSeq[v]
      BY <3>1, <2>1, <1>types DEF TypeOK, Bounds, MoveTo, AppOf
    <3> QED
      BY <3>1, <3>2, <2>3 DEF AloneInv
  <2>4. CASE AppOf(w) # a
    <3>1. passed'[a] = passed[a]
      BY <2>1, <2>4, <1>types DEF Bounds
    <3> QED
      BY <2>1, <2>2, <2>3, <3>1, <1>types, <1>nat, AloneKeeps
  <2>5. CASE AppOf(w) = a
    <3>1. passed'[a] = loaded[w]
      BY <2>1, <2>5, <1>types DEF Bounds
    <3>2. InOrder(RowsOf(a), a, loaded[w])
      BY <2>1, <2>5 DEF AloneInv
    <3>3. Among(Yields(w)) \subseteq Logged /\ stamp[w] \in Instants
      <4>1. Len(Yields(w)) \in Nat /\ item[w] \in Nat /\ stamp[w] \in Instants
        BY <2>1, <1>types, YieldFacts DEF Bounds
      <4>2. Before(Yields(w), item[w]) \subseteq Logged
        BY <2>1 DEF PassInv, InPass
      <4> QED
        BY <4>1, <4>2, <2>1, BeforeAll
    <3>4. \E t \in Instants : Among(Passes[a][passed'[a]][t]) \subseteq Logged'
      BY <2>2, <2>5, <3>1, <3>3 DEF Yields
    <3>5. \A v \in Writers : ~ (AppOf(v)' = a /\ pc'[v] # "idle")
      BY <2>3, <2>5, OneInPass
    <3>6. InOrder(RowsOf(a)', a, published'[a])
      BY <2>1, <2>2 DEF AloneInv
    <3> QED
      BY <2>2, <3>1, <3>2, <3>4, <3>5, <3>6 DEF AloneInv
  <2> QED
    BY <2>4, <2>5
<1>13. CASE UNCHANGED wsVars
  BY <1>13, <1>types, <1>nat, AloneStill DEF wsVars, logVars, passVars, AppOf
<1> QED
  BY <1>1, <1>2, <1>3, <1>4, <1>6, <1>7, <1>8, <1>9, <1>11, <1>12, <1>13
     DEF WsNext, CycleStep, AppendYielded

\* The invariant of steady sources holds at every moment of every run.
LEMMA SteadyInvariant == WsSpec => []SteadyInv
<1>1. WsInit => SteadyInv
  <2> SUFFICES ASSUME WsInit
               PROVE  SteadyInv
    OBVIOUS
  <2>1. rows = {} /\ \A w \in Writers : pc[w] = "idle"
    BY DEF WsInit, Init
  <2>2. \A a \in Apps : passed[a] = 0
    BY DEF WsInit
  <2>3. \A a \in Alone : a \in Apps /\ RowsOf(a) = {}
    BY <2>1 DEF Alone, RowsOf
  <2> QED
    BY <2>1, <2>2, <2>3 DEF SteadyInv, AloneInv, InOrder
<1>2. LogInv /\ Bounds /\ Bounds' /\ PassInv /\ SteadyInv /\ [WsNext]_wsVars => SteadyInv'
  <2> SUFFICES ASSUME LogInv, Bounds, Bounds', PassInv, SteadyInv, [WsNext]_wsVars
               PROVE  SteadyInv'
    OBVIOUS
  <2>1. \A a \in Alone : AloneInv(a)'
    BY AloneNext DEF SteadyInv
  <2>2. rows' = rows \/ \E w \in Writers : Insert(w)
    BY DEF WsNext, wsVars, logVars, Tick, Publish, CycleStep, StartPass, BeginPass, LoadFails, YieldEvent,
           Emit, AppendYielded, CheckExists, PutPayload, PutProvenance, ReadLastSeq, FinishPass, EndPass,
           AppendConflict, InsertConflict, Fail, Crash
  <2>3. \A w \in Writers : stamp[w] \in Instants
    <3> SUFFICES ASSUME NEW w \in Writers
                 PROVE  stamp[w] \in Instants
      OBVIOUS
    <3>1. stamp[w] \in (0 .. now) \cup Given /\ now \in Nat /\ now <= MaxTime
      BY DEF LogInv, TypeOK, Bounds
    <3>2. CASE stamp[w] \in Given
      BY <3>2 DEF Instants
    <3>3. CASE stamp[w] \in 0 .. now
      BY <3>1, <3>3, MaxTimeAssumption DEF Instants
    <3> QED
      BY <3>1, <3>2, <3>3
  <2>4. \A r \in rows' : r.stamp \in Instants
    BY <2>2, <2>3 DEF SteadyInv, Insert, NewRow
  <2> QED
    BY <2>1, <2>4 DEF SteadyInv
<1> QED
  BY <1>1, <1>2, BoundsInvariant, PassInvariant, PTL DEF WsSpec

\* For every source whose changes have times and never revert, every plan with that
\* source in one place, every pattern of failures and every interleaving: once a
\* pass is through, the fold shows what it read.
THEOREM SteadySourceAlwaysShown == WsSpec => []SteadySourceShown
BY SteadyShows, SteadyInvariant, PassInvariant, BoundsInvariant, PTL

\* The same promises survive the worker's cycle over several sources, with passes
\* that load nothing, passes that fail half way and commands beside the worker.
THEOREM WorkspaceKeepsPromises ==
  WsSpec => /\ ImplementsBitemporalLog
            /\ SettledViewFrozen
            /\ []RowsResolvable
            /\ []SeqGapless
<1>1. Spec => /\ ImplementsBitemporalLog
              /\ SettledViewFrozen
              /\ []RowsResolvable
              /\ []SeqGapless
  BY LogImplementsBitemporalLog, SettledViewStaysFrozen, RowsAlwaysResolvable, SeqAlwaysGapless
<1> QED
  BY <1>1, PassesImplementLog, PTL DEF ImplementsEventLog

=============================================================================

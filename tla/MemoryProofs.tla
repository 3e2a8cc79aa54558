---------------------------- MODULE MemoryProofs ----------------------------
(***************************************************************************)
(* Proofs about Memory: typing, the record that only grows, why a claim is *)
(* inactive, and what an undisturbed sweep leaves behind.                  *)
(***************************************************************************)
EXTENDS Memory, TLAPS

Resolving == {"contradict", "deactivate", "reactivate"}
Sweeping  == {"sweep"} \cup Resolving

\* Between the SELECT and the INSERT of add the item is at the head and is dated.
Ready ==
  \A p \in Compilers :
    At(p, "insert") => todo[p] # <<>> /\ Head(todo[p]) \in Item

TypeInv == MemTypeOK /\ Ready

\* Why the pair at hand is resolved as it is, from its supersedes edge on.
PairRanked ==
  \A p \in Compilers :
    pc[p] \in Resolving =>
      /\ Contradicts(pair[p][1], pair[p][2])
      /\ Beats(pair[p][1], pair[p][2])
      /\ Edge(pair[p][1], "supersedes", pair[p][2]) \in edges

\* What a sweep knows: it starts with nothing inactivated, never inactivates the
\* winner at hand, and as long as nobody disturbs it, it has read everything, what it
\* has inactivated stays so, and in the end no two active claims are opposed.
SweepKnows(p) ==
  /\ pc[p] \in {"idle", "add", "insert"} => gone[p] = {}
  /\ pc[p] \in Resolving => pair[p][1].id \notin gone[p]
  /\ pc[p] \in Sweeping /\ alone[p] =>
       /\ read[p] = items
       /\ \A x \in items : x.id \in gone[p] => x.id \notin active
  /\ At(p, "write") /\ alone[p] => ~ \E x, y \in Actives : Contradicts(x, y)

\* The inductive invariant.
MemInv ==
  /\ TypeInv
  /\ PairRanked
  /\ LosersAreBeaten
  /\ \A p \in Compilers : SweepKnows(p)

-----------------------------------------------------------------------------
\* On stored items the order of a sweep is total up to the id, and so is the rank.
LEMMA RankTotal ==
  ASSUME NEW x \in Item, NEW y \in Item
  PROVE  /\ x.id # y.id => RankedBefore(x, y) \/ RankedBefore(y, x)
         /\ KeyAtLeast(x, y) \/ KeyAtLeast(y, x)
<1>1. /\ x.conf \in Int /\ y.conf \in Int /\ x.created \in Nat /\ y.created \in Nat
      /\ x.acl \in Acls /\ y.acl \in Acls /\ x.id \in Ids /\ y.id \in Ids
  BY DEF Item
<1>2. /\ IdRank[x.id] \in Nat /\ IdRank[y.id] \in Nat
      /\ IdRank[x.id] = IdRank[y.id] => x.id = y.id
  BY <1>1, IdRankAssumption
<1>3. AclPriority[x.acl] \in Nat /\ AclPriority[y.acl] \in Nat
  BY <1>1 DEF Acls, AclPriority
<1> QED
  BY <1>1, <1>2, <1>3 DEF RankedBefore, KeyAtLeast

\* Contradiction is symmetric and never of an item with itself.
LEMMA ContradictsSymmetric ==
  ASSUME NEW x, NEW y, Contradicts(x, y)
  PROVE  Contradicts(y, x) /\ x.id # y.id /\ x # y
<1>1. /\ x.id.claim.words \cap y.id.claim.words = y.id.claim.words \cap x.id.claim.words
      /\ x.id.claim.words \cup y.id.claim.words = y.id.claim.words \cup x.id.claim.words
  OBVIOUS
<1> QED
  BY <1>1 DEF Contradicts, SameGroup

\* Of two items in sweep order that contradict each other, the winner beats the loser.
LEMMA WinnerBeatsLoser ==
  ASSUME NEW a \in Item, NEW b \in Item, RankedBefore(a, b), Contradicts(a, b)
  PROVE  /\ Contradicts(Winner(a, b), Loser(a, b))
         /\ Beats(Winner(a, b), Loser(a, b))
         /\ {Winner(a, b), Loser(a, b)} = {a, b}
<1>1. a # b /\ Contradicts(b, a)
  BY ContradictsSymmetric
<1>2. CASE KeyAtLeast(a, b)
  BY <1>1, <1>2 DEF Winner, Loser, Beats
<1>3. CASE ~ KeyAtLeast(a, b)
  BY <1>1, <1>3, RankTotal DEF Winner, Loser, Beats
<1> QED
  BY <1>2, <1>3

-----------------------------------------------------------------------------
\* Typing.  The documents' paths and the drafts made of candidates are typed.
LEMMA PathTyped ==
  ASSUME NEW x \in Item
  PROVE  PathOf(x) \in Paths
BY DEF Item, Paths, PathOf

LEMMA PromotedTyped ==
  ASSUME synced \in 0 .. Len(App), NEW runs \in Inputs \cup {<<>>}
  PROVE  Promoted(runs, Known) \in Seq(Draft)
BY InputsAssumption DEF Known

LEMMA DatedTyped ==
  ASSUME NEW drafts \in Seq(Draft), NEW t \in Nat
  PROVE  [i \in 1 .. Len(drafts) |-> [drafts[i] EXCEPT !.created = t]] \in Seq(Draft)
<1>1. ASSUME NEW i \in 1 .. Len(drafts)
      PROVE  [drafts[i] EXCEPT !.created = t] \in Draft
  <2>1. drafts[i] \in Draft
    OBVIOUS
  <2> QED
    BY <2>1 DEF Draft
<1> QED
  BY <1>1

LEMMA FactsTyped ==
  ASSUME synced \in 0 .. Len(App)
  PROVE  Facts(Known) \in Seq(Draft)
BY InputsAssumption DEF Known

\* A process that starts a job keeps the types.
LEMMA StartTyped ==
  ASSUME TypeInv, NEW p \in Compilers, NEW what \in Jobs, NEW drafts \in Seq(Draft),
         pc[p] \in {"idle", "add"}, Start(p, what, drafts)
  PROVE  TypeInv'
<1> USE DEF TypeInv, MemTypeOK, Ready, Resolving, Start, Goto, world, store, At, Steps
<1>1. todo' \in [Compilers -> Seq(Draft)]
  OBVIOUS
<1>2. pc' = [pc EXCEPT ![p] = "add"] /\ pc' \in [Compilers -> Steps]
  OBVIOUS
<1>3. Stored' = Stored
  BY DEF Stored
<1>4. /\ pair' \in [Compilers -> {<<>>} \cup (items' \X items')]
      /\ \A q \in Compilers : pc'[q] \in Resolving => pair'[q] \in read'[q] \X read'[q]
  OBVIOUS
<1>5. Ready'
  OBVIOUS
<1> QED
  BY <1>1, <1>2, <1>3, <1>4, <1>5 DEF Jobs

\* A process that is over keeps the types.
LEMMA LeaveTyped ==
  ASSUME TypeInv, NEW p \in Compilers, Leave(p), UNCHANGED <<world, store, alone>>
  PROVE  TypeInv'
<1> USE DEF TypeInv, MemTypeOK, Ready, Resolving, Leave, world, store, At, Steps, Jobs
<1>1. <<>> \in Seq(Draft)
  OBVIOUS
<1>2. Stored' = Stored
  BY DEF Stored
<1>3. /\ pair' \in [Compilers -> {<<>>} \cup (items' \X items')]
      /\ \A q \in Compilers : pc'[q] \in Resolving => pair'[q] \in read'[q] \X read'[q]
  OBVIOUS
<1>4. Ready'
  OBVIOUS
<1> QED
  BY <1>1, <1>2, <1>3, <1>4

\* add's query and its early return keep the types; the item it is about to insert is
\* dated.
LEMMA CheckItemTyped ==
  ASSUME TypeInv, NEW p \in Compilers, CheckItem(p)
  PROVE  TypeInv'
<1> DEFINE draft == Head(todo[p])
<1> USE DEF TypeInv, MemTypeOK, Ready, Resolving, world, store, At
<1>1. todo[p] \in Seq(Draft) /\ todo[p] # <<>> /\ draft \in Draft /\ draft = todo[p][1]
  BY DEF CheckItem
<1>2. Stored' = Stored
  BY DEF CheckItem, Stored
<1>3. /\ pair' \in [Compilers -> {<<>>} \cup (items' \X items')]
      /\ \A q \in Compilers : pc'[q] \in Resolving => pair'[q] \in read'[q] \X read'[q]
  BY DEF CheckItem, Goto
<1>4. CASE draft.id \in Stored
  <2>1. todo' = [todo EXCEPT ![p] = Tail(todo[p])] /\ pc' = pc
    BY <1>4 DEF CheckItem
  <2>2. todo' \in [Compilers -> Seq(Draft)]
    BY <1>1, <2>1
  <2>3. Ready'
    BY <2>1 DEF CheckItem
  <2> QED
    BY <1>2, <1>3, <2>1, <2>2, <2>3 DEF CheckItem
<1>5. CASE draft.id \notin Stored
  <2> DEFINE dated == [draft EXCEPT !.created = IF draft.created = Unset THEN now
                                                ELSE draft.created]
  <2>1. dated \in Item /\ dated \in Draft
    BY <1>1 DEF Draft, Item, Unset
  <2>2. todo' = [todo EXCEPT ![p] = [todo[p] EXCEPT ![1] = dated]]
    BY <1>1, <1>5 DEF CheckItem
  <2>3. [todo[p] EXCEPT ![1] = dated] \in Seq(Draft) /\ [todo[p] EXCEPT ![1] = dated] # <<>>
        /\ Head([todo[p] EXCEPT ![1] = dated]) = dated
    <3> HIDE DEF dated, draft
    <3> QED
      BY <1>1, <2>1
  <2>4. pc' = [pc EXCEPT ![p] = "insert"]
    BY <1>5 DEF CheckItem, Goto
  <2> HIDE DEF dated, draft
  <2>5. todo' \in [Compilers -> Seq(Draft)] /\ pc' \in [Compilers -> Steps]
    BY <2>2, <2>3, <2>4 DEF Steps
  <2>6. Ready'
    BY <2>1, <2>2, <2>3, <2>4 DEF CheckItem
  <2> QED
    BY <1>2, <1>3, <2>5, <2>6 DEF CheckItem
<1> QED
  BY <1>4, <1>5

\* The INSERT keeps the types, the ids unique among them, and adds one active item.
LEMMA InsertItemTyped ==
  ASSUME TypeInv, NEW p \in Compilers, InsertItem(p)
  PROVE  TypeInv'
<1> DEFINE x == Head(todo[p])
<1> USE DEF TypeInv, MemTypeOK, Ready, Resolving, world, At
<1>1. x \in Item /\ x.id \notin Stored /\ todo[p] \in Seq(Draft) /\ todo[p] # <<>>
  BY DEF InsertItem
<1>2. items' = items \cup {x} /\ Stored' = Stored \cup {x.id} /\ active' = active \cup {x.id}
  BY DEF InsertItem, Stored
<1>3. \A y, z \in items' : y.id = z.id => y = z
  BY <1>1, <1>2 DEF Stored
<1>4. todo' \in [Compilers -> Seq(Draft)]
  BY <1>1 DEF InsertItem
<1>5. pc' = [pc EXCEPT ![p] = "add"] /\ pc' \in [Compilers -> Steps]
  BY DEF InsertItem, Goto, Steps
<1>6. alone' \in [Compilers -> BOOLEAN]
  BY DEF InsertItem, Disturb
<1>7. /\ pair' \in [Compilers -> {<<>>} \cup (items' \X items')]
      /\ \A q \in Compilers : pc'[q] \in Resolving => pair'[q] \in read'[q] \X read'[q]
  BY <1>5 DEF InsertItem
<1>8. Ready'
  BY <1>5 DEF InsertItem
<1>9. /\ edges' \subseteq [src : Stored', relation : {"supersedes", "contradicts"}, dst : Stored']
      /\ docs' \in [Paths -> SUBSET items'] /\ read' \in [Compilers -> SUBSET items']
      /\ gone' \in [Compilers -> SUBSET Stored'] /\ unwritten' \in [Compilers -> SUBSET Paths]
  BY <1>2 DEF InsertItem
<1> QED
  BY <1>1, <1>2, <1>3, <1>4, <1>5, <1>6, <1>7, <1>8, <1>9 DEF InsertItem

\* The sweep's steps keep the types: what they touch are items they have read.
LEMMA SweepTyped ==
  ASSUME TypeInv, NEW p \in Compilers,
         \/ ReadItems(p) \/ Supersede(p) \/ Contradict(p) \/ Deactivate(p) \/ Reactivate(p)
  PROVE  TypeInv'
<1> USE DEF TypeInv, MemTypeOK, Ready, Resolving, Goto, world, At, Steps, Stored
<1>1. CASE ReadItems(p)
  <2>1. pc' = [pc EXCEPT ![p] = "sweep"] /\ read' = [read EXCEPT ![p] = items]
    BY <1>1 DEF ReadItems
  <2>2. pc' \in [Compilers -> Steps] /\ read' \in [Compilers -> SUBSET items]
    BY <2>1
  <2>3. \A q \in Compilers : pc'[q] \in Resolving => pair'[q] \in read'[q] \X read'[q]
    BY <1>1, <2>1 DEF ReadItems
  <2>4. Ready'
    BY <1>1, <2>1 DEF ReadItems
  <2>5. alone' \in [Compilers -> BOOLEAN]
    BY <1>1, Zenon DEF ReadItems
  <2>6. UNCHANGED <<now, synced, items, active, edges, docs, job, todo, gone, pair, unwritten>>
    BY <1>1 DEF ReadItems, store
  <2> QED
    BY <2>2, <2>3, <2>4, <2>5, <2>6
<1>2. CASE Supersede(p)
  <2>1. PICK a \in read[p], b \in read[p] :
          /\ NextPair(p, a, b)
          /\ pair' = [pair EXCEPT ![p] = <<Winner(a, b), Loser(a, b)>>]
          /\ edges' = edges \cup {Edge(Winner(a, b), "supersedes", Loser(a, b))}
    BY <1>2 DEF Supersede
  <2>2. Winner(a, b) \in read[p] /\ Loser(a, b) \in read[p] /\ read[p] \subseteq items
    BY DEF Winner, Loser
  <2> DEFINE w == Winner(a, b)
             x == Loser(a, b)
  <2> HIDE DEF w, x
  <2>3. /\ pair' \in [Compilers -> {<<>>} \cup (items \X items)]
        /\ edges' \subseteq [src : Stored, relation : {"supersedes", "contradicts"}, dst : Stored]
    BY <2>1, <2>2 DEF w, x, Edge
  <2>4. pair' = [pair EXCEPT ![p] = <<w, x>>] /\ w \in read[p] /\ x \in read[p]
    BY <2>1, <2>2 DEF w, x
  <2>5. \A q \in Compilers : pc'[q] \in Resolving => pair'[q] \in read'[q] \X read'[q]
    BY <1>2, <2>4 DEF Supersede
  <2> QED
    BY <1>2, <2>3, <2>5 DEF Supersede
<1>3. CASE Contradict(p)
  <2>1. pair[p] \in read[p] \X read[p] /\ read[p] \subseteq items
    BY <1>3 DEF Contradict
  <2>2. edges' \subseteq [src : Stored, relation : {"supersedes", "contradicts"}, dst : Stored]
    BY <1>3, <2>1 DEF Contradict, Edge
  <2> QED
    BY <1>3, <2>2 DEF Contradict
<1>4. CASE Deactivate(p)
  <2>1. pair[p] \in read[p] \X read[p] /\ read[p] \subseteq items
    BY <1>4 DEF Deactivate
  <2>2. pair[p][2].id \in Stored
    BY <2>1
  <2> QED
    BY <1>4, <2>2 DEF Deactivate, Disturb
<1>5. CASE Reactivate(p)
  <2>1. pair[p] \in read[p] \X read[p] /\ read[p] \subseteq items
    BY <1>5 DEF Reactivate
  <2>2. pair[p][1].id \in Stored
    BY <2>1
  <2> QED
    BY <1>5, <2>2 DEF Reactivate, Disturb
<1> QED
  BY <1>1, <1>2, <1>3, <1>4, <1>5

\* The writing of the documents keeps the types.
LEMMA WritingTyped ==
  ASSUME TypeInv, NEW p \in Compilers, ListActive(p) \/ WriteDocument(p)
  PROVE  TypeInv'
<1> USE DEF TypeInv, MemTypeOK, Ready, Resolving, Goto, world, store, At, Steps
<1>1. Stored' = Stored /\ items' = items
  BY DEF ListActive, WriteDocument, Stored
<1>2. CASE ListActive(p)
  <2>1. {PathOf(x) : x \in Actives} \subseteq Paths /\ Actives \subseteq items
    BY PathTyped DEF Actives
  <2> QED
    BY <1>1, <1>2, <2>1 DEF ListActive
<1>3. CASE WriteDocument(p)
  <2>1. PICK path \in unwritten[p] :
          /\ docs' = [docs EXCEPT ![path] = {x \in read[p] : PathOf(x) = path}]
          /\ unwritten' = [unwritten EXCEPT ![p] = @ \ {path}]
    BY <1>3 DEF WriteDocument
  <2>2. docs' \in [Paths -> SUBSET items] /\ unwritten' \in [Compilers -> SUBSET Paths]
    BY <2>1
  <2> QED
    BY <1>1, <1>3, <2>2 DEF WriteDocument, Disturb
<1> QED
  BY <1>2, <1>3

\* Every step keeps the types.
LEMMA TypeStep ==
  TypeInv /\ [MemNext]_memVars => TypeInv'
<1> SUFFICES ASSUME TypeInv, [MemNext]_memVars
             PROVE  TypeInv'
  OBVIOUS
<1>1. CASE Tick \/ Sync
  BY <1>1 DEF Tick, Sync, TypeInv, MemTypeOK, Ready, store, local, At, Stored
<1>2. ASSUME NEW p \in Compilers, LoadSeed(p) PROVE TypeInv'
  BY <1>2, StartTyped, InputsAssumption DEF LoadSeed, At, Jobs
<1>3. ASSUME NEW p \in Compilers, Bootstrap(p) PROVE TypeInv'
  <2> DEFINE facts == Facts(Known)
             dated == [i \in 1 .. Len(facts) |-> [facts[i] EXCEPT !.created = now]]
  <2>1. facts \in Seq(Draft) /\ now \in Nat
    BY FactsTyped DEF TypeInv, MemTypeOK
  <2>2. dated \in Seq(Draft)
    BY <2>1, DatedTyped
  <2>3. Start(p, "bootstrap", dated) /\ pc[p] = "idle"
    BY <1>3 DEF Bootstrap, At
  <2> HIDE DEF dated
  <2> QED
    BY <2>2, <2>3, StartTyped DEF Jobs
<1>4. ASSUME NEW p \in Compilers, NEW runs \in Inputs, Compile(p, runs) PROVE TypeInv'
  BY <1>4, StartTyped, PromotedTyped DEF Compile, At, Jobs, TypeInv, MemTypeOK
<1>5. ASSUME NEW p \in Compilers, CompileAfterFacts(p) PROVE TypeInv'
  BY <1>5, StartTyped, PromotedTyped DEF CompileAfterFacts, At, Jobs, TypeInv, MemTypeOK
<1>6. ASSUME NEW p \in Compilers, SeedLoaded(p) \/ InsertConflict(p) \/ Compiled(p) \/ Die(p)
      PROVE  TypeInv'
  BY <1>6, LeaveTyped DEF SeedLoaded, InsertConflict, Compiled, Die
<1>7. CASE UNCHANGED memVars
  BY <1>7 DEF memVars, TypeInv, MemTypeOK, Ready, At, Stored
<1> QED
  BY <1>1, <1>2, <1>3, <1>4, <1>5, <1>6, <1>7,
     CheckItemTyped, InsertItemTyped, SweepTyped, WritingTyped DEF MemNext, Work

LEMMA InitTyped ==
  MemInit => TypeInv
<1> SUFFICES ASSUME MemInit
             PROVE  TypeInv
  OBVIOUS
<1>1. 0 \in 0 .. Len(App)
  <2>1. Len(App) \in Nat
    BY InputsAssumption
  <2> QED
    BY <2>1
<1>2. /\ todo \in [Compilers -> Seq(Draft)]
      /\ pair \in [Compilers -> {<<>>} \cup (items \X items)]
      /\ docs \in [Paths -> SUBSET items]
  BY DEF MemInit
<1>3. /\ items = {} /\ active = {} /\ edges = {} /\ now = 0 /\ synced = 0
      /\ pc \in [Compilers -> {"idle"}]
      /\ job \in [Compilers -> Jobs] /\ read \in [Compilers -> SUBSET items]
      /\ gone \in [Compilers -> SUBSET Stored] /\ unwritten \in [Compilers -> SUBSET Paths]
      /\ alone \in [Compilers -> BOOLEAN]
  BY DEF MemInit, Jobs
<1>4. Ready
  BY <1>3 DEF Ready, At
<1>5. /\ pc \in [Compilers -> Steps]
      /\ \A p \in Compilers : pc[p] \notin {"contradict", "deactivate", "reactivate"}
  BY <1>3 DEF Steps
<1>6. /\ items \subseteq Item /\ active \subseteq Stored
      /\ \A x, y \in items : x.id = y.id => x = y
      /\ edges \subseteq [src : Stored, relation : {"supersedes", "contradicts"}, dst : Stored]
  BY <1>3
<1> QED
  BY <1>1, <1>2, <1>3, <1>4, <1>5, <1>6 DEF TypeInv, MemTypeOK

-----------------------------------------------------------------------------
\* A step that takes no flag, item or edge away, adds only active items and begins no
\* pair leaves every reason for being inactive in place.
LEMMA ReasonsKept ==
  ASSUME PairRanked, LosersAreBeaten,
         items \subseteq items', edges \subseteq edges', active \subseteq active',
         \A x \in items' \ items : x.id \in active',
         \A q \in Compilers : pc'[q] \in Resolving =>
                             pc[q] \in Resolving /\ pair'[q] = pair[q]
  PROVE  PairRanked' /\ LosersAreBeaten'
<1>1. PairRanked'
  BY DEF PairRanked
<1>2. LosersAreBeaten'
  BY DEF LosersAreBeaten
<1> QED
  BY <1>1, <1>2

\* The pair a sweep takes up is ranked, and the edge says so.
LEMMA SupersedeRanks ==
  ASSUME MemInv, NEW p \in Compilers, Supersede(p)
  PROVE  PairRanked' /\ LosersAreBeaten'
<1>1. PICK a \in read[p], b \in read[p] :
        /\ NextPair(p, a, b)
        /\ pair' = [pair EXCEPT ![p] = <<Winner(a, b), Loser(a, b)>>]
        /\ edges' = edges \cup {Edge(Winner(a, b), "supersedes", Loser(a, b))}
  BY DEF Supersede
<1>2. a \in Item /\ b \in Item
  BY DEF MemInv, TypeInv, MemTypeOK
<1>3. RankedBefore(a, b) /\ Contradicts(a, b)
  BY <1>1 DEF NextPair, Open
<1> DEFINE w == Winner(a, b)
           x == Loser(a, b)
<1>4. Contradicts(w, x) /\ Beats(w, x)
  BY <1>2, <1>3, WinnerBeatsLoser
<1>5. pair'[p] = <<w, x>> /\ Edge(w, "supersedes", x) \in edges'
  BY <1>1 DEF MemInv, TypeInv, MemTypeOK
<1> HIDE DEF w, x
<1>6. PairRanked'
  <2> SUFFICES ASSUME NEW q \in Compilers, pc'[q] \in Resolving
               PROVE  /\ Contradicts(pair'[q][1], pair'[q][2])
                      /\ Beats(pair'[q][1], pair'[q][2])
                      /\ Edge(pair'[q][1], "supersedes", pair'[q][2]) \in edges'
    BY DEF PairRanked
  <2>1. CASE q = p
    BY <1>4, <1>5, <2>1
  <2>2. CASE q # p
    <3>1. pc'[q] = pc[q] /\ pair'[q] = pair[q] /\ edges \subseteq edges'
      BY <1>1, <2>2 DEF Supersede, Goto, MemInv, TypeInv, MemTypeOK
    <3> QED
      BY <3>1 DEF MemInv, PairRanked
  <2> QED
    BY <2>1, <2>2
<1>7. LosersAreBeaten'
  <2>1. items' = items /\ active' = active /\ edges \subseteq edges'
    BY <1>1 DEF Supersede
  <2> QED
    BY <2>1 DEF MemInv, LosersAreBeaten
<1> QED
  BY <1>6, <1>7

\* The one claim that becomes inactive is the loser of its pair.
LEMMA DeactivateHasReason ==
  ASSUME MemInv, NEW p \in Compilers, Deactivate(p)
  PROVE  PairRanked' /\ LosersAreBeaten'
<1> USE DEF MemInv, TypeInv, MemTypeOK
<1> DEFINE w == pair[p][1]
           l == pair[p][2]
<1>1. /\ items' = items /\ edges' = edges /\ pair' = pair
      /\ active' = active \ {l.id} /\ pc[p] = "deactivate"
      /\ pc' = [pc EXCEPT ![p] = "reactivate"]
  BY DEF Deactivate, Goto, At
<1>2. /\ w \in items /\ l \in items
      /\ Contradicts(w, l) /\ Beats(w, l) /\ Edge(w, "supersedes", l) \in edges
  <2>1. pair[p] \in read[p] \X read[p] /\ read[p] \subseteq items
    BY <1>1
  <2> QED
    BY <1>1, <2>1 DEF PairRanked, Resolving
<1> HIDE DEF w, l
<1>3. PairRanked'
  BY <1>1 DEF PairRanked, Resolving
<1>4. LosersAreBeaten'
  <2> SUFFICES ASSUME NEW x \in items, x.id \notin active'
               PROVE  \E v \in items : /\ Contradicts(v, x) /\ Beats(v, x)
                                       /\ Edge(v, "supersedes", x) \in edges
    BY <1>1 DEF LosersAreBeaten
  <2>1. CASE x.id = l.id
    BY <1>2, <2>1
  <2>2. CASE x.id # l.id
    BY <1>1, <2>2 DEF LosersAreBeaten
  <2> QED
    BY <2>1, <2>2
<1> QED
  BY <1>3, <1>4

\* Every other step is of the harmless kind.
LEMMA ReasonStep ==
  ASSUME MemInv, [MemNext]_memVars
  PROVE  PairRanked' /\ LosersAreBeaten'
<1> DEFINE Harmless ==
      /\ items \subseteq items' /\ edges \subseteq edges' /\ active \subseteq active'
      /\ \A x \in items' \ items : x.id \in active'
      /\ \A q \in Compilers : pc'[q] \in Resolving =>
                             pc[q] \in Resolving /\ pair'[q] = pair[q]
<1> USE DEF Resolving
<1>1. Harmless => PairRanked' /\ LosersAreBeaten'
  BY ReasonsKept DEF MemInv
<1>2. CASE Tick \/ Sync \/ UNCHANGED memVars
  BY <1>1, <1>2 DEF Tick, Sync, memVars, store, local
<1>3. ASSUME NEW p \in Compilers, NEW what, NEW drafts, Start(p, what, drafts)
      PROVE  Harmless
  BY <1>3 DEF Start, Goto, store, MemInv, TypeInv, MemTypeOK
<1>4. ASSUME NEW p \in Compilers, Leave(p), UNCHANGED <<world, store, alone>>
      PROVE  Harmless
  BY <1>4 DEF Leave, store, MemInv, TypeInv, MemTypeOK
<1>5. ASSUME NEW p \in Compilers, CheckItem(p) \/ ReadItems(p) \/ ListActive(p) \/ WriteDocument(p)
      PROVE  Harmless
  BY <1>5 DEF CheckItem, ReadItems, ListActive, WriteDocument, Goto, store, MemInv, TypeInv,
              MemTypeOK
<1>6. ASSUME NEW p \in Compilers, InsertItem(p)
      PROVE  Harmless
  BY <1>6 DEF InsertItem, Goto, MemInv, TypeInv, MemTypeOK
<1>7. ASSUME NEW p \in Compilers, Contradict(p)
      PROVE  Harmless
  BY <1>7 DEF Contradict, Goto, At, MemInv, TypeInv, MemTypeOK
<1>8. ASSUME NEW p \in Compilers, Reactivate(p)
      PROVE  Harmless
  BY <1>8 DEF Reactivate, Goto, At, MemInv, TypeInv, MemTypeOK
<1> HIDE DEF Harmless
<1>9. ASSUME NEW p \in Compilers,
             LoadSeed(p) \/ Bootstrap(p) \/ (\E runs \in Inputs : Compile(p, runs))
             \/ CompileAfterFacts(p)
      PROVE  Harmless
  BY <1>3, <1>9 DEF LoadSeed, Bootstrap, Compile, CompileAfterFacts
<1>10. ASSUME NEW p \in Compilers, SeedLoaded(p) \/ InsertConflict(p) \/ Compiled(p) \/ Die(p)
       PROVE  Harmless
  BY <1>4, <1>10 DEF SeedLoaded, InsertConflict, Compiled, Die
<1> QED
  BY <1>1, <1>2, <1>5, <1>6, <1>7, <1>8, <1>9, <1>10, SupersedeRanks, DeactivateHasReason
  DEF MemNext, Work

-----------------------------------------------------------------------------
\* A process that does not move knows what it knew, unless somebody disturbs it.
LEMMA OthersKnow ==
  ASSUME NEW q \in Compilers, SweepKnows(q),
         pc'[q] = pc[q], gone'[q] = gone[q], pair'[q] = pair[q], read'[q] = read[q],
         alone'[q] => alone[q] /\ items' = items /\ active' = active
  PROVE  SweepKnows(q)'
BY DEF SweepKnows, At, Actives

\* Before its sweep a process has inactivated nothing.
LEMMA NotYetSweeping ==
  ASSUME NEW p \in Compilers, pc'[p] \in {"idle", "add", "insert"}, gone'[p] = {}
  PROVE  SweepKnows(p)'
BY DEF SweepKnows, Sweeping, Resolving, At

\* When no open pair is left in what was read, and everything was read, the claims
\* still active do not contradict each other.
LEMMA SweepDone ==
  ASSUME MemInv, NEW p \in Compilers, At(p, "sweep"), alone[p],
         ~ \E a, b \in read[p] : Open(p, a, b)
  PROVE  ~ \E x, y \in Actives : Contradicts(x, y)
<1> SUFFICES ASSUME NEW x \in Actives, NEW y \in Actives, Contradicts(x, y)
             PROVE  FALSE
  OBVIOUS
<1>1. /\ read[p] = items
      /\ \A z \in items : z.id \in gone[p] => z.id \notin active
  BY DEF MemInv, SweepKnows, Sweeping, At
<1>2. x \in items /\ y \in items /\ x.id \notin gone[p] /\ y.id \notin gone[p]
  BY <1>1 DEF Actives
<1>3. x \in Item /\ y \in Item
  BY <1>2 DEF MemInv, TypeInv, MemTypeOK
<1>4. x.id # y.id /\ Contradicts(y, x)
  BY ContradictsSymmetric
<1>5. RankedBefore(x, y) \/ RankedBefore(y, x)
  BY <1>3, <1>4, RankTotal
<1> QED
  BY <1>1, <1>2, <1>4, <1>5 DEF Open

\* The process that moves knows what it has to know, action by action.
LEMMA MoverKnows ==
  ASSUME MemInv, NEW p \in Compilers,
         \/ CheckItem(p) \/ InsertItem(p) \/ ReadItems(p) \/ Supersede(p) \/ Contradict(p)
         \/ Deactivate(p) \/ Reactivate(p) \/ ListActive(p) \/ WriteDocument(p)
  PROVE  SweepKnows(p)'
<1>1. /\ SweepKnows(p) /\ PairRanked
      /\ pc \in [Compilers -> Steps] /\ read \in [Compilers -> SUBSET items]
      /\ gone \in [Compilers -> SUBSET Stored] /\ alone \in [Compilers -> BOOLEAN]
      /\ pair \in [Compilers -> {<<>>} \cup (items \X items)]
  BY DEF MemInv, TypeInv, MemTypeOK
<1> USE DEF At, Goto
<1>2. CASE CheckItem(p) \/ InsertItem(p)
  <2>1. pc'[p] \in {"add", "insert"} /\ gone'[p] = {}
    BY <1>1, <1>2 DEF CheckItem, InsertItem, SweepKnows
  <2> QED
    BY <2>1, NotYetSweeping
<1>3. CASE ReadItems(p)
  <2>1. /\ pc'[p] = "sweep" /\ gone'[p] = {} /\ read'[p] = items /\ items' = items
    BY <1>1, <1>3 DEF ReadItems, SweepKnows, store
  <2> QED
    BY <2>1 DEF SweepKnows, Sweeping, Resolving
<1>4. CASE Supersede(p)
  <2>1. PICK a \in read[p], b \in read[p] :
          NextPair(p, a, b) /\ pair' = [pair EXCEPT ![p] = <<Winner(a, b), Loser(a, b)>>]
    BY <1>4 DEF Supersede
  <2>2. a.id \notin gone[p] /\ b.id \notin gone[p] /\ Winner(a, b) \in {a, b}
    BY <2>1 DEF NextPair, Open, Winner
  <2>3. pair'[p][1] = Winner(a, b)
    BY <1>1, <2>1
  <2>4. /\ pc[p] = "sweep" /\ pc'[p] = "contradict" /\ gone' = gone /\ read' = read
        /\ items' = items /\ active' = active /\ alone' = alone
    BY <1>1, <1>4 DEF Supersede
  <2> QED
    BY <1>1, <2>2, <2>3, <2>4 DEF SweepKnows, Sweeping, Resolving
<1>5. CASE Contradict(p)
  <2>1. /\ pc[p] = "contradict" /\ pc'[p] = "deactivate" /\ gone' = gone /\ read' = read
        /\ items' = items /\ active' = active /\ alone' = alone /\ pair' = pair
    BY <1>1, <1>5 DEF Contradict
  <2> QED
    BY <1>1, <2>1 DEF SweepKnows, Sweeping, Resolving
<1>6. CASE Deactivate(p)
  <2>1. /\ pc[p] = "deactivate" /\ pc'[p] = "reactivate" /\ read' = read /\ pair' = pair
        /\ gone'[p] = gone[p] \cup {pair[p][2].id}
        /\ items' = items /\ active' = active \ {pair[p][2].id}
        /\ alone'[p] => alone[p]
    BY <1>1, <1>6 DEF Deactivate, Disturb
  <2>2. pair[p][1].id # pair[p][2].id
    BY <1>1, <2>1, ContradictsSymmetric DEF PairRanked, Resolving
  <2> QED
    BY <1>1, <2>1, <2>2 DEF SweepKnows, Sweeping, Resolving
<1>7. CASE Reactivate(p)
  <2>1. /\ pc[p] = "reactivate" /\ pc'[p] = "sweep" /\ read' = read /\ gone' = gone
        /\ items' = items /\ active' = active \cup {pair[p][1].id}
        /\ alone'[p] => alone[p]
    BY <1>1, <1>7 DEF Reactivate, Disturb
  <2> QED
    BY <1>1, <2>1 DEF SweepKnows, Sweeping, Resolving
<1>8. CASE ListActive(p)
  <2>1. /\ pc'[p] = "write" /\ items' = items /\ active' = active /\ alone' = alone
        /\ gone' = gone /\ pair' = pair
    BY <1>1, <1>8 DEF ListActive, store
  <2>2. alone[p] => ~ \E x, y \in Actives : Contradicts(x, y)
    BY <1>8, SweepDone DEF ListActive
  <2> QED
    BY <2>1, <2>2 DEF SweepKnows, Sweeping, Resolving, Actives
<1>9. CASE WriteDocument(p)
  <2>1. /\ pc[p] = "write" /\ pc' = pc /\ items' = items /\ active' = active
        /\ gone' = gone /\ pair' = pair
        /\ alone'[p] => alone[p]
    BY <1>1, <1>9 DEF WriteDocument, Disturb
  <2> QED
    BY <1>1, <2>1 DEF SweepKnows, Sweeping, Resolving, Actives
<1> QED
  BY <1>2, <1>3, <1>4, <1>5, <1>6, <1>7, <1>8, <1>9

\* Every step leaves every process knowing what it has to know.
LEMMA SweepStep ==
  ASSUME MemInv, [MemNext]_memVars
  PROVE  \A q \in Compilers : SweepKnows(q)'
<1> SUFFICES ASSUME NEW q \in Compilers
             PROVE  SweepKnows(q)'
  OBVIOUS
<1> DEFINE Still(r) ==
      /\ pc'[r] = pc[r] /\ gone'[r] = gone[r] /\ pair'[r] = pair[r] /\ read'[r] = read[r]
      /\ alone'[r] => alone[r] /\ items' = items /\ active' = active
<1>0. /\ SweepKnows(q) /\ alone \in [Compilers -> BOOLEAN]
      /\ pc \in [Compilers -> Steps] /\ read \in [Compilers -> SUBSET items]
      /\ gone \in [Compilers -> SUBSET Stored]
      /\ pair \in [Compilers -> {<<>>} \cup (items \X items)]
  BY DEF MemInv, TypeInv, MemTypeOK
<1>1. Still(q) => SweepKnows(q)'
  BY <1>0, OthersKnow
<1>2. CASE Tick \/ Sync \/ UNCHANGED memVars
  <2>1. Still(q)
    BY <1>2 DEF Tick, Sync, memVars, store, local
  <2> QED
    BY <1>1, <2>1
<1>3. ASSUME NEW p \in Compilers, NEW what, NEW drafts, Start(p, what, drafts),
             pc[p] \in {"idle", "add"}
      PROVE  SweepKnows(q)'
  <2>1. CASE q = p
    <3>1. pc'[q] = "add" /\ gone'[q] = {}
      BY <1>0, <1>3, <2>1 DEF Start, Goto, SweepKnows
    <3> QED
      BY <3>1, NotYetSweeping
  <2>2. CASE q # p
    <3>1. Still(q)
      BY <1>0, <1>3, <2>2 DEF Start, Goto, store
    <3> QED
      BY <1>1, <3>1
  <2> QED
    BY <2>1, <2>2
<1>4. ASSUME NEW p \in Compilers, Leave(p), UNCHANGED <<world, store, alone>>
      PROVE  SweepKnows(q)'
  <2>1. CASE q = p
    <3>1. pc'[q] = "idle" /\ gone'[q] = {}
      BY <1>0, <1>4, <2>1 DEF Leave
    <3> QED
      BY <3>1, NotYetSweeping
  <2>2. CASE q # p
    <3>1. Still(q)
      BY <1>0, <1>4, <2>2 DEF Leave, store
    <3> QED
      BY <1>1, <3>1
  <2> QED
    BY <2>1, <2>2
<1>5. ASSUME NEW p \in Compilers,
             \/ CheckItem(p) \/ InsertItem(p) \/ ReadItems(p) \/ Supersede(p) \/ Contradict(p)
             \/ Deactivate(p) \/ Reactivate(p) \/ ListActive(p) \/ WriteDocument(p)
      PROVE  SweepKnows(q)'
  <2>1. CASE q = p
    BY <1>5, <2>1, MoverKnows
  <2>2. CASE q # p
    <3>1. pc'[q] = pc[q] /\ gone'[q] = gone[q] /\ pair'[q] = pair[q] /\ read'[q] = read[q]
      BY <1>0, <1>5, <2>2
      DEF CheckItem, InsertItem, ReadItems, Supersede, Contradict, Deactivate, Reactivate,
          ListActive, WriteDocument, Goto
    <3>2. CASE InsertItem(p) \/ Deactivate(p) \/ Reactivate(p) \/ WriteDocument(p)
      <4>1. ~ alone'[q]
        BY <2>2, <3>2 DEF InsertItem, Deactivate, Reactivate, WriteDocument, Disturb
      <4> QED
        BY <1>1, <3>1, <4>1
    <3>3. CASE ReadItems(p)
      <4>1. alone'[q] = alone[q] /\ items' = items /\ active' = active
        BY <1>0, <2>2, <3>3, Zenon DEF ReadItems, store
      <4> QED
        BY <1>1, <3>1, <4>1
    <3>4. CASE CheckItem(p) \/ Supersede(p) \/ Contradict(p) \/ ListActive(p)
      <4>1. alone' = alone /\ items' = items /\ active' = active
        BY <3>4 DEF CheckItem, Supersede, Contradict, ListActive, store
      <4> QED
        BY <1>1, <3>1, <4>1
    <3> QED
      BY <1>5, <3>2, <3>3, <3>4
  <2> QED
    BY <2>1, <2>2
<1> HIDE DEF Still
<1>6. ASSUME NEW p \in Compilers,
             LoadSeed(p) \/ Bootstrap(p) \/ (\E runs \in Inputs : Compile(p, runs))
             \/ CompileAfterFacts(p)
      PROVE  SweepKnows(q)'
  BY <1>3, <1>6 DEF LoadSeed, Bootstrap, Compile, CompileAfterFacts, At
<1>7. ASSUME NEW p \in Compilers, SeedLoaded(p) \/ InsertConflict(p) \/ Compiled(p) \/ Die(p)
      PROVE  SweepKnows(q)'
  BY <1>4, <1>7 DEF SeedLoaded, InsertConflict, Compiled, Die
<1> QED
  BY <1>2, <1>5, <1>6, <1>7 DEF MemNext, Work

-----------------------------------------------------------------------------
\* The invariant holds in every reachable state.
LEMMA MemInvHolds ==
  MemSpec => []MemInv
<1>1. MemInit => MemInv
  <2> SUFFICES ASSUME MemInit
               PROVE  MemInv
    OBVIOUS
  <2>1. /\ items = {} /\ pc \in [Compilers -> {"idle"}]
        /\ \A p \in Compilers : gone[p] = {}
    BY DEF MemInit
  <2>2. PairRanked
    BY <2>1 DEF PairRanked, Resolving
  <2>3. LosersAreBeaten
    BY <2>1 DEF LosersAreBeaten
  <2>4. \A p \in Compilers : SweepKnows(p)
    BY <2>1 DEF SweepKnows, Sweeping, Resolving, At
  <2> QED
    BY <2>2, <2>3, <2>4, InitTyped DEF MemInv
<1>2. MemInv /\ [MemNext]_memVars => MemInv'
  BY TypeStep, ReasonStep, SweepStep DEF MemInv
<1> QED
  BY <1>1, <1>2, PTL DEF MemSpec

\* Every reachable state is well typed and no two items have one id.
THEOREM MemTypeCorrect == MemSpec => []MemTypeOK
<1>1. MemInv => MemTypeOK
  BY DEF MemInv, TypeInv
<1> QED
  BY <1>1, MemInvHolds, PTL

\* Whatever processes compile at once with old rows, and wherever they die, no claim is
\* inactive without a stronger one that contradicts it and says so.
THEOREM LosersAlwaysBeaten == MemSpec => []LosersAreBeaten
<1>1. MemInv => LosersAreBeaten
  BY DEF MemInv
<1> QED
  BY <1>1, MemInvHolds, PTL

\* An undisturbed sweep leaves no two active claims that contradict each other.
THEOREM SweepAlwaysTakesSides == MemSpec => []SweepTakesSides
<1>1. MemInv => SweepTakesSides
  BY DEF MemInv, SweepKnows, SweepTakesSides
<1> QED
  BY <1>1, MemInvHolds, PTL

\* No step of any process takes back an item, its confidence or an edge.
THEOREM BeliefsAlwaysKept == MemSpec => BeliefsAreKept
<1>1. [MemNext]_memVars => [items \subseteq items' /\ edges \subseteq edges']_memVars
  <2> SUFFICES ASSUME MemNext
               PROVE  items \subseteq items' /\ edges \subseteq edges'
    OBVIOUS
  <2>1. ASSUME NEW p \in Compilers, InsertItem(p) \/ Supersede(p) \/ Contradict(p)
        PROVE  items \subseteq items' /\ edges \subseteq edges'
    BY <2>1 DEF InsertItem, Supersede, Contradict
  <2>2. ASSUME NEW p \in Compilers, Work(p), ~ InsertItem(p), ~ Supersede(p), ~ Contradict(p)
        PROVE  items' = items /\ edges' = edges
    BY <2>2 DEF Work, CompileAfterFacts, SeedLoaded, CheckItem, InsertConflict, ReadItems,
       Deactivate, Reactivate, ListActive, WriteDocument, Compiled, Start, store
  <2>3. ASSUME NEW p \in Compilers,
               LoadSeed(p) \/ Bootstrap(p) \/ (\E runs \in Inputs : Compile(p, runs)) \/ Die(p)
        PROVE  items' = items /\ edges' = edges
    BY <2>3 DEF LoadSeed, Bootstrap, Compile, Die, Start, store
  <2>4. Tick \/ Sync => items' = items /\ edges' = edges
    BY DEF Tick, Sync, store
  <2> QED
    BY <2>1, <2>2, <2>3, <2>4 DEF MemNext
<1> QED
  BY <1>1, PTL DEF MemSpec, BeliefsAreKept

-----------------------------------------------------------------------------
\* The rank as a strict total order, and why no document goes stale.

\* No claim of its group beats the item.
Top(m) == ~ \E y \in items : SameGroup(y, m) /\ Beats(y, m)

\* Every claim has such a one in its group.
TopInv == \A x \in items : \E m \in items : SameGroup(m, x) /\ Top(m)

\* An item is only ever shown in the document of its subject.
Filed == \A path \in Paths : \A x \in docs[path] : PathOf(x) = path

\* What an undisturbed writer has done: the documents it is through with show what is
\* active.
WriterKnows(p) ==
  At(p, "write") /\ alone[p] =>
    /\ read[p] = Actives
    /\ unwritten[p] \subseteq {PathOf(x) : x \in Actives}
    /\ \A path \in Paths \ unwritten[p] :
         (\E x \in Actives : PathOf(x) = path) =>
            docs[path] = {x \in Actives : PathOf(x) = path}

KbInv ==
  /\ TopInv
  /\ Filed
  /\ \A p \in Compilers : WriterKnows(p)

\* Beating is a strict order.
LEMMA BeatsOrder ==
  ASSUME NEW x \in Item, NEW y \in Item, NEW z \in Item
  PROVE  /\ ~ Beats(x, x)
         /\ Beats(x, y) /\ Beats(y, z) => Beats(x, z)
<1>1. /\ x.conf \in Int /\ y.conf \in Int /\ z.conf \in Int
      /\ x.created \in Nat /\ y.created \in Nat /\ z.created \in Nat
      /\ x.acl \in Acls /\ y.acl \in Acls /\ z.acl \in Acls
      /\ x.id \in Ids /\ y.id \in Ids /\ z.id \in Ids
  BY DEF Item
<1>2. IdRank[x.id] \in Nat /\ IdRank[y.id] \in Nat /\ IdRank[z.id] \in Nat
  BY <1>1, IdRankAssumption
<1>3. AclPriority[x.acl] \in Nat /\ AclPriority[y.acl] \in Nat /\ AclPriority[z.acl] \in Nat
  BY <1>1 DEF Acls, AclPriority
<1> QED
  BY <1>1, <1>2, <1>3 DEF Beats, RankedBefore, KeyAtLeast

\* The best claim of a group is active: nothing can have switched it off.
LEMMA TopIsActive ==
  ASSUME LosersAreBeaten, NEW m \in items, Top(m)
  PROVE  m.id \in active
BY DEF LosersAreBeaten, Top, Contradicts

\* Items of one group share a document.
LEMMA GroupsShareDocuments ==
  ASSUME NEW x, NEW y, SameGroup(x, y)
  PROVE  PathOf(x) = PathOf(y)
BY DEF SameGroup, PathOf

\* An item more leaves every group with a best claim: the old one, or the new item if it
\* beats that.
LEMMA TopKept ==
  ASSUME TypeInv, TopInv, NEW x \in Item, items' = items \cup {x}
  PROVE  TopInv'
<1> SUFFICES ASSUME NEW z \in items'
             PROVE  \E m \in items' : SameGroup(m, z) /\ Top(m)'
  BY DEF TopInv
<1>0. items' \subseteq Item
  BY DEF TypeInv, MemTypeOK
<1> USE DEF SameGroup
<1>1. ASSUME NEW m \in items, Top(m), ~ (SameGroup(x, m) /\ Beats(x, m))
      PROVE  Top(m)'
  BY <1>1 DEF Top
<1>2. ASSUME NEW m \in items, Top(m), SameGroup(x, m), Beats(x, m)
      PROVE  Top(x)'
  <2> SUFFICES ASSUME NEW y \in items', SameGroup(y, x), Beats(y, x)
               PROVE  FALSE
    BY DEF Top
  <2>1. x \in Item /\ y \in Item /\ m \in Item
    BY <1>0
  <2>2. y # x
    BY <2>1, BeatsOrder
  <2>3. Beats(y, m)
    BY <1>2, <2>1, BeatsOrder
  <2> QED
    BY <1>2, <2>2, <2>3 DEF Top
<1>3. ASSUME \A y \in items : ~ SameGroup(y, x)
      PROVE  Top(x)'
  BY <1>0, <1>3, BeatsOrder DEF Top
<1>4. CASE \E y \in items : SameGroup(y, z)
  <2>1. PICK y \in items : SameGroup(y, z)
    BY <1>4
  <2>2. PICK m \in items : SameGroup(m, y) /\ Top(m)
    BY DEF TopInv
  <2>3. SameGroup(m, z)
    BY <2>1, <2>2
  <2>4. SameGroup(x, m) => SameGroup(x, z)
    BY <2>3
  <2> QED
    BY <1>1, <1>2, <2>2, <2>3, <2>4
<1>5. CASE \A y \in items : ~ SameGroup(y, z)
  <2>1. z = x
    BY <1>5
  <2> QED
    BY <1>3, <1>5, <2>1
<1> QED
  BY <1>4, <1>5

\* An undisturbed writer stays informed while it stands still.
LEMMA OthersWrite ==
  ASSUME NEW q \in Compilers, WriterKnows(q),
         pc'[q] = pc[q], read'[q] = read[q], unwritten'[q] = unwritten[q],
         alone'[q] => alone[q] /\ items' = items /\ active' = active /\ docs' = docs
  PROVE  WriterKnows(q)'
BY DEF WriterKnows, At, Actives

\* A writer lists what is active, and with every document it writes it is informed
\* about one more.
LEMMA MoverWrites ==
  ASSUME TypeInv, NEW p \in Compilers, WriterKnows(p), ListActive(p) \/ WriteDocument(p)
  PROVE  WriterKnows(p)'
<1>0. /\ unwritten \in [Compilers -> SUBSET Paths] /\ docs \in [Paths -> SUBSET items]
      /\ read \in [Compilers -> SUBSET items] /\ items \subseteq Item
      /\ pc \in [Compilers -> Steps] /\ alone \in [Compilers -> BOOLEAN]
  BY DEF TypeInv, MemTypeOK
<1>1. CASE ListActive(p)
  <2>1. /\ read'[p] = Actives /\ unwritten'[p] = {PathOf(x) : x \in Actives}
        /\ items' = items /\ active' = active
    BY <1>0, <1>1 DEF ListActive, store
  <2>2. Actives' = Actives
    BY <2>1 DEF Actives
  <2> QED
    BY <2>1, <2>2 DEF WriterKnows
<1>2. CASE WriteDocument(p)
  <2>1. PICK path \in unwritten[p] :
          /\ docs' = [docs EXCEPT ![path] = {x \in read[p] : PathOf(x) = path}]
          /\ unwritten' = [unwritten EXCEPT ![p] = @ \ {path}]
    BY <1>2 DEF WriteDocument
  <2>2. /\ pc[p] = "write" /\ pc' = pc /\ read' = read /\ Actives' = Actives
        /\ alone'[p] => alone[p]
    BY <1>2 DEF WriteDocument, Disturb, At, Actives
  <2>3. unwritten'[p] = unwritten[p] \ {path}
    BY <1>0, <2>1
  <2>4. docs'[path] = {x \in read[p] : PathOf(x) = path}
    BY <1>0, <2>1
  <2>5. \A other \in Paths : other # path => docs'[other] = docs[other]
    BY <1>0, <2>1
  <2> QED
    BY <2>2, <2>3, <2>4, <2>5 DEF WriterKnows, At
<1> QED
  BY <1>1, <1>2

\* Every step leaves every writer informed.
LEMMA WriterStep ==
  ASSUME TypeInv, \A p \in Compilers : WriterKnows(p), [MemNext]_memVars
  PROVE  \A q \in Compilers : WriterKnows(q)'
<1> SUFFICES ASSUME NEW q \in Compilers
             PROVE  WriterKnows(q)'
  OBVIOUS
<1> DEFINE Still(r) ==
      /\ pc'[r] = pc[r] /\ read'[r] = read[r] /\ unwritten'[r] = unwritten[r]
      /\ alone'[r] => alone[r] /\ items' = items /\ active' = active /\ docs' = docs
<1>0. /\ WriterKnows(q) /\ alone \in [Compilers -> BOOLEAN]
      /\ pc \in [Compilers -> Steps] /\ read \in [Compilers -> SUBSET items]
      /\ unwritten \in [Compilers -> SUBSET Paths]
  BY DEF TypeInv, MemTypeOK
<1>1. Still(q) => WriterKnows(q)'
  BY <1>0, OthersWrite
<1>2. pc'[q] # "write" => WriterKnows(q)'
  BY DEF WriterKnows, At
<1>3. CASE Tick \/ Sync \/ UNCHANGED memVars
  <2>1. Still(q)
    BY <1>3 DEF Tick, Sync, memVars, store, local
  <2> QED
    BY <1>1, <2>1
<1>4. ASSUME NEW p \in Compilers, NEW what, NEW drafts, Start(p, what, drafts)
      PROVE  WriterKnows(q)'
  <2>1. q = p => pc'[q] = "add"
    BY <1>0, <1>4 DEF Start, Goto
  <2>2. q # p => Still(q)
    BY <1>0, <1>4 DEF Start, Goto, store
  <2> QED
    BY <1>1, <1>2, <2>1, <2>2
<1>5. ASSUME NEW p \in Compilers, Leave(p), UNCHANGED <<world, store, alone>>
      PROVE  WriterKnows(q)'
  <2>1. q = p => pc'[q] = "idle"
    BY <1>0, <1>5 DEF Leave
  <2>2. q # p => Still(q)
    BY <1>0, <1>5 DEF Leave, store
  <2> QED
    BY <1>1, <1>2, <2>1, <2>2
<1>6. ASSUME NEW p \in Compilers,
             \/ CheckItem(p) \/ InsertItem(p) \/ ReadItems(p) \/ Supersede(p) \/ Contradict(p)
             \/ Deactivate(p) \/ Reactivate(p) \/ ListActive(p) \/ WriteDocument(p)
      PROVE  WriterKnows(q)'
  <2>1. CASE q = p
    <3>1. CASE ListActive(p) \/ WriteDocument(p)
      BY <2>1, <3>1, <1>0, MoverWrites
    <3>2. CASE ~ (ListActive(p) \/ WriteDocument(p))
      <4>1. pc'[q] # "write"
        BY <1>0, <1>6, <2>1, <3>2
        DEF CheckItem, InsertItem, ReadItems, Supersede, Contradict, Deactivate, Reactivate,
            Goto, At
      <4> QED
        BY <1>2, <4>1
    <3> QED
      BY <3>1, <3>2
  <2>2. CASE q # p
    <3>1. pc'[q] = pc[q] /\ read'[q] = read[q] /\ unwritten'[q] = unwritten[q]
      BY <1>0, <1>6, <2>2
      DEF CheckItem, InsertItem, ReadItems, Supersede, Contradict, Deactivate, Reactivate,
          ListActive, WriteDocument, Goto
    <3>2. CASE InsertItem(p) \/ Deactivate(p) \/ Reactivate(p) \/ WriteDocument(p)
      <4>1. ~ alone'[q]
        BY <2>2, <3>2 DEF InsertItem, Deactivate, Reactivate, WriteDocument, Disturb
      <4> QED
        BY <1>1, <3>1, <4>1
    <3>3. CASE ReadItems(p)
      <4>1. alone'[q] = alone[q] /\ items' = items /\ active' = active /\ docs' = docs
        BY <1>0, <2>2, <3>3, Zenon DEF ReadItems, store
      <4> QED
        BY <1>1, <3>1, <4>1
    <3>4. CASE CheckItem(p) \/ Supersede(p) \/ Contradict(p) \/ ListActive(p)
      <4>1. alone' = alone /\ items' = items /\ active' = active /\ docs' = docs
        BY <3>4 DEF CheckItem, Supersede, Contradict, ListActive, store
      <4> QED
        BY <1>1, <3>1, <4>1
    <3> QED
      BY <1>6, <3>2, <3>3, <3>4
  <2> QED
    BY <2>1, <2>2
<1> HIDE DEF Still
<1>7. ASSUME NEW p \in Compilers,
             LoadSeed(p) \/ Bootstrap(p) \/ (\E runs \in Inputs : Compile(p, runs))
             \/ CompileAfterFacts(p)
      PROVE  WriterKnows(q)'
  BY <1>4, <1>7 DEF LoadSeed, Bootstrap, Compile, CompileAfterFacts
<1>8. ASSUME NEW p \in Compilers, SeedLoaded(p) \/ InsertConflict(p) \/ Compiled(p) \/ Die(p)
      PROVE  WriterKnows(q)'
  BY <1>5, <1>8 DEF SeedLoaded, InsertConflict, Compiled, Die
<1> QED
  BY <1>3, <1>6, <1>7, <1>8 DEF MemNext, Work

\* Only an INSERT changes the items and only a writer changes the documents.
LEMMA FilingStep ==
  ASSUME TypeInv, TopInv, Filed, [MemNext]_memVars
  PROVE  TopInv' /\ Filed'
<1>1. ASSUME items' = items PROVE TopInv'
  BY <1>1 DEF TopInv, Top
<1>2. ASSUME docs' = docs PROVE Filed'
  BY <1>2 DEF Filed
<1>3. ASSUME NEW p \in Compilers, InsertItem(p) PROVE TopInv' /\ Filed'
  <2>1. Head(todo[p]) \in Item /\ items' = items \cup {Head(todo[p])} /\ docs' = docs
    BY <1>3 DEF InsertItem, TypeInv, Ready
  <2> QED
    BY <1>2, <2>1, TopKept
<1>4. ASSUME NEW p \in Compilers, WriteDocument(p) PROVE TopInv' /\ Filed'
  <2>1. PICK path \in unwritten[p] :
          docs' = [docs EXCEPT ![path] = {x \in read[p] : PathOf(x) = path}]
    BY <1>4 DEF WriteDocument
  <2>2. docs \in [Paths -> SUBSET items] /\ path \in Paths
    BY DEF TypeInv, MemTypeOK
  <2>3. Filed'
    BY <2>1, <2>2 DEF Filed
  <2> QED
    BY <1>1, <1>4, <2>3 DEF WriteDocument
<1>5. ASSUME NEW p \in Compilers,
             LoadSeed(p) \/ Bootstrap(p) \/ (\E runs \in Inputs : Compile(p, runs)) \/ Die(p)
      PROVE  items' = items /\ docs' = docs
  BY <1>5 DEF LoadSeed, Bootstrap, Compile, Die, Start, store
<1>6. ASSUME NEW p \in Compilers, Work(p), ~ InsertItem(p), ~ WriteDocument(p)
      PROVE  items' = items /\ docs' = docs
  BY <1>6 DEF Work, CompileAfterFacts, SeedLoaded, CheckItem, InsertConflict, ReadItems,
     Supersede, Contradict, Deactivate, Reactivate, ListActive, Compiled, Start, store
<1>7. Tick \/ Sync \/ UNCHANGED memVars => items' = items /\ docs' = docs
  BY DEF Tick, Sync, memVars, store
<1> QED
  BY <1>1, <1>2, <1>3, <1>4, <1>5, <1>6, <1>7 DEF MemNext

\* When an undisturbed writer is through, the documents are the view of what is active:
\* one it did not write has no active item, so no item at all, for among the items of a
\* subject the best one is active.
LEMMA ViewShown ==
  ASSUME MemInv, KbInv
  PROVE  KbShowsView
<1> SUFFICES ASSUME NEW p \in Compilers, At(p, "write"), alone[p], unwritten[p] = {},
                    NEW path \in Paths
             PROVE  docs[path] = {x \in Actives : PathOf(x) = path}
  BY DEF KbShowsView
<1>1. CASE \E x \in Actives : PathOf(x) = path
  BY <1>1 DEF KbInv, WriterKnows
<1>2. CASE ~ \E x \in Actives : PathOf(x) = path
  <2> SUFFICES ASSUME NEW x \in docs[path]
               PROVE  FALSE
    BY <1>2
  <2>1. x \in items /\ PathOf(x) = path
    BY DEF MemInv, TypeInv, MemTypeOK, KbInv, Filed
  <2>2. PICK m \in items : SameGroup(m, x) /\ Top(m)
    BY <2>1 DEF KbInv, TopInv
  <2>3. m \in Actives
    BY <2>2, TopIsActive DEF MemInv, Actives
  <2>4. PathOf(m) = path
    BY <2>1, <2>2, GroupsShareDocuments
  <2> QED
    BY <1>2, <2>3, <2>4
<1> QED
  BY <1>1, <1>2

\* A compile that nobody disturbed leaves in every document exactly the active items, in
\* those it did not write too.
THEOREM KbAlwaysShowsView == MemSpec => []KbShowsView
<1>1. MemInit => KbInv
  <2> SUFFICES ASSUME MemInit
               PROVE  KbInv
    OBVIOUS
  <2>1. items = {} /\ docs = [path \in Paths |-> {}] /\ \A p \in Compilers : ~ At(p, "write")
    BY DEF MemInit, At
  <2> QED
    BY <2>1 DEF KbInv, TopInv, Filed, WriterKnows
<1>2. MemInv /\ KbInv /\ [MemNext]_memVars => KbInv'
  BY WriterStep, FilingStep DEF KbInv, MemInv
<1>3. MemInv /\ KbInv => KbShowsView
  BY ViewShown
<1> QED
  BY <1>1, <1>2, <1>3, MemInvHolds, PTL DEF MemSpec

=============================================================================

----------------------------- MODULE TreeProofs -----------------------------
(***************************************************************************)
(* The process tree, for every number of blocks: its pointers are doubly   *)
(* linked children lists, its parents agree with them, and insertChild,    *)
(* removeChild and outChild do to the lists what ChildLists promises.  All *)
(* of this lasts until outChild is asked for a process with a younger      *)
(* sibling (severed), and exactly until then: SeveringBreaks proves that   *)
(* such a call in a tree that is whole never leaves it whole.              *)
(*                                                                         *)
(* The inductive invariant is that some children lists fit the pointers of *)
(* a tree that is not severed.  It says more than ParentsAgree and         *)
(* SiblingsReadBothWays together: the pointers of a closed ring of         *)
(* siblings, or of a list that no p_child leads to, read the same both     *)
(* ways too.                                                               *)
(***************************************************************************)
EXTENDS ProcTree, LinkProofs

TreeIsLists == ~severed => \E kids : Family(tree, kids)

(* What has been severed stays so.                                         *)
LEMMA SeveredStays == [Next]_vars /\ ~severed' => ~severed
BY DEF Next, Insert, RemoveOldest, Out, vars

(* What each call does to the children lists.                              *)
InsertLists(kids, q, p) == [kids EXCEPT ![q] = Append(@, p)]
RemoveLists(kids, q) == IF kids[q] = <<>> THEN kids ELSE [kids EXCEPT ![q] = Tail(@)]
OutLists(kids, p) == [q \in Pcb |-> RemoveFirst(kids[q], p)]

LEMMA InsertDoes ==
  ASSUME NEW kids, Family(tree, kids), NEW q \in Pcb, NEW p \in Pcb, Insert(q, p)
  PROVE  /\ Family(tree', InsertLists(kids, q, p))
         /\ \A r \in Pcb : ~Contains(kids[r], p)
         /\ kids[p] = <<>>
<1>1. tree.prnt[p] = NULL /\ tree.child[p] = NULL
  BY DEF Insert, Detached, emptyChild
<1>2. tree' = insertChild(tree, q, p)
  BY <1>1, AllocChangesNothing DEF Insert
<1>3. Family(tree', InsertLists(kids, q, p))
  BY <1>1, <1>2, FamilyInsert DEF InsertLists
<1>4. \A r \in Pcb : ~Contains(kids[r], p)
  BY <1>1, NullAssumption DEF Family
<1>5. kids[p] = <<>>
  BY <1>1, FamilyFacts
<1> QED  BY <1>3, <1>4, <1>5

LEMMA RemoveDoes ==
  ASSUME NEW kids, Family(tree, kids), NEW q \in Pcb, RemoveOldest(q)
  PROVE  /\ Family(tree', RemoveLists(kids, q))
         /\ tree.child[q] = IF kids[q] = <<>> THEN NULL ELSE Head(kids[q])
<1>1. /\ tree.child[q] = IF kids[q] = <<>> THEN NULL ELSE Head(kids[q])
      /\ tree.child[q] = NULL <=> kids[q] = <<>>
  BY FamilyFacts
<1>2. CASE kids[q] = <<>>
  BY <1>1, <1>2 DEF RemoveOldest, emptyChild, RemoveLists
<1>3. CASE kids[q] # <<>>
  <2>1. tree' = removeChild(tree, q)
    BY <1>1, <1>3 DEF RemoveOldest, emptyChild
  <2>2. Family(removeChild(tree, q), [kids EXCEPT ![q] = Tail(@)])
    BY <1>3, FamilyRemove
  <2> QED  BY <1>1, <1>3, <2>1, <2>2 DEF RemoveLists
<1> QED  BY <1>2, <1>3

LEMMA OutDoes ==
  ASSUME NEW kids, Family(tree, kids), NEW p \in Pcb, Out(p), ~severed'
  PROVE  /\ Family(tree', OutLists(kids, p))
         /\ Detached(p) <=> ~\E q \in Pcb : Contains(kids[q], p)
<1>1. kids \in [Pcb -> Seq(Pcb)] /\ \A q \in Pcb : Contains(kids[q], p) <=> tree.prnt[p] = q
  BY DEF Family
<1>2. tree.nsib[p] = NULL
  BY DEF Out
<1>3. \A q \in Pcb : tree.prnt[p] # q => RemoveFirst(kids[q], p) = kids[q]
  BY <1>1, RemoveFirstFacts
<1>4. CASE Detached(p)
  <2>1. \A q \in Pcb : ~Contains(kids[q], p)
    BY <1>1, <1>4, NullAssumption DEF Detached
  <2>2. tree' = tree
    BY <1>4, FamilyOutside DEF Detached, Out
  <2>3. OutLists(kids, p) = kids
    <3>1. \A q \in Pcb : RemoveFirst(kids[q], p) = kids[q]
      BY <1>1, <1>3, <2>1
    <3>2. kids = [q \in Pcb |-> kids[q]]
      BY <1>1
    <3> QED  BY <3>1, <3>2 DEF OutLists
  <2> QED  BY <1>4, <2>1, <2>2, <2>3
<1>5. CASE ~Detached(p)
  <2> DEFINE r == tree.prnt[p]
  <2>1. r # NULL
    BY <1>5 DEF Detached
  <2>2. r \in Pcb /\ Contains(kids[r], p) /\ Family(tree', [kids EXCEPT ![r] = RemoveFirst(@, p)])
    BY <1>2, <2>1, FamilyYoungest DEF Out
  <2>3. \A q \in Pcb \ {r} : RemoveFirst(kids[q], p) = kids[q]
    BY <1>3
  <2> HIDE DEF r
  <2>4. OutLists(kids, p) = [kids EXCEPT ![r] = RemoveFirst(@, p)]
    BY <1>1, <2>2, <2>3 DEF OutLists
  <2> QED  BY <1>5, <2>2, <2>4
<1> QED  BY <1>4, <1>5

(* outChild of a process with a younger sibling leaves the two ends of a   *)
(* parent link or of a sibling link in disagreement.                       *)
LEMMA OutDamages ==
  ASSUME NEW t, NEW kids, Family(t, kids), NEW p \in Pcb, t.nsib[p] \in Pcb
  PROVE  LET u == outChild(t, p)
         IN  \/ ~\A x, y \in Pcb : x \in Reachable(u.nsib, u.child[y]) <=> u.prnt[x] = y
             \/ ~\A x, y \in Pcb : u.nsib[x] = y <=> u.psib[y] = x
<1> DEFINE u == outChild(t, p)
           a == t.nsib[p]
           b == t.psib[p]
           q == t.prnt[p]
<1>1. /\ t \in Trees /\ t.nsib \in [Pcb -> PcbOrNull] /\ t.psib \in [Pcb -> PcbOrNull]
      /\ t.prnt \in [Pcb -> PcbOrNull] /\ t.child \in [Pcb -> PcbOrNull]
  BY DEF Family, Trees
<1>2. /\ a \in Pcb /\ a # p /\ q \in Pcb /\ t.prnt[a] = q
      /\ b = NULL <=> t.child[q] = p
  BY FamilySiblings
<1>3. b # NULL => b \in Pcb /\ b # p
  <2>1. b # NULL => b \in Pcb /\ t.nsib[b] = p
    BY <1>1, FamilyReads DEF PcbOrNull
  <2> QED  BY <2>1, FamilySiblings
<1>4. CASE t.child[q] = p
  <2> DEFINE w == [t EXCEPT !.child[q] = b]
  <2>1. u = unlinkChild(w, p)
    BY <1>2, <1>4, NullAssumption DEF outChild
  <2>2. w.prnt = t.prnt /\ w.child = [t.child EXCEPT ![q] = NULL]
    BY <1>1, <1>2, <1>4 DEF Trees
  <2> HIDE DEF w, u
  <2>3. u.prnt = [t.prnt EXCEPT ![p] = NULL] /\ u.child = [t.child EXCEPT ![q] = NULL]
    BY <2>1, <2>2 DEF unlinkChild
  <2> HIDE DEF a, q
  <2>4. u.prnt[a] = q /\ u.child[q] = NULL
    BY <1>1, <1>2, <2>3
  <2>5. NULL \notin DOMAIN u.nsib
    <3>1. DOMAIN u.nsib = DOMAIN w.nsib /\ w.nsib = t.nsib
      BY <2>1, <1>1 DEF unlinkChild, w, Trees
    <3> QED  BY <1>1, <3>1, NullAssumption
  <2>6. a \notin Reachable(u.nsib, NULL)
    <3> DEFINE f == u.nsib
               S == {}
    <3>1. S \in SUBSET DOMAIN f /\ \A y \in S : f[y] \in DOMAIN f => f[y] \in S
      OBVIOUS
    <3>2. a \notin S
      OBVIOUS
    <3> HIDE DEF f, S
    <3>3. NULL \notin DOMAIN f
      BY <2>5 DEF f
    <3>4. a \notin Reachable(f, NULL)
      BY <3>1, <3>2, <3>3 DEF Reachable
    <3> QED  BY <3>4 DEF f
  <2> QED  BY <1>2, <2>4, <2>6 DEF u
<1>5. CASE t.child[q] # p
  <2>1. u = unlinkChild(t, p)
    BY <1>2, <1>5, NullAssumption DEF outChild
  <2> HIDE DEF u
  <2>2. /\ u.nsib = [t.nsib EXCEPT ![b] = a, ![p] = NULL]
        /\ u.psib = [t.psib EXCEPT ![p] = NULL, ![a] = NULL]
    <3>1. b # NULL /\ a # NULL
      BY <1>2, <1>5, NullAssumption
    <3> QED  BY <2>1, <3>1 DEF unlinkChild
  <2> HIDE DEF a, b
  <2>3. u.nsib[b] = a /\ u.psib[a] = NULL /\ b \in Pcb
    BY <1>1, <1>2, <1>3, <1>5, <2>2
  <2> QED  BY <1>2, <2>3, NullAssumption DEF u
<1> QED  BY <1>4, <1>5

LEMMA TreeInit == Init => Family(tree, [q \in Pcb |-> <<>>])
BY FamilyStart DEF Init

LEMMA TreeStep == TreeIsLists /\ [Next]_vars => TreeIsLists'
<1> SUFFICES ASSUME TreeIsLists, [Next]_vars, ~severed' PROVE \E kids : Family(tree', kids)
  BY DEF TreeIsLists
<1>1. PICK kids : Family(tree, kids)
  BY SeveredStays DEF TreeIsLists
<1>2. ASSUME NEW q \in Pcb, RemoveOldest(q) PROVE \E k : Family(tree', k)
  BY <1>1, <1>2, RemoveDoes
<1>3. ASSUME NEW q \in Pcb, Out(q) PROVE \E k : Family(tree', k)
  BY <1>1, <1>3, OutDoes
<1>4. ASSUME NEW q \in Pcb, NEW p \in Pcb, Insert(q, p) PROVE \E k : Family(tree', k)
  BY <1>1, <1>4, InsertDoes
<1>5. CASE UNCHANGED vars
  BY <1>1, <1>5 DEF vars
<1> QED  BY <1>2, <1>3, <1>4, <1>5 DEF Next

LEMMA TreeInductive == Spec => []TreeIsLists
<1>1. Init => TreeIsLists
  BY TreeInit DEF TreeIsLists
<1> QED  BY <1>1, TreeStep, PTL DEF Spec

----------------------------------------------------------------------------
(* The theorems                                                            *)

(* p_prnt of a process is the one process among whose children a walk from *)
(* p_child meets it, until outChild takes a process with a younger         *)
(* sibling.                                                                *)
THEOREM ParentsCorrect == Spec => []ParentsAgree
<1>1. TreeIsLists => ParentsAgree
  BY FamilyReads DEF TreeIsLists, ParentsAgree, Agree, ChildrenOf
<1> QED  BY <1>1, TreeInductive, PTL

(* Every sibling list reads the same in both directions, until outChild    *)
(* takes a process with a younger sibling.                                 *)
THEOREM SiblingsCorrect == Spec => []SiblingsReadBothWays
<1>1. TreeIsLists => SiblingsReadBothWays
  BY FamilyReads DEF TreeIsLists, SiblingsReadBothWays, BothWays
<1> QED  BY <1>1, TreeInductive, PTL

(* The call that ends the two above always does damage: outChild of a      *)
(* process with a younger sibling a, in a tree that is whole, leaves a     *)
(* with a parent that no longer finds it (pcb.c:219, of a first child) or  *)
(* without its p_prev_sib (pcb.c:245, of any other).  The guard ~severed   *)
(* of the theorems above leaves out no call that keeps the tree.           *)
THEOREM SeveringBreaks == Spec => [][~severed /\ severed' => ~(Agree' /\ BothWays')]_vars
<1>1. ASSUME TreeIsLists, ~severed, severed', Next
      PROVE  ~(Agree' /\ BothWays')
  <2>1. PICK kids : Family(tree, kids)
    BY <1>1 DEF TreeIsLists
  <2>2. PICK p \in Pcb : Out(p) /\ tree.nsib[p] # NULL
    BY <1>1 DEF Next, Insert, RemoveOldest, Out
  <2>3. tree' = outChild(tree, p) /\ tree.nsib[p] \in Pcb
    BY <2>1, <2>2 DEF Family, Trees, PcbOrNull, Out
  <2> QED  BY <2>1, <2>3, OutDamages DEF Agree, BothWays, ChildrenOf
<1>2. ASSUME TreeIsLists, [Next]_vars
      PROVE  [~severed /\ severed' => ~(Agree' /\ BothWays')]_vars
  BY <1>1, <1>2 DEF vars
<1> QED  BY <1>2, TreeInductive, PTL DEF Spec

(* The refinement, step by step: a call in a tree whose lists are kids is  *)
(* that call of ChildLists on kids, with the same answer.                  *)
LEMMA ListsOperators ==
  /\ \A s, p : Lists!Contains(s, p) <=> Contains(s, p)
  /\ \A s, p : Lists!RemoveFirst(s, p) = RemoveFirst(s, p)
<1>1. \A s, p : Lists!Contains(s, p) <=> Contains(s, p)
  BY DEF Contains, Lists!Contains
<1>2. \A s, p : Lists!RemoveFirst(s, p) = RemoveFirst(s, p)
  BY DEF RemoveFirst, Lists!RemoveFirst, SelectInSeq, Lists!SelectInSeq, RemoveAt, Lists!RemoveAt,
         Min, Lists!Min
<1> QED  BY <1>1, <1>2

LEMMA ListsStep ==
  TreeIsLists /\ TreeIsLists' /\ [Next]_vars => [~severed' => Lists!Next \/ UNCHANGED Lists!vars]_vars
<1> SUFFICES ASSUME TreeIsLists, TreeIsLists', Next, ~severed'
             PROVE  Lists!Next
  BY DEF vars
<1> DEFINE kids == [q \in Pcb |-> Walk(tree.nsib, tree.child[q])]
<1>1. Family(tree, kids)
  BY FamilyReads, SeveredStays DEF TreeIsLists
<1>2. ASSUME NEW k, Family(tree', k) PROVE kids' = k
  BY <1>2, FamilyReads
<1>3. ASSUME NEW q \in Pcb, RemoveOldest(q) PROVE Lists!RemoveOldest(q)
  <2>1. /\ kids' = RemoveLists(kids, q)
        /\ tree.child[q] = IF kids[q] = <<>> THEN NULL ELSE Head(kids[q])
    BY <1>1, <1>2, <1>3, RemoveDoes
  <2>2. answer' = <<"removeChild", q, tree.child[q]>>
    BY <1>3 DEF RemoveOldest
  <2> HIDE DEF kids
  <2>3. \/ kids[q] = <<>> /\ answer' = <<"removeChild", q, NULL>> /\ kids' = kids
        \/ /\ kids[q] # <<>> /\ answer' = <<"removeChild", q, Head(kids[q])>>
           /\ kids' = [kids EXCEPT ![q] = Tail(@)]
    BY <2>1, <2>2 DEF RemoveLists
  <2> QED  BY <2>3 DEF Lists!RemoveOldest, kids
<1>4. ASSUME NEW p \in Pcb, Out(p) PROVE Lists!Out(p)
  <2>1. /\ kids' = OutLists(kids, p)
        /\ Detached(p) <=> ~\E q \in Pcb : Contains(kids[q], p)
    BY <1>1, <1>2, <1>4, OutDoes
  <2>2. answer' = <<"outChild", p, IF Detached(p) THEN NULL ELSE p>>
    BY <1>4 DEF Out
  <2> HIDE DEF kids
  <2>3. /\ answer' = <<"outChild", p, IF \E q \in Pcb : Contains(kids[q], p) THEN p ELSE NULL>>
        /\ kids' = [q \in Pcb |-> RemoveFirst(kids[q], p)]
    BY <2>1, <2>2 DEF OutLists
  <2> QED  BY <2>3, ListsOperators DEF Lists!Out, Lists!IsChild, kids
<1>5. ASSUME NEW q \in Pcb, NEW p \in Pcb, Insert(q, p) PROVE Lists!Insert(q, p)
  <2>1. /\ kids' = InsertLists(kids, q, p)
        /\ \A r \in Pcb : ~Contains(kids[r], p)
        /\ kids[p] = <<>>
    BY <1>1, <1>2, <1>5, InsertDoes
  <2>2. p # q /\ answer' = <<"insertChild", q, p>>
    BY <1>5 DEF Insert
  <2> HIDE DEF kids
  <2>3. /\ ~\E r \in Pcb : Contains(kids[r], p)
        /\ kids' = [kids EXCEPT ![q] = Append(@, p)]
    BY <2>1 DEF InsertLists
  <2> QED  BY <2>1, <2>2, <2>3, ListsOperators DEF Lists!Insert, Lists!IsChild, kids
<1> QED  BY <1>3, <1>4, <1>5 DEF Next, Lists!Next

(* The tree implements ChildLists, children in the order of their creation *)
(* and nobody but the process asked for leaving it, until outChild takes a *)
(* process with a younger sibling.                                         *)
THEOREM ListsKept == Spec => KeepsChildLists
<1>1. Init => Lists!Init
  <2> SUFFICES ASSUME Init PROVE Lists!Init
    OBVIOUS
  <2>1. [q \in Pcb |-> <<>>] = [q \in Pcb |-> Walk(tree.nsib, tree.child[q])]
    BY TreeInit, FamilyReads
  <2> QED  BY <2>1 DEF Init, Lists!Init
<1> QED  BY <1>1, ListsStep, TreeInductive, PTL DEF Spec, KeepsChildLists
=============================================================================

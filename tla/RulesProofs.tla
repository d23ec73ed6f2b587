----------------------------- MODULE RulesProofs -----------------------------
(***************************************************************************)
(* Proofs about the decision rules: what decide() answers on the tree of   *)
(* any equation, and that DE_destroy_tree() frees no node twice.           *)
(***************************************************************************)
EXTENDS Rules, SequenceTheorems, TLAPS

Nodes == [module : Modules, true_branch : Nat, false_branch : Nat]
Leaf(m) == [module |-> m, true_branch |-> NULL, false_branch |-> NULL]
AndNode(m, x) == [module |-> m, true_branch |-> x, false_branch |-> NULL]

(* Node x of heap h is the head of the subtree of group g, and no false    *)
(* branch leads out of it.                                                 *)
Subtree(h, x, g) ==
  /\ x \in 1 .. Len(h)
  /\ Len(g) = 1 => h[x] = Leaf(g[1])
  /\ Len(g) # 1 => /\ h[x] = AndNode(g[1], x + 1)
                   /\ x + 1 \in 1 .. Len(h) /\ h[x + 1] = Leaf(g[2])

(* What decide() answers on the subtree of a group: it asks the first two  *)
(* modules.                                                                *)
SubtreeSays(g) ==
  IF answer[g[1]] # "ACCEPT" \/ Len(g) = 1 THEN answer[g[1]] ELSE answer[g[2]]

LastGroup == equation[Len(equation)]

InvType ==
  /\ equation \in Equations
  /\ answer \in [Modules -> Results]
  /\ heap \in Seq(Nodes)
  /\ n \in 0 .. Len(equation)
  /\ phase \in {"create", "idle", "decide", "destroy", "gone"}

(* The loop of DE_create_tree() links to the new subtree the one built     *)
(* before; the newest has no false branch yet.                             *)
InvTree ==
  /\ phase = "create" /\ n # 0 => Subtree(heap, node, equation[n])
  /\ phase # "create" => Subtree(heap, root, LastGroup)

(* The walk of decide(), and its answer. *)
InvDecide ==
  /\ phase = "create" => result = "NO_RULE"
  /\ phase = "decide" =>
       \/ node = root
       \/ /\ node = root + 1 /\ Len(LastGroup) # 1
          /\ answer[LastGroup[1]] = "ACCEPT"
          /\ LastGroup[1] \in Pickers => backend_use # 0
  /\ Decided =>
       /\ result = SubtreeSays(LastGroup)
       /\ result = "ACCEPT" =>
            /\ LastGroup[1] \in Pickers => backend_use # 0
            /\ Len(LastGroup) # 1 /\ LastGroup[2] \in Pickers => backend_use # 0

(* The stack of DE_destroy_tree() and the nodes freed, for a tree of one   *)
(* node and of two.                                                        *)
OneNode(s, f) ==
  \/ s = <<root>> /\ f = <<>>
  \/ s = <<NULL, NULL, -root>> /\ f = <<>>
  \/ s = <<NULL, -root>> /\ f = <<>>
  \/ s = <<-root>> /\ f = <<>>
  \/ s = <<>> /\ f = <<root>>

TwoNodes(s, f) ==
  \/ s = <<root>> /\ f = <<>>
  \/ s = <<NULL, root + 1, -root>> /\ f = <<>>
  \/ s = <<root + 1, -root>> /\ f = <<>>
  \/ s = <<NULL, NULL, -(root + 1), -root>> /\ f = <<>>
  \/ s = <<NULL, -(root + 1), -root>> /\ f = <<>>
  \/ s = <<-(root + 1), -root>> /\ f = <<>>
  \/ s = <<-root>> /\ f = <<root + 1>>
  \/ s = <<>> /\ f = <<root + 1, root>>

InvDestroy ==
  /\ phase \in {"create", "idle", "decide"} => stack = <<>> /\ freed = <<>>
  /\ phase \in {"destroy", "gone"} =>
       /\ Len(LastGroup) = 1 => OneNode(stack, freed)
       /\ Len(LastGroup) # 1 => TwoNodes(stack, freed)

IInv ==
  /\ InvType
  /\ InvTree
  /\ InvDecide
  /\ InvDestroy

-----------------------------------------------------------------------------
(* Equations and the subtrees built of their groups.                       *)

LEMMA GroupFacts ==
  ASSUME NEW g \in Groups
  PROVE  /\ Len(g) \in Nat \ {0} /\ DOMAIN g = 1 .. Len(g)
         /\ g[1] \in Modules /\ (Len(g) # 1 => g[2] \in Modules)
<1>1. PICK k \in 1 .. MaxConjuncts : g \in [1 .. k -> Modules]
  BY DEF Groups
<1>2. k \in Nat \ {0} /\ g \in Seq(Modules) /\ Len(g) = k
  BY <1>1, RulesAssumption
<1> QED BY <1>1, <1>2

LEMMA EquationFacts ==
  ASSUME InvType
  PROVE  /\ Len(equation) \in Nat \ {0} /\ DOMAIN equation = 1 .. Len(equation)
         /\ \A k \in 1 .. Len(equation) : equation[k] \in Groups
         /\ LastGroup \in Groups
<1>1. PICK k \in 1 .. MaxGroups : equation \in [1 .. k -> Groups]
  BY DEF InvType, Equations
<1>2. k \in Nat \ {0} /\ equation \in Seq(Groups) /\ Len(equation) = k
  BY <1>1, RulesAssumption
<1> QED BY <1>1, <1>2 DEF LastGroup

LEMMA BuildFacts ==
  ASSUME NEW g \in Groups, NEW base \in Nat
  PROVE  /\ BuildSubtree(g, base) \in Seq(Nodes)
         /\ Len(g) = 1 => BuildSubtree(g, base) = <<Leaf(g[1])>>
         /\ Len(g) # 1 => BuildSubtree(g, base) = <<AndNode(g[1], base + 2), Leaf(g[2])>>
<1>1. Len(g) = 1 => BuildSubtree(g, base) = <<Leaf(g[1])>>
  BY DEF BuildSubtree, Leaf
<1>2. Len(g) # 1 => BuildSubtree(g, base) = <<AndNode(g[1], base + 2), Leaf(g[2])>>
  BY DEF BuildSubtree, Leaf, AndNode
<1>3. Leaf(g[1]) \in Nodes /\ AndNode(g[1], base + 2) \in Nodes
  BY GroupFacts DEF Leaf, AndNode, Nodes, NULL
<1>4. Len(g) # 1 => Leaf(g[2]) \in Nodes
  BY GroupFacts DEF Leaf, Nodes, NULL
<1>5. BuildSubtree(g, base) \in Seq(Nodes)
  <2>1. CASE Len(g) = 1
    <3>1. <<Leaf(g[1])>> \in Seq(Nodes)
      BY <1>3
    <3> QED BY <1>1, <2>1, <3>1
  <2>2. CASE Len(g) # 1
    <3>1. <<AndNode(g[1], base + 2), Leaf(g[2])>> \in Seq(Nodes)
      BY <1>3, <1>4, <2>2
    <3> QED BY <1>2, <2>2, <3>1
  <2> QED BY <2>1, <2>2
<1> QED BY <1>1, <1>2, <1>5

(* The new nodes, behind those of the heap, form the subtree of the group. *)
LEMMA AppendedSubtree ==
  ASSUME NEW g \in Groups, NEW h \in Seq(Nodes)
  PROVE  /\ h \o BuildSubtree(g, Len(h)) \in Seq(Nodes)
         /\ Subtree(h \o BuildSubtree(g, Len(h)), Len(h) + 1, g)
         /\ Len(h) < Len(h \o BuildSubtree(g, Len(h)))
<1> DEFINE b == BuildSubtree(g, Len(h))
           c == h \o b
<1>1. Len(h) \in Nat
  OBVIOUS
<1>2. /\ b \in Seq(Nodes)
      /\ Len(g) = 1 => b = <<Leaf(g[1])>>
      /\ Len(g) # 1 => b = <<AndNode(g[1], Len(h) + 2), Leaf(g[2])>>
  BY <1>1, BuildFacts
<1> HIDE DEF b
<1>3. c \in Seq(Nodes) /\ Len(c) = Len(h) + Len(b)
  BY <1>2
<1>4. \A i \in 1 .. Len(b) : c[Len(h) + i] = b[i]
  BY <1>2
<1>5. CASE Len(g) = 1
  <2>1. Len(b) = 1 /\ b[1] = Leaf(g[1])
    BY <1>2, <1>5
  <2> QED BY <1>1, <1>3, <1>4, <1>5, <2>1 DEF Subtree, b
<1>6. CASE Len(g) # 1
  <2>1. Len(b) = 2 /\ b[1] = AndNode(g[1], Len(h) + 2) /\ b[2] = Leaf(g[2])
    BY <1>2, <1>6
  <2>2. c[Len(h) + 1] = b[1] /\ c[Len(h) + 2] = b[2]
    <3>1. 1 \in 1 .. Len(b) /\ 2 \in 1 .. Len(b)
      BY <2>1
    <3> HIDE DEF c
    <3> QED BY <1>4, <3>1
  <2>3. (Len(h) + 1) + 1 = Len(h) + 2
    BY <1>1
  <2> QED BY <1>1, <1>3, <1>6, <2>1, <2>2, <2>3 DEF Subtree, b
<1> QED BY <1>5, <1>6

(* Linking the subtree at x to a later one changes nothing but its own     *)
(* nodes.                                                                  *)
LEMMA LinkedFacts ==
  ASSUME NEW h \in Seq(Nodes), NEW x \in 1 .. Len(h), NEW head \in 1 .. Len(h),
         h[x].true_branch # NULL => h[x].true_branch < head, x < head
  PROVE  /\ Linked(h, x, head) \in Seq(Nodes) /\ Len(Linked(h, x, head)) = Len(h)
         /\ \A i \in head .. Len(h) : Linked(h, x, head)[i] = h[i]
<1> DEFINE l == Linked(h, x, head)
<1>1. Len(h) \in Nat /\ DOMAIN h = 1 .. Len(h) /\ (\A i \in 1 .. Len(h) : h[i] \in Nodes)
  OBVIOUS
<1>2. l = [k \in 1 .. Len(h) |-> IF k \in TrueChain(h, x)
                                 THEN [h[k] EXCEPT !.false_branch = head] ELSE h[k]]
  BY <1>1 DEF Linked
<1>3. \A i \in 1 .. Len(h) : [h[i] EXCEPT !.false_branch = head] \in Nodes
  BY <1>1 DEF Nodes
<1>4. l \in [1 .. Len(h) -> Nodes]
  BY <1>1, <1>2, <1>3
<1>5. l \in Seq(Nodes) /\ Len(l) = Len(h)
  BY <1>1, <1>4
<1>6. ASSUME NEW i \in head .. Len(h) PROVE l[i] = h[i]
  <2>1. i \notin TrueChain(h, x)
    BY DEF TrueChain
  <2> QED BY <1>1, <1>2, <2>1
<1> QED BY <1>5, <1>6 DEF l

-----------------------------------------------------------------------------
LEMMA InitHolds ==
  ASSUME Init
  PROVE  IInv
<1> USE DEF Init
<1>1. InvType
  <2>1. PICK k \in 1 .. MaxGroups : equation \in [1 .. k -> Groups]
    BY DEF Equations
  <2>2. Len(equation) \in Nat
    BY <2>1, RulesAssumption
  <2>3. heap \in Seq(Nodes)
    OBVIOUS
  <2> QED BY <2>2, <2>3 DEF InvType, Results
<1>2. InvTree /\ InvDecide /\ InvDestroy
  BY DEF InvTree, InvDecide, InvDestroy, Decided
<1> QED BY <1>1, <1>2 DEF IInv

(* DE_create_tree(): the head of the newest group is an AND of one or two  *)
(* modules without a false branch.                                         *)
LEMMA CreateStep ==
  ASSUME IInv, CreateFirst \/ CreateNext \/ CreateReturn
  PROVE  IInv'
<1> USE DEF IInv
<1>1. /\ Len(equation) \in Nat \ {0} /\ (\A k \in 1 .. Len(equation) : equation[k] \in Groups)
      /\ LastGroup \in Groups
  BY EquationFacts
<1>2. ASSUME CreateFirst PROVE IInv'
  <2>1. heap' \in Seq(Nodes) /\ Subtree(heap', 1, equation[1])
    <3>1. equation[1] \in Groups /\ <<>> \in Seq(Nodes) /\ Len(<<>>) = 0
      BY <1>1
    <3>2. heap' = BuildSubtree(equation[1], 0) /\ heap' \in Seq(Nodes)
      BY <1>2, <3>1, BuildFacts DEF CreateFirst
    <3>3. <<>> \o heap' = heap'
      BY <3>2
    <3>4. Subtree(<<>> \o heap', Len(<<>>) + 1, equation[1])
      BY <3>1, <3>2, AppendedSubtree
    <3>5. Len(<<>>) + 1 = 1
      BY <3>1
    <3> QED BY <3>2, <3>3, <3>4, <3>5, Zenon
  <2>2. /\ phase = "create" /\ n' = 1 /\ node' = 1
        /\ UNCHANGED <<equation, answer, root, result, backend_use, stack, freed, phase>>
    BY <1>2 DEF CreateFirst
  <2>3. InvType'
    BY <1>1, <2>1, <2>2 DEF InvType
  <2>4. InvTree'
    BY <2>1, <2>2 DEF InvTree
  <2> QED BY <2>2, <2>3, <2>4 DEF InvDecide, InvDestroy, Decided
<1>3. ASSUME CreateNext PROVE IInv'
  <2> DEFINE head == Len(heap) + 1
             g == equation[n + 1]
             h == heap \o BuildSubtree(g, Len(heap))
  <2>1. /\ phase = "create" /\ n \in 1 .. Len(equation) - 1 /\ n' = n + 1 /\ node' = head
        /\ heap' = Linked(h, node, head)
        /\ UNCHANGED <<equation, answer, root, result, backend_use, stack, freed, phase>>
    BY <1>3 DEF CreateNext
  <2>2. g \in Groups /\ equation[n] \in Groups /\ heap \in Seq(Nodes) /\ Len(heap) \in Nat
    BY <1>1, <2>1 DEF InvType
  <2>3. h \in Seq(Nodes) /\ Subtree(h, head, g) /\ Len(heap) < Len(h)
    BY <2>2, AppendedSubtree
  <2>4. \A i \in 1 .. Len(heap) : h[i] = heap[i]
    BY <2>2, BuildFacts
  <2>5. Subtree(heap, node, equation[n])
    BY <2>1 DEF InvTree
  <2> HIDE DEF h
  <2>6. node \in 1 .. Len(h) /\ head \in 1 .. Len(h) /\ node < head
    BY <2>2, <2>3, <2>5 DEF Subtree
  <2>7. h[node].true_branch # NULL => h[node].true_branch < head
    <3>1. h[node] = heap[node]
      BY <2>4, <2>5 DEF Subtree
    <3> QED BY <2>2, <2>5, <3>1 DEF Subtree, Leaf, AndNode
  <2>8. /\ heap' \in Seq(Nodes) /\ Len(heap') = Len(h)
        /\ \A i \in head .. Len(h) : heap'[i] = h[i]
    BY <2>1, <2>3, <2>6, <2>7, LinkedFacts
  <2>9. Subtree(heap', head, g)
    BY <2>2, <2>3, <2>8 DEF Subtree
  <2>10. InvType'
    BY <1>1, <2>1, <2>8 DEF InvType
  <2>11. InvTree'
    BY <2>1, <2>9 DEF InvTree
  <2> QED BY <2>1, <2>10, <2>11 DEF InvDecide, InvDestroy, Decided
<1>4. ASSUME CreateReturn PROVE IInv'
  <2>1. /\ phase = "create" /\ n = Len(equation) /\ root' = node /\ phase' = "idle"
        /\ UNCHANGED <<equation, answer, heap, node, n, result, backend_use, stack, freed>>
    BY <1>4 DEF CreateReturn
  <2>2. InvType'
    BY <2>1 DEF InvType
  <2>3. InvTree'
    BY <1>1, <2>1 DEF InvTree, LastGroup
  <2> QED BY <2>1, <2>2, <2>3 DEF InvDecide, InvDestroy, Decided
<1> QED BY <1>2, <1>3, <1>4
(* decide(): from the head, and from the second module of an AND, the next *)
(* node is the other module of the AND or the end.                         *)
LEMMA DecideStep ==
  ASSUME IInv, Packet \/ Decide
  PROVE  IInv'
<1> USE DEF IInv
<1>1. LastGroup \in Groups
  BY EquationFacts
<1> DEFINE g == LastGroup
<1>2. /\ Len(g) \in Nat \ {0} /\ g[1] \in Modules /\ (Len(g) # 1 => g[2] \in Modules)
  BY <1>1, GroupFacts
<1>3. ASSUME Packet PROVE IInv'
  <2>1. /\ phase = "idle" /\ phase' = "decide" /\ node' = root
        /\ answer' \in [Modules -> Results]
        /\ UNCHANGED <<equation, heap, n, root, stack, freed>>
    BY <1>3 DEF Packet
  <2> QED BY <2>1 DEF InvType, InvTree, InvDecide, InvDestroy, Decided, LastGroup
<1>4. ASSUME Decide PROVE IInv'
  <2> DEFINE here == heap[node]
             next == NextNode(here)
  <2>1. /\ phase = "decide"
        /\ node' = (IF next # NULL THEN next ELSE node)
        /\ result' = (IF next # NULL THEN result ELSE answer[here.module])
        /\ backend_use' = BackendUse(here)
        /\ phase' = (IF next # NULL THEN "decide" ELSE "idle")
        /\ UNCHANGED <<equation, answer, heap, n, root, stack, freed>>
    BY <1>4 DEF Decide, Decision
  <2>2. g' = g /\ (Decided' <=> phase' = "idle" /\ result' # "NO_RULE")
    BY <2>1 DEF LastGroup, Decided
  <2>3. Subtree(heap, root, g) /\ root \in Nat \ {0}
    BY <2>1 DEF InvTree, Subtree
  <2>4. InvType' /\ InvTree' /\ InvDestroy'
    BY <2>1 DEF InvType, InvTree, InvDestroy, OneNode, TwoNodes, LastGroup
  <2> HIDE DEF g
  <2>5. CASE node = root
    <3>1. /\ here.module = g[1] /\ here.false_branch = NULL
          /\ here.true_branch = IF Len(g) = 1 THEN NULL ELSE root + 1
      BY <2>3, <2>5 DEF Subtree, Leaf, AndNode
    <3>2. next = IF answer[g[1]] = "ACCEPT" /\ Len(g) # 1 THEN root + 1 ELSE NULL
      BY <3>1 DEF NextNode
    <3>3. answer[g[1]] = "ACCEPT" /\ g[1] \in Pickers => backend_use' # 0
      BY <2>1, <3>1 DEF BackendUse, PickedId
    <3>4. root + 1 # NULL
      BY <2>3 DEF NULL
    <3> HIDE DEF here, next
    <3>5. CASE answer[g[1]] = "ACCEPT" /\ Len(g) # 1
      BY <2>1, <2>2, <2>4, <3>2, <3>3, <3>4, <3>5 DEF InvDecide, g
    <3>6. CASE ~(answer[g[1]] = "ACCEPT" /\ Len(g) # 1)
      <4>1. phase' = "idle" /\ result' = answer[g[1]]
        BY <2>1, <3>1, <3>2, <3>6
      <4>2. SubtreeSays(g)' = answer[g[1]]
        BY <2>1, <2>2, <3>6 DEF SubtreeSays
      <4> QED BY <2>2, <2>4, <3>3, <3>6, <4>1, <4>2 DEF InvDecide, g
    <3> QED BY <2>4, <3>5, <3>6
  <2>6. CASE node # root
    <3>1. /\ node = root + 1 /\ Len(g) # 1 /\ answer[g[1]] = "ACCEPT"
          /\ g[1] \in Pickers => backend_use # 0
      BY <2>1, <2>6 DEF InvDecide, g
    <3>2. here.module = g[2] /\ here.false_branch = NULL /\ here.true_branch = NULL
      BY <2>3, <3>1 DEF Subtree, Leaf
    <3>3. next = NULL
      BY <3>2 DEF NextNode
    <3>4. /\ answer[g[2]] = "ACCEPT" /\ g[2] \in Pickers => backend_use' # 0
          /\ backend_use # 0 => backend_use' # 0
      BY <2>1, <3>2 DEF BackendUse, PickedId
    <3> HIDE DEF here, next
    <3>5. phase' = "idle" /\ result' = answer[g[2]]
      BY <2>1, <3>2, <3>3
    <3>6. SubtreeSays(g)' = answer[g[2]]
      BY <2>1, <2>2, <3>1 DEF SubtreeSays
    <3>7. InvDecide'
      BY <2>2, <3>1, <3>4, <3>5, <3>6 DEF InvDecide, g
    <3> QED BY <2>4, <3>7
  <2> QED BY <2>5, <2>6
<1> QED BY <1>3, <1>4

-----------------------------------------------------------------------------
(* DE_destroy_tree().                                                      *)

(* One call or return of DE_destroy_tree(), with the node on top of the    *)
(* stack.                                                                  *)
Visit(s, f, s2, f2) ==
  LET x == Head(s)
      rest == Tail(s)
  IN \/ x = NULL /\ s2 = rest /\ f2 = f
     \/ x > 0 /\ s2 = <<heap[x].false_branch, heap[x].true_branch, -x>> \o rest /\ f2 = f
     \/ x < 0 /\ f2 = Append(f, -x) /\ s2 = rest

LEMMA OneNodeStep ==
  ASSUME root \in Nat \ {0}, heap[root].false_branch = NULL, heap[root].true_branch = NULL,
         NEW s, NEW f, NEW s2, NEW f2, OneNode(s, f), s # <<>>, Visit(s, f, s2, f2)
  PROVE  OneNode(s2, f2)
<1> USE DEF Visit, NULL
<1>1. CASE s = <<root>> /\ f = <<>>
  BY <1>1 DEF OneNode
<1>2. CASE s = <<NULL, NULL, -root>> /\ f = <<>>
  BY <1>2 DEF OneNode
<1>3. CASE s = <<NULL, -root>> /\ f = <<>>
  BY <1>3 DEF OneNode
<1>4. CASE s = <<-root>> /\ f = <<>>
  BY <1>4 DEF OneNode
<1> QED BY <1>1, <1>2, <1>3, <1>4 DEF OneNode

LEMMA TwoNodesStep ==
  ASSUME root \in Nat \ {0}, heap[root].false_branch = NULL, heap[root].true_branch = root + 1,
         heap[root + 1].false_branch = NULL, heap[root + 1].true_branch = NULL,
         NEW s, NEW f, NEW s2, NEW f2, TwoNodes(s, f), s # <<>>, Visit(s, f, s2, f2)
  PROVE  TwoNodes(s2, f2)
<1> USE DEF Visit, NULL
<1>1. CASE s = <<root>> /\ f = <<>>
  BY <1>1 DEF TwoNodes
<1>2. CASE s = <<NULL, root + 1, -root>> /\ f = <<>>
  BY <1>2 DEF TwoNodes
<1>3. CASE s = <<root + 1, -root>> /\ f = <<>>
  BY <1>3 DEF TwoNodes
<1>4. CASE s = <<NULL, NULL, -(root + 1), -root>> /\ f = <<>>
  BY <1>4 DEF TwoNodes
<1>5. CASE s = <<NULL, -(root + 1), -root>> /\ f = <<>>
  BY <1>5 DEF TwoNodes
<1>6. CASE s = <<-(root + 1), -root>> /\ f = <<>>
  BY <1>6 DEF TwoNodes
<1>7. CASE s = <<-root>> /\ f = <<root + 1>>
  BY <1>7 DEF TwoNodes
<1> QED BY <1>1, <1>2, <1>3, <1>4, <1>5, <1>6, <1>7 DEF TwoNodes

LEMMA DestroyStep ==
  ASSUME IInv, Destroy \/ DestroyTree \/ DestroyReturn
  PROVE  IInv'
<1> USE DEF IInv
<1>1. phase \in {"idle", "destroy"} /\ phase' \in {"destroy", "gone"}
  BY DEF Destroy, DestroyTree, DestroyReturn
<1>2. UNCHANGED <<equation, answer, heap, node, n, root, result, backend_use>>
  BY DEF Destroy, DestroyTree, DestroyReturn
<1>3. LastGroup' = LastGroup
  BY <1>2 DEF LastGroup
<1>4. InvType' /\ InvTree' /\ InvDecide'
  BY <1>1, <1>2, <1>3 DEF InvType, InvTree, InvDecide, Decided
<1>5. Subtree(heap, root, LastGroup) /\ root \in Nat \ {0}
  BY <1>1 DEF InvTree, Subtree
<1>6. ASSUME Destroy PROVE InvDestroy'
  <2>1. stack' = <<root>> /\ freed' = <<>>
    BY <1>6 DEF Destroy, InvDestroy
  <2> QED BY <1>1, <1>2, <1>3, <2>1 DEF InvDestroy, OneNode, TwoNodes
<1>7. ASSUME DestroyTree PROVE InvDestroy'
  <2>1. phase = "destroy" /\ phase' = phase /\ stack # <<>> /\ Visit(stack, freed, stack', freed')
    BY <1>7 DEF DestroyTree, Visit
  <2>2. CASE Len(LastGroup) = 1
    <3>1. heap[root].false_branch = NULL /\ heap[root].true_branch = NULL
      BY <1>5, <2>2 DEF Subtree, Leaf
    <3>2. OneNode(stack', freed')
      BY <1>5, <2>1, <2>2, <3>1, OneNodeStep DEF InvDestroy
    <3>3. OneNode(stack, freed)'
      BY <1>2, <3>2 DEF OneNode
    <3> QED BY <1>1, <1>3, <2>1, <2>2, <3>3 DEF InvDestroy
  <2>3. CASE Len(LastGroup) # 1
    <3>1. /\ heap[root].false_branch = NULL /\ heap[root].true_branch = root + 1
          /\ heap[root + 1].false_branch = NULL /\ heap[root + 1].true_branch = NULL
      BY <1>5, <2>3 DEF Subtree, Leaf, AndNode
    <3>2. TwoNodes(stack', freed')
      BY <1>5, <2>1, <2>3, <3>1, TwoNodesStep DEF InvDestroy
    <3>3. TwoNodes(stack, freed)'
      BY <1>2, <3>2 DEF TwoNodes
    <3> QED BY <1>1, <1>3, <2>1, <2>3, <3>3 DEF InvDestroy
  <2> QED BY <2>2, <2>3
<1>8. ASSUME DestroyReturn PROVE InvDestroy'
  <2>1. phase = "destroy" /\ phase' = "gone" /\ UNCHANGED <<stack, freed>>
    BY <1>8 DEF DestroyReturn
  <2> QED BY <1>2, <1>3, <2>1 DEF InvDestroy, OneNode, TwoNodes
<1> QED BY <1>4, <1>6, <1>7, <1>8

LEMMA Invariance == Spec => []IInv
<1>1. Init => IInv
  BY InitHolds
<1>2. ASSUME IInv, [Next]_vars PROVE IInv'
  <2>1. CASE Next
    BY <1>2, <2>1, CreateStep, DecideStep, DestroyStep DEF Next
  <2>2. CASE UNCHANGED vars
    BY <1>2, <2>2 DEF vars, IInv, InvType, InvTree, InvDecide, InvDestroy, Decided, LastGroup,
                      OneNode, TwoNodes, SubtreeSays
  <2> QED BY <1>2, <2>1, <2>2
<1> QED BY <1>1, <1>2, PTL DEF Spec

-----------------------------------------------------------------------------
(* Theorems.                                                               *)

(* decide(): on the tree of any equation the answer is that of the first   *)
(* two modules of the last group, whatever the equation says besides.      *)
THEOREM LastGroupDecides == Spec => [](Decided => result = SubtreeSays(LastGroup))
<1>1. IInv => (Decided => result = SubtreeSays(LastGroup))
  BY DEF IInv, InvDecide
<1> QED BY <1>1, Invariance, PTL

LEMMA LeastIs ==
  ASSUME NEW S \in SUBSET Int, NEW x \in S, \A y \in S : x <= y
  PROVE  Min(S) = x
<1>1. \A z \in S : (\A y \in S : z <= y) => z = x
  OBVIOUS
<1> QED BY <1>1 DEF Min

LEMMA SimpleMeaning ==
  ASSUME InvType, Simple
  PROVE  EquationSays = SubtreeSays(LastGroup)
<1> DEFINE g == equation[1]
<1>1. g \in Groups /\ DOMAIN equation = {1} /\ LastGroup = g /\ Len(g) <= 2
  BY EquationFacts DEF Simple, LastGroup
<1> HIDE DEF g
<1>2. /\ Len(g) \in {1, 2} /\ DOMAIN g = 1 .. Len(g)
      /\ g[1] \in Modules /\ (Len(g) # 1 => g[2] \in Modules)
  <2>1. Len(g) \in Nat \ {0} /\ Len(g) <= 2
    BY <1>1, GroupFacts
  <2>2. Len(g) \in {1, 2}
    <3>1. \A l \in Nat \ {0} : l <= 2 => l \in {1, 2}
      OBVIOUS
    <3> QED BY <2>1, <3>1, Zenon
  <2> QED BY <1>1, <2>2, GroupFacts, Zenon
<1>3. answer[g[1]] \in Results /\ (Len(g) # 1 => answer[g[2]] \in Results)
  BY <1>2 DEF InvType
<1> DEFINE no == {k \in DOMAIN g : answer[g[k]] # "ACCEPT"}
<1>4. GroupSays(g) = SubtreeSays(g)
  <2>1. GroupSays(g) = IF no = {} THEN "ACCEPT" ELSE answer[g[Min(no)]]
    BY DEF GroupSays
  <2>2. CASE answer[g[1]] # "ACCEPT"
    <3>1. 1 \in no /\ no \subseteq {1, 2}
      BY <1>2, <2>2
    <3> HIDE DEF no
    <3>2. Min(no) = 1
      BY <3>1, LeastIs
    <3> QED BY <2>1, <2>2, <3>1, <3>2 DEF SubtreeSays
  <2>3. CASE answer[g[1]] = "ACCEPT" /\ Len(g) = 1
    <3>1. no = {}
      BY <1>2, <2>3
    <3> QED BY <2>1, <2>3, <3>1 DEF SubtreeSays
  <2>4. CASE answer[g[1]] = "ACCEPT" /\ Len(g) = 2 /\ answer[g[2]] = "ACCEPT"
    <3>1. no = {}
      BY <1>2, <2>4
    <3> QED BY <2>1, <2>4, <3>1 DEF SubtreeSays
  <2>5. CASE answer[g[1]] = "ACCEPT" /\ Len(g) = 2 /\ answer[g[2]] # "ACCEPT"
    <3>1. no = {2}
      BY <1>2, <2>5
    <3>2. Min({2}) = 2
      BY DEF Min
    <3> QED BY <2>1, <2>5, <3>1, <3>2 DEF SubtreeSays
  <2> QED BY <1>2, <2>2, <2>3, <2>4, <2>5
<1> DEFINE settled == {k \in DOMAIN equation : GroupSays(equation[k]) # "REJECT"}
<1>5. EquationSays = IF settled = {} THEN "REJECT" ELSE GroupSays(equation[Min(settled)])
  BY DEF EquationSays
<1>6. CASE GroupSays(g) = "REJECT"
  <2>1. settled = {}
    BY <1>1, <1>6 DEF g
  <2> QED BY <1>1, <1>4, <1>5, <1>6, <2>1
<1>7. CASE GroupSays(g) # "REJECT"
  <2>1. settled = {1}
    BY <1>1, <1>7 DEF g
  <2>2. Min({1}) = 1
    BY DEF Min
  <2> QED BY <1>1, <1>4, <1>5, <2>1, <2>2 DEF g
<1> QED BY <1>6, <1>7

(* An equation of one group of at most two modules is answered as its      *)
(* meaning asks, for every combination of answers.                         *)
THEOREM SimpleRulesMean == Spec => []SimpleRuleMeans
<1>1. IInv => SimpleRuleMeans
  BY SimpleMeaning DEF IInv, InvDecide, SimpleRuleMeans
<1> QED BY <1>1, Invariance, PTL

(* A back_picker rule of one group that asks a picker and accepts has      *)
(* named a backend.                                                        *)
THEOREM PickersName == Spec => []PickerNamesBackend
<1>1. ASSUME IInv PROVE PickerNamesBackend
  <2> SUFFICES ASSUME Decided, Simple, result = "ACCEPT",
                      NEW k \in DOMAIN equation[1], equation[1][k] \in Pickers
               PROVE  backend_use # 0
    BY DEF PickerNamesBackend
  <2>1. equation[1] \in Groups /\ LastGroup = equation[1]
    BY <1>1, EquationFacts DEF IInv, Simple, LastGroup
  <2>2. k \in 1 .. Len(equation[1]) /\ Len(equation[1]) \in Nat /\ Len(equation[1]) <= 2
    BY <2>1, GroupFacts DEF Simple
  <2>3. k = 1 \/ (k = 2 /\ Len(equation[1]) # 1)
    <3>1. \A l \in Nat : \A i \in 1 .. l : l <= 2 => i = 1 \/ (i = 2 /\ l # 1)
      OBVIOUS
    <3> QED BY <2>2, <3>1
  <2> QED BY <1>1, <2>1, <2>3 DEF IInv, InvDecide
<1> QED BY <1>1, Invariance, PTL

(* DE_destroy_tree() frees no node twice, whatever the equation: the tree  *)
(* that DE_create_tree() returns shares no branch.                         *)
THEOREM NoDoubleFree == Spec => []FreedOnce
<1>1. ASSUME IInv PROVE FreedOnce
  <2>1. CASE freed = <<>>
    BY <2>1 DEF FreedOnce, IsInjective
  <2>2. CASE freed = <<root>> \/ freed = <<root + 1>>
    BY <2>2 DEF FreedOnce, IsInjective
  <2>3. CASE freed = <<root + 1, root>> /\ phase \in {"destroy", "gone"}
    <3>1. root \in Nat
      BY <1>1, <2>3 DEF IInv, InvTree, Subtree
    <3> QED BY <2>3, <3>1 DEF FreedOnce, IsInjective
  <2> QED BY <1>1, <2>1, <2>2, <2>3 DEF IInv, InvType, InvDestroy, OneNode, TwoNodes
<1> QED BY <1>1, Invariance, PTL


=============================================================================

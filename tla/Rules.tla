-------------------------------- MODULE Rules --------------------------------
(***************************************************************************)
(* A decision rule of a target: DE_create_tree() turns the configured      *)
(* boolean equation into a tree of nodes, decide() walks it once per       *)
(* packet, and DE_destroy_tree() frees it with its handler.                *)
(*                                                                         *)
(* An equation is a sequence of groups joined by OR, a group a sequence of *)
(* module names joined by AND (the two g_regex_split()).  What a module    *)
(* answers to the packet is a free choice.  Nodes live in a heap, because  *)
(* the branches that DE_create_tree() links are shared.                    *)
(***************************************************************************)
EXTENDS Integers, Sequences, FiniteSetsExt, SequencesExt

CONSTANTS
  Modules,       \* names of configured modules
  Pickers,       \* those that choose a backend (set backend_use)
  MaxGroups,     \* bound: groups of an equation
  MaxConjuncts   \* bound: modules of a group

ASSUME RulesAssumption ==
  /\ Pickers \subseteq Modules
  /\ MaxGroups \in Nat \ {0}
  /\ MaxConjuncts \in Nat \ {0}

Results == {"ACCEPT", "REJECT", "DEFER"}
Groups == UNION {[1 .. k -> Modules] : k \in 1 .. MaxConjuncts}
Equations == UNION {[1 .. k -> Groups] : k \in 1 .. MaxGroups}
NULL == 0
(* Any ID a picker may choose. *)
PickedId == 1

VARIABLES
  equation,     \* the configured text
  answer,       \* what each module answers to the current packet
  heap,         \* the nodes allocated, addressed from 1
  node,         \* the local variable node of DE_create_tree() and decide()
  n,            \* the loop counter of DE_create_tree()
  root,         \* what DE_create_tree() returned
  result,       \* decision->result
  backend_use,  \* decision->backend_use: the ID a picker chose, or 0
  stack,        \* DE_destroy_tree(): the nodes still to be visited
  freed,        \* the nodes freed, in order
  phase         \* "create", "idle", "decide", "destroy" or "gone"

vars == <<equation, answer, heap, node, n, root, result, backend_use, stack, freed, phase>>

-----------------------------------------------------------------------------
(* DE_build_subtree(): the first module, and the second as its true        *)
(* branch; what follows a second AND is not looked at.  base is the number *)
(* of nodes allocated before; the head is node base + 1.                   *)
BuildSubtree(group, base) ==
  LET leaf(m) == [module |-> m, true_branch |-> NULL, false_branch |-> NULL]
  IN IF Len(group) = 1 THEN <<leaf(group[1])>>
     ELSE <<[leaf(group[1]) EXCEPT !.true_branch = base + 2], leaf(group[2])>>

(* The nodes that the while loop of DE_create_tree() passes. *)
TrueChain(h, first) ==
  {first} \cup (IF h[first].true_branch # NULL THEN {h[first].true_branch} ELSE {})

(* Every node of the chain that starts at first gets head as false branch. *)
Linked(h, first, head) ==
  [k \in DOMAIN h |-> IF k \in TrueChain(h, first)
                      THEN [h[k] EXCEPT !.false_branch = head] ELSE h[k]]

(* DE_create_tree(): the subtree of the first group. *)
CreateFirst ==
  /\ phase = "create" /\ n = 0
  /\ heap' = BuildSubtree(equation[1], 0)
  /\ node' = 1
  /\ n' = 1
  /\ UNCHANGED <<equation, answer, root, result, backend_use, stack, freed, phase>>

(* DE_create_tree(): one turn of the loop over the other groups. *)
CreateNext ==
  /\ phase = "create" /\ n \in 1 .. Len(equation) - 1
  /\ LET head == Len(heap) + 1
     IN /\ heap' = Linked(heap \o BuildSubtree(equation[n + 1], Len(heap)), node, head)
        /\ node' = head
  /\ n' = n + 1
  /\ UNCHANGED <<equation, answer, root, result, backend_use, stack, freed, phase>>

(* Slip: the subtree of the first group is returned, and with it all the   *)
(* shared branches.                                                        *)
CreateReturnFirst ==
  /\ phase = "create" /\ n = Len(equation)
  /\ root' = 1
  /\ phase' = "idle"
  /\ UNCHANGED <<equation, answer, heap, node, n, result, backend_use, stack, freed>>

(* DE_create_tree(): return node, which is the head of the last group. *)
CreateReturn ==
  /\ phase = "create" /\ n = Len(equation)
  /\ root' = node
  /\ phase' = "idle"
  /\ UNCHANGED <<equation, answer, heap, node, n, result, backend_use, stack, freed>>

-----------------------------------------------------------------------------
(* A packet arrives and get_decision() calls decide(). *)
Packet ==
  /\ phase = "idle"
  /\ answer' \in [Modules -> Results]
  /\ node' = root
  /\ result' = "DEFER"
  /\ backend_use' = 0
  /\ phase' = "decide"
  /\ UNCHANGED <<equation, heap, n, root, stack, freed>>

(* Slip: a module that accepts is asked again. *)
NextNodeAgain(here) ==
  CASE answer[here.module] = "ACCEPT" -> IF here.true_branch # NULL THEN node ELSE NULL
    [] answer[here.module] = "REJECT" -> here.false_branch
    [] OTHER -> NULL

(* decide(): where the answer of the module at the node here leads; NULL   *)
(* is the end of the tree.                                                 *)
NextNode(here) ==
  CASE answer[here.module] = "ACCEPT" -> here.true_branch
    [] answer[here.module] = "REJECT" -> here.false_branch
    [] OTHER -> NULL

(* Slip: a deferral is taken for a rejection. *)
DecisionNoDefer(here) == IF answer[here.module] = "ACCEPT" THEN "ACCEPT" ELSE "REJECT"

(* decide(): the result when the node here is the last. *)
Decision(here) == answer[here.module]

(* Slip: a backend is noted only at the end of the tree. *)
BackendUseLate(here) ==
  IF answer[here.module] = "ACCEPT" /\ here.module \in Pickers /\ here.true_branch = NULL
  THEN PickedId ELSE backend_use

(* decide(): the backend a module suggests is noted when it accepts. *)
BackendUse(here) ==
  IF answer[here.module] = "ACCEPT" /\ here.module \in Pickers THEN PickedId ELSE backend_use

(* decide(): one turn of the loop. *)
Decide ==
  LET here == heap[node]
      next == NextNode(here)
  IN /\ phase = "decide"
     /\ node' = IF next # NULL THEN next ELSE node
     /\ result' = IF next # NULL THEN result ELSE Decision(here)
     /\ backend_use' = BackendUse(here)
     /\ phase' = IF next # NULL THEN "decide" ELSE "idle"
     /\ UNCHANGED <<equation, answer, heap, n, root, stack, freed>>

-----------------------------------------------------------------------------
(* free_handler(): the rule is destroyed with the handler. *)
Destroy ==
  /\ phase = "idle"
  /\ stack' = <<root>>
  /\ phase' = "destroy"
  /\ UNCHANGED <<equation, answer, heap, node, n, root, result, backend_use, freed>>

(* DE_destroy_tree(): the false branch, the true branch, then the node.    *)
(* A negative entry is a node whose branches have been destroyed.          *)
DestroyTree ==
  /\ phase = "destroy" /\ stack # <<>>
  /\ LET x == Head(stack)
         rest == Tail(stack)
     IN \/ /\ x = NULL
           /\ stack' = rest
           /\ UNCHANGED freed
        \/ /\ x > 0
           /\ stack' = <<heap[x].false_branch, heap[x].true_branch, -x>> \o rest
           /\ UNCHANGED freed
        \/ /\ x < 0
           /\ freed' = Append(freed, -x)
           /\ stack' = rest
  /\ UNCHANGED <<equation, answer, heap, node, n, root, result, backend_use, phase>>

DestroyReturn ==
  /\ phase = "destroy" /\ stack = <<>>
  /\ phase' = "gone"
  /\ UNCHANGED <<equation, answer, heap, node, n, root, result, backend_use, stack, freed>>

-----------------------------------------------------------------------------
Init ==
  /\ equation \in Equations
  /\ answer = [m \in Modules |-> "DEFER"]
  /\ heap = <<>>
  /\ node = NULL /\ n = 0 /\ root = NULL
  /\ result = "NO_RULE" /\ backend_use = 0
  /\ stack = <<>> /\ freed = <<>>
  /\ phase = "create"

Next ==
  \/ CreateFirst \/ CreateNext \/ CreateReturn
  \/ Packet \/ Decide
  \/ Destroy \/ DestroyTree \/ DestroyReturn

Spec == Init /\ [][Next]_vars

(* A call runs to its return; packets and the end of the handler are free. *)
FairSpec == Spec /\ WF_vars(Decide) /\ WF_vars(DestroyTree \/ DestroyReturn)

-----------------------------------------------------------------------------
(* Properties.                                                             *)

(* The meaning of an equation: a group says what its first module that     *)
(* does not accept says, and accepts if there is none; the equation says   *)
(* what its first group that does not reject says.                         *)
GroupSays(g) ==
  LET no == {k \in DOMAIN g : answer[g[k]] # "ACCEPT"}
  IN IF no = {} THEN "ACCEPT" ELSE answer[g[Min(no)]]

EquationSays ==
  LET settled == {k \in DOMAIN equation : GroupSays(equation[k]) # "REJECT"}
  IN IF settled = {} THEN "REJECT" ELSE GroupSays(equation[Min(settled)])

Decided == phase = "idle" /\ result # "NO_RULE"
Simple == Len(equation) = 1 /\ Len(equation[1]) <= 2

(* decide() on the tree of an equation with one group of at most two       *)
(* modules answers what the equation says, for every combination of        *)
(* answers, deferrals included.                                            *)
SimpleRuleMeans == Decided /\ Simple => result = EquationSays

(* A back_picker rule that asks a picker along its only group and accepts  *)
(* has named a backend, so setup_redirection() is not called with 0.       *)
PickerNamesBackend ==
  /\ Decided /\ Simple /\ result = "ACCEPT"
  /\ \E k \in DOMAIN equation[1] : equation[1][k] \in Pickers
  => backend_use # 0

(* DE_destroy_tree() never visits a node it has freed, although the loop   *)
(* of DE_create_tree() hangs one subtree under several nodes.              *)
FreedOnce == IsInjective(freed)

(* decide() and DE_destroy_tree() return: the links have no cycle. *)
CallsReturn == (phase = "decide" ~> phase = "idle") /\ (phase = "destroy" ~> phase = "gone")

(* honeybrid.conf: every rule of a target is "a boolean equation of        *)
(* modules", and DE_create_tree() is said to build "a boolean decision     *)
(* tree for a given equation".  The answer is what the equation says.      *)
RuleMeans == Decided => result = EquationSays

=============================================================================

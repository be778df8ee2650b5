-------------------------------- MODULE List --------------------------------
(***************************************************************************)
(* kernel/src/list.c: the doubly linked list in which the scheduler keeps  *)
(* its processes.  Nodes are blocks of the heap; a node address is taken   *)
(* from the free ones by malloc and given back by free.                    *)
(*                                                                         *)
(* list_delete stores through the neighbours of the node without asking    *)
(* whether there are any, so its first and last nodes make it write to     *)
(* address 0.  The kernel runs without paging and that memory is nobody's: *)
(* it is kept here as one more cell, at NULL, that takes the stores.       *)
(*                                                                         *)
(* list    head and length, or the value NoList before list_create         *)
(* nodes   the memory of the nodes in use, and of the cell at NULL         *)
(* halted  a failed assert() has executed hlt                              *)
(***************************************************************************)
EXTENDS Integers, FiniteSets, Sequences, SequencesExt

CONSTANTS
    Addr,       \* where malloc may place a node
    Values,     \* what callers keep in the list
    Ram         \* what malloc's block for list_t may hold: [head, length]

VARIABLES list, nodes, halted

vars == <<list, nodes, halted>>

NULL == 0

NoList == [head |-> NULL, length |-> -1]

ASSUME ListAssumption ==
    /\ Addr \subseteq Nat \ {NULL}
    /\ NULL \notin Values
    /\ Ram \subseteq [head : Addr \cup {NULL}, length : Nat]

\* What the order of the list rests on: the first block malloc ever hands out is
\* memory that holds zeros when the machine starts.  Nothing in the repository
\* clears it.
ZeroedRam == Ram \subseteq {[head |-> NULL, length |-> 0]}

Used == DOMAIN nodes \ {NULL}

-----------------------------------------------------------------------------
(***************************************************************************)
(* The loop "node = head; while (node != NULL) node = node->next".         *)
(***************************************************************************)
Visit(ns, first) ==
    LET at[k \in 1 .. Cardinality(DOMAIN ns)] ==
            IF k = 1 THEN first
            ELSE IF at[k - 1] = NULL THEN NULL ELSE ns[at[k - 1]].next
    IN  at

Chain(ns, first) ==
    LET at == Visit(ns, first)
    IN  [k \in {k \in DOMAIN at : at[k] # NULL} |-> at[k]]

\* Mutant: the search does not stop at the first node that holds v.
list_find_Last(v) ==
    LET chain == Chain(nodes, list.head)
        k     == SelectLastInSeq(chain, LAMBDA a : nodes[a].value = v)
    IN  IF k = 0 THEN NULL ELSE chain[k]

\* list_find: the first node that holds v, or NULL.
list_find(v) ==
    LET chain == Chain(nodes, list.head)
        k     == SelectInSeq(chain, LAMBDA a : nodes[a].value = v)
    IN  IF k = 0 THEN NULL ELSE chain[k]

Init ==
    /\ list = NoList
    /\ nodes = [a \in {NULL} |-> [previous |-> NULL, next |-> NULL, value |-> NULL]]
    /\ halted = FALSE

\* list_create: the block is returned as malloc found it.
Create ==
    /\ ~halted /\ list = NoList
    /\ list' \in Ram
    /\ UNCHANGED <<nodes, halted>>

\* list_insert(v) appends a node at new, the address malloc returns.
Insert(v, new) ==
    LET chain == Chain(nodes, list.head)
        node  == IF chain = <<>> THEN NULL ELSE Last(chain)
    IN  /\ ~halted /\ list # NoList
        /\ nodes' = [a \in DOMAIN nodes \cup {new} |->
                        CASE a = new -> [previous |-> node, next |-> NULL, value |-> v]
                          [] a = node /\ node # NULL -> [nodes[a] EXCEPT !.next = new]
                          [] OTHER -> nodes[a]]
        /\ list' = [head   |-> IF list.head = NULL THEN new ELSE list.head,
                    length |-> list.length + 1]
        /\ UNCHANGED halted

\* malloc has no memory for a node and its assert halts.
InsertHalts ==
    /\ ~halted /\ list # NoList
    /\ Used = Addr
    /\ halted' = TRUE
    /\ UNCHANGED <<list, nodes>>

Unlink(node, next) == IF list.head = node THEN next ELSE list.head

Shorter(n) == n - 1

\* The two stores of list_delete around node; either may go to NULL.
Bypass(node) ==
    LET previous == nodes[node].previous
        next     == nodes[node].next
    IN  [nodes EXCEPT ![previous].next = next, ![next].previous = previous]

\* list_delete(v): unlink the first node that holds v and free it.
Delete(v) ==
    LET node   == list_find(v)
        linked == Bypass(node)
    IN  /\ ~halted /\ list # NoList
        /\ node # NULL
        /\ nodes' = [a \in DOMAIN nodes \ {node} |-> linked[a]]
        /\ list' = [head   |-> Unlink(node, nodes[node].next),
                    length |-> Shorter(list.length)]
        /\ UNCHANGED halted

\* assert(node) of list_delete fails: v is not in the list.
DeleteHalts(v) ==
    /\ ~halted /\ list # NoList
    /\ list_find(v) = NULL
    /\ halted' = TRUE
    /\ UNCHANGED <<list, nodes>>

\* list_destroy: every node of the chain is freed, then the list.
Destroy ==
    /\ ~halted /\ list # NoList
    /\ nodes' = [a \in DOMAIN nodes \ ToSet(Chain(nodes, list.head)) |-> nodes[a]]
    /\ list' = NoList
    /\ UNCHANGED halted

Next ==
    \/ Create
    \/ \E v \in Values, new \in Addr \ Used : Insert(v, new)
    \/ InsertHalts
    \/ \E v \in Values : Delete(v) \/ DeleteHalts(v)
    \/ Destroy

Spec == Init /\ [][Next]_vars

-----------------------------------------------------------------------------
\* The state is well typed.
TypeOK ==
    /\ list \in [head : Addr \cup {NULL}, length : Nat] \cup {NoList}
    /\ DOMAIN nodes \subseteq Addr \cup {NULL}
    /\ \A a \in Used : nodes[a] \in [previous : Addr \cup {NULL},
                                     next     : Addr \cup {NULL},
                                     value    : Values]
    /\ halted \in BOOLEAN

\* length is the number of nodes a walk from head meets: scheduler_next walks
\* the list by counting to length and wrapping around.
LengthCounts == list # NoList => list.length = Len(Chain(nodes, list.head))

\* Every node malloc gave to the list is on the chain: list_delete and
\* list_destroy lose none, and free none that is still linked.
NoNodeLost == Used = ToSet(Chain(nodes, list.head))

\* previous is the inverse of next, so that list_delete, which finds the
\* neighbours of a node by following both, takes out that node and no other.
BackLinked ==
    LET chain == Chain(nodes, list.head)
    IN  \A k \in DOMAIN chain :
            nodes[chain[k]].previous = IF k = 1 THEN NULL ELSE chain[k - 1]

\* The linked list behaves as a sequence.
S == INSTANCE ListSeq WITH
        values <- [k \in DOMAIN Chain(nodes, list.head) |->
                        nodes[Chain(nodes, list.head)[k]].value],
        dead   <- halted

\* Values come back in the order they were inserted, whatever is deleted in
\* between, and a delete removes the first occurrence only.
IsSequence == S!Spec

=============================================================================

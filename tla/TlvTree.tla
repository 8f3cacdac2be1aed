-------------------------------- MODULE TlvTree --------------------------------
(***************************************************************************)
(* TLV trees in memory (main/backend/matter/tlv/std/tree.h, tlv.cpp): the  *)
(* tree_node variables of an application and the nodes in their lists of   *)
(* children, with the pointer every node has to its parent; what copying,  *)
(* moving, grafting and pruning does to them.                              *)
(***************************************************************************)
EXTENDS Naturals, FiniteSets, SequencesExt

CONSTANTS
  Locals,   \* the application's variables of type tree_node
  Cells,    \* addresses for the elements of std::list
  Null,
  Items,    \* what is put into a tree: records of tag and value
  MaxBuilt  \* bound: elements alive after a step

ASSUME AddressAssumption ==
  /\ IsFiniteSet(Locals) /\ IsFiniteSet(Cells)
  /\ Locals \intersect Cells = {} /\ Null \notin Locals \union Cells

ASSUME BuiltAssumption == MaxBuilt \in 0..Cardinality(Cells)

VARIABLE heap   \* alive; parent, item and children of every address

Addresses == Locals \union Cells
NoItem == [tag |-> 0, value |-> <<>>]

(* The tree at a node, as a value *)
TreeIn(h, n) ==
  LET tree[m \in Addresses] ==
        [tag |-> h.item[m].tag, value |-> h.item[m].value,
         kids |-> [i \in DOMAIN h.children[m] |-> tree[h.children[m][i]]]]
  IN  tree[n]
Tree(n) == TreeIn(heap, n)
-----------------------------------------------------------------------------
(* is_child_of goes up the pointers to the parents. *)
AncestorsIn(h, n) ==
  LET above[m \in Addresses] ==
        IF h.parent[m] = Null THEN {}
        ELSE {h.parent[m]} \union above[h.parent[m]]
  IN  above[n]
is_parent_of(n, m) == n \in AncestorsIn(heap, m)

(* A node and all that its list of children owns *)
Owned(h, n) ==
  LET owned[m \in Addresses] ==
        {m} \union UNION {owned[kid] : kid \in Range(h.children[m])}
  IN  owned[n]

Unused(h) == Cells \ h.alive

add_child(h, n, item) ==
  LET m == CHOOSE m \in Unused(h) : TRUE IN
  [h EXCEPT !.alive = @ \union {m}, !.parent[m] = n, !.item[m] = item,
            !.children[n] = Append(@, m)]

Call(n, o) == [to |-> n, from |-> o, next |-> 1]

(* The next child of a node is added, the children of that one are not.    *)
GraftFlat(s) ==
  LET call == Last(s.calls)
      kids == s.heap.children[call.from]
  IN  IF s.calls = <<>> THEN s
      ELSE IF call.next > Len(kids) THEN [s EXCEPT !.calls = Front(@)]
      ELSE [heap |-> add_child(s.heap, call.to, s.heap.item[kids[call.next]]),
            calls |-> [s.calls EXCEPT ![Len(s.calls)].next = @ + 1]]

(* The innermost call of graft that is under way goes on: it adds the next *)
(* child and calls graft for it, or has done with them and returns.        *)
GraftStep(s) ==
  LET call == Last(s.calls)
      kids == s.heap.children[call.from]
      kid == kids[call.next]
      g == add_child(s.heap, call.to, s.heap.item[kid])
  IN  IF s.calls = <<>> THEN s
      ELSE IF call.next > Len(kids) THEN [s EXCEPT !.calls = Front(@)]
      ELSE [heap |-> g,
            calls |-> Append([s.calls EXCEPT ![Len(s.calls)].next = @ + 1],
                             Call(Last(g.children[call.to]), kid))]

(* The loop over the children of o that grafts them to n, with all that it *)
(* calls: no node takes more than two steps.                               *)
GraftAll(h, n, o) ==
  LET last == 2 * Cardinality(Addresses)
      run[k \in 0..last] ==
        IF k = 0 THEN [heap |-> h, calls |-> <<Call(n, o)>>]
        ELSE GraftStep(run[k - 1])
  IN  run[last].heap

graft(h, n, node) ==
  LET g == add_child(h, n, h.item[node])
  IN  GraftAll(g, Last(g.children[n]), node)

(* Destruction of the elements of a list, and of all they own *)
Destroy(h, roots) ==
  LET gone == UNION {Owned(h, n) : n \in roots} IN
  [alive |-> h.alive \ gone,
   parent |-> [n \in Addresses |-> IF n \in gone THEN Null ELSE h.parent[n]],
   item |-> [n \in Addresses |-> IF n \in gone THEN NoItem ELSE h.item[n]],
   children |-> [n \in Addresses |->
                   IF n \in gone THEN <<>> ELSE h.children[n]]]

(* prune: the element of the list that is this very node *)
prune(h, n, node) ==
  IF node \notin Range(h.children[n]) THEN h
  ELSE LET i == CHOOSE i \in DOMAIN h.children[n] : h.children[n][i] = node
       IN  Destroy([h EXCEPT !.children[n] = RemoveAt(@, i)], {node})

(* The children of o become those of n, o is left with no item *)
TakeAll(h, n, o) ==
  [h EXCEPT !.item[n] = h.item[o], !.item[o] = NoItem,
            !.children[n] = h.children[o], !.children[o] = <<>>]

(* The children that were taken keep the parent they had *)
AdoptNone(h, n) == h

(* Every child learns where its parent is *)
Adopt(h, n) ==
  [h EXCEPT !.parent = [m \in Addresses |->
     IF m \in Range(h.children[n]) THEN n ELSE h.parent[m]]]

(* The node that is moved pruned before its children are taken *)
MovedPruneFirst(h, n, o) ==
  LET p == IF h.parent[o] # Null THEN prune(h, h.parent[o], o) ELSE h
      g == Destroy(TakeAll(p, n, o), Range(p.children[n]))
  IN  Adopt(g, n)

(* operator=(tree_node&&): the old children go, o among them if it is one  *)
(* of them or below; otherwise o is pruned where it hangs.                 *)
Moved(h, n, o) ==
  LET g == Destroy(TakeAll(h, n, o), Range(h.children[n]))
      p == IF o \in g.alive /\ h.parent[o] # Null
           THEN prune(g, h.parent[o], o) ELSE g
  IN  Adopt(p, n)

(* operator=(tree_node const&): the children that are there stay. *)
Copied(h, n, o) == GraftAll([h EXCEPT !.item[n] = h.item[o]], n, o)

Created(h, l, item) ==
  [h EXCEPT !.alive = @ \union {l}, !.item[l] = item]
-----------------------------------------------------------------------------
Init ==
  heap = [alive |-> {},
          parent |-> [n \in Addresses |-> Null],
          item |-> [n \in Addresses |-> NoItem],
          children |-> [n \in Addresses |-> <<>>]]

(* Room for k more elements: the bound.                                    *)
Room(k) == k + Cardinality(heap.alive \intersect Cells) <= MaxBuilt

Construct(l, item) == l \notin heap.alive /\ heap' = Created(heap, l, item)
EndOfScope(l) == l \in heap.alive /\ heap' = Destroy(heap, {l})
AddChild(n, item) ==
  n \in heap.alive /\ Room(1) /\ heap' = add_child(heap, n, item)

(* What graft and the assignments assert *)
NotAbove(o, n) == {n, o} \subseteq heap.alive /\ n # o /\ ~is_parent_of(o, n)

Graft(n, o) ==
  /\ NotAbove(o, n) /\ Room(Cardinality(Owned(heap, o)))
  /\ heap' = graft(heap, n, o)
CopyAssign(n, o) ==
  /\ NotAbove(o, n) /\ Room(Cardinality(Owned(heap, o)) - 1)
  /\ heap' = Copied(heap, n, o)
CopyConstruct(l, o) ==
  /\ l \notin heap.alive /\ o \in heap.alive
  /\ Room(Cardinality(Owned(heap, o)) - 1)
  /\ heap' = Copied(Created(heap, l, NoItem), l, o)
MoveAssign(n, o) == NotAbove(o, n) /\ heap' = Moved(heap, n, o)
MoveConstruct(l, o) ==
  /\ l \notin heap.alive /\ o \in heap.alive
  /\ heap' = Moved(Created(heap, l, NoItem), l, o)
Prune(n, o) == {n, o} \subseteq heap.alive /\ heap' = prune(heap, n, o)

Next ==
  \/ \E l \in Locals, item \in Items \union {NoItem} : Construct(l, item)
  \/ \E n \in Addresses, item \in Items : AddChild(n, item)
  \/ \E l \in Locals :
       \/ EndOfScope(l)
       \/ \E o \in Addresses : CopyConstruct(l, o) \/ MoveConstruct(l, o)
  \/ \E n, o \in Addresses :
       Graft(n, o) \/ CopyAssign(n, o) \/ MoveAssign(n, o) \/ Prune(n, o)

Spec == Init /\ [][Next]_heap
-----------------------------------------------------------------------------
(* Whatever is copied, moved, grafted and pruned, from one tree to another *)
(* or within one, every element hangs in exactly one list, that of the     *)
(* node it takes for its parent, and below a variable; so no pointer leads *)
(* to a node that is gone, and going up ends.  What is gone holds nothing. *)
OneOwner ==
  \A n \in Addresses :
    IF n \notin heap.alive
    THEN heap.parent[n] = Null /\ heap.item[n] = NoItem /\ heap.children[n] = <<>>
    ELSE IF n \in Locals THEN heap.parent[n] = Null
    ELSE /\ heap.parent[n] \in heap.alive
         /\ \A m \in Addresses :
              n \in Range(heap.children[m]) => m = heap.parent[n]
         /\ Cardinality({i \in DOMAIN heap.children[heap.parent[n]] :
                            heap.children[heap.parent[n]][i] = n}) = 1
         /\ \E l \in Locals \intersect heap.alive : n \in Owned(heap, l)

(* A tree that has nothing to do with the nodes of a step *)
Untouched(nodes) ==
  \A l \in Locals \intersect heap.alive :
    Owned(heap, l) \intersect nodes = {} => Tree(l)' = Tree(l)

(* A move gives the whole tree to its new place, also when it came from    *)
(* below that place, and leaves all other trees alone.                     *)
MoveKeepsTree ==
  [][\A n, o \in Addresses :
       MoveAssign(n, o) => Tree(n)' = Tree(o) /\ Untouched({n, o})]_heap

(* A copy is deep and leaves its original alone, also when it is put above *)
(* it in the same tree.                                                    *)
CopyIsDeep ==
  [][\A n, o \in Addresses :
       CopyAssign(n, o) =>
         /\ Tree(n)' = [Tree(o) EXCEPT !.kids = Tree(n).kids \o @]
         /\ Tree(o)' = Tree(o) /\ Untouched({n})]_heap
=============================================================================

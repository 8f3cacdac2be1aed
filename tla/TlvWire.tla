-------------------------------- MODULE TlvWire --------------------------------
(***************************************************************************)
(* A tree built element by element in one variable (TlvTree), encoded      *)
(* (TlvCodec), perhaps cut on the way, and decoded into another.           *)
(***************************************************************************)
EXTENDS TlvTree, TlvCodec

CONSTANT Cuts   \* bound: how many bytes may be missing of an encoding

VARIABLES
  wire,   \* the bytes of an encoding, <<>> while there is none
  sent,   \* the tree that was encoded
  phase   \* "build", "wire", "read"

wireVars == <<wire, sent, phase>>
allVars == <<heap, wireVars>>

NoTree == [tag |-> 0, value |-> <<>>, kids |-> <<>>]

(* add_child for every tree that deserialize_recursive finds *)
RECURSIVE Plant(_, _, _)
Plant(h, n, forest) ==
  FoldLeft(LAMBDA a, t :
             LET g == add_child(a, n, [tag |-> t.tag, value |-> t.value])
             IN  Plant(g, Last(g.children[n]), t.kids),
           h, forest)

RECURSIVE SizeOf(_)
SizeOf(forest) ==
  SumOf([i \in DOMAIN forest |-> 1 + SizeOf(forest[i].kids)])
-----------------------------------------------------------------------------
WireInit ==
  /\ Init /\ wire = <<>> /\ sent = NoTree /\ phase = "build"

Build(step) == phase = "build" /\ step /\ UNCHANGED wireVars

Serialize(n) ==
  /\ phase = "build" /\ n \in heap.alive
  /\ serialized(Tree(n)).ok
  /\ wire' = serialized(Tree(n)).bytes
  /\ sent' = Tree(n)
  /\ phase' = "wire"
  /\ UNCHANGED heap

(* Some bytes at the end are lost (external). *)
Cut ==
  /\ phase = "wire" /\ wire = serialized(sent).bytes
  /\ \E k \in Cuts \intersect 1..Len(wire) :
       wire' = SubSeq(wire, 1, Len(wire) - k)
  /\ UNCHANGED <<heap, sent, phase>>

(* The refusal of deserialize_recursive is not passed on *)
FoundAnyway == [deserialize_recursive(wire) EXCEPT !.ok = TRUE]

(* The result of deserialize, and the tree it leaves: a single tree takes  *)
(* the place of a node that has no tag.                                    *)
Found == deserialize_recursive(wire)
Deserialize(n) ==
  /\ phase = "wire" /\ n \in heap.alive
  /\ SizeOf(Found.forest) <= Cardinality(Unused(heap))
  /\ LET h == Plant(heap, n, Found.forest) IN
       heap' = IF Found.ok /\ h.item[n].tag = 0 /\ Len(h.children[n]) = 1
               THEN Moved(h, n, h.children[n][1]) ELSE h
  /\ phase' = "read"
  /\ UNCHANGED <<wire, sent>>

WireNext ==
  \/ \E l \in Locals, item \in Items \union {NoItem} : Build(Construct(l, item))
  \/ \E n \in Addresses, item \in Items : Build(AddChild(n, item))
  \/ \E n \in Addresses : Serialize(n)
  \/ Cut
  \/ \E l \in Locals : Deserialize(l)

WireSpec == WireInit /\ [][WireNext]_allVars
-----------------------------------------------------------------------------
(* The elements inside of which a length is computed that is not that of   *)
(* the bytes: the length of the length is taken of value and tag together, *)
(* and only the tag may bring it over a limit (below 65536 bytes).         *)
Awkward(t) ==
  LET tag == Len(serialize_tag(t.tag))
      size == IF tag_is_primitive(t.tag) THEN Len(t.value)
              ELSE Len(serialize_all(t.kids).bytes)
  IN  \/ size < 127 /\ tag + size >= 128
      \/ size < 256 /\ tag + size >= 256

(* Every element below the root of a tree *)
RECURSIVE Below(_)
Below(t) == Range(t.kids) \union UNION {Below(kid) : kid \in Range(t.kids)}

(* The children of a root without a tag are written without a length.      *)
AwkwardInside(t) ==
  \E kid \in IF t.tag # 0 THEN {t} ELSE Range(t.kids) :
    \E e \in Below(kid) : Awkward(e)

(* Children of a primitive element, which nothing forbids, are not written. *)
Writable(t) ==
  \A e \in {t} \union Below(t) :
    e.tag # 0 /\ tag_is_primitive(e.tag) => e.kids = <<>>

Fresh(n) == heap.item[n] = NoItem /\ heap.children[n] = <<>>

(* What an undamaged encoding should be read as *)
Uncut == wire = serialized(sent).bytes
Expected ==
  IF sent.tag = 0 /\ Len(sent.kids) = 1 THEN sent.kids[1] ELSE sent

(* A tree that is encoded and decoded again comes back as it was, exactly  *)
(* when the computed lengths are those of the bytes that were written.     *)
RoundTrip ==
  [][\A n \in Locals :
       Deserialize(n) /\ Fresh(n) /\ Uncut /\ Writable(sent) =>
         (Found.ok /\ Tree(n)' = Expected <=> ~AwkwardInside(sent))]_allVars

(* An encoding of one tree that was cut is refused, however little is      *)
(* missing.                                                                *)
CutIsRefused ==
  [][\A n \in Locals :
       Deserialize(n) /\ ~Uncut /\ wire # <<>>
         /\ sent.tag # 0 => ~Found.ok]_allVars
=============================================================================

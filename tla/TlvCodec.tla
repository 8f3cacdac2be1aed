------------------------------- MODULE TlvCodec -------------------------------
(***************************************************************************)
(* The encoding of TLV trees (main/backend/matter/tlv/tlv_tree.cpp).  A    *)
(* tree is a record of tag, value and children; a tag is a number of up to *)
(* four bytes, a value a sequence of bytes.                                *)
(*                                                                         *)
(* The length of a constructed element is computed before its children are *)
(* written, by other functions than those that write them.                 *)
(***************************************************************************)
EXTENDS Naturals, Sequences, SequencesExt

(* The i-th byte of a number in memory, the lowest first *)
ByteOf(number, i) == (number \div 256 ^ i) % 256

(* The count at which length_of_tag and length_of_length stop: at the      *)
(* first zero byte, the lowest one not looked at.  (What lies behind the   *)
(* fourth byte decides nothing, the count is cut to four.)                 *)
Span(number) ==
  CHOOSE k \in 1..4 :
    /\ k = 4 \/ ByteOf(number, k) = 0
    /\ \A i \in 1..k - 1 : ByteOf(number, i) # 0

length_of_tag(tag) == Span(tag)
length_of_length(length) == IF length < 128 THEN 1 ELSE Span(length) + 1

(* Bit 5 of the highest byte that is not zero *)
tag_is_primitive(tag) ==
  \E i \in 0..3 :
    /\ ByteOf(tag, i) # 0
    /\ \A k \in i + 1..3 : ByteOf(tag, k) = 0
    /\ (ByteOf(tag, i) \div 32) % 2 = 0

SumOf(numbers) == FoldLeft(LAMBDA a, b : a + b, 0, numbers)

(* The bytes of the length itself forgotten *)
RECURSIVE node_length_bare(_)
node_length_bare(t) ==
  length_of_tag(t.tag) +
    (IF tag_is_primitive(t.tag) THEN Len(t.value)
     ELSE SumOf([i \in DOMAIN t.kids |-> node_length_bare(t.kids[i])]))

(* An element with tag and length; the length of the length is that of the *)
(* size with the tag in it.                                                *)
RECURSIVE node_length_recursive(_)
node_length_recursive(t) ==
  LET size == length_of_tag(t.tag) +
              (IF tag_is_primitive(t.tag) THEN Len(t.value)
               ELSE SumOf([i \in DOMAIN t.kids |->
                             node_length_recursive(t.kids[i])]))
  IN  size + length_of_length(size)

(* What is written as the length of an element *)
node_length(t) ==
  IF tag_is_primitive(t.tag) THEN Len(t.value)
  ELSE SumOf([i \in DOMAIN t.kids |-> node_length_recursive(t.kids[i])])
-----------------------------------------------------------------------------
BigEndian(number, k) == [i \in 1..k |-> ByteOf(number, k - i)]

serialize_tag(tag) == BigEndian(tag, length_of_tag(tag))

(* Short form below 127, otherwise the count of bytes without leading      *)
(* zeroes, and the bytes                                                   *)
serialize_length(length) ==
  IF length < 127 THEN <<length>>
  ELSE LET k == CHOOSE k \in 1..4 : /\ k = 4 \/ length < 256 ^ k
                                    /\ 256 ^ (k - 1) <= length
       IN  <<128 + k>> \o BigEndian(length, k)

(* The bytes of an element and whether all of it could be written: tag 0   *)
(* cannot, and nothing is written after it.                                *)
RECURSIVE serialize_all(_), serialize_recursive(_)
serialize_all(kids) ==
  FoldLeft(LAMBDA a, t :
             IF ~a.ok THEN a
             ELSE LET b == serialize_recursive(t) IN
                  [ok |-> b.ok, bytes |-> a.bytes \o b.bytes],
           [ok |-> TRUE, bytes |-> <<>>], kids)
serialize_recursive(t) ==
  IF t.tag = 0 THEN [ok |-> FALSE, bytes |-> <<>>]
  ELSE LET head == serialize_tag(t.tag) \o serialize_length(node_length(t)) IN
       IF tag_is_primitive(t.tag)
       THEN [ok |-> TRUE, bytes |-> head \o t.value]
       ELSE LET b == serialize_all(t.kids) IN
            [ok |-> b.ok, bytes |-> head \o b.bytes]

(* serialize: a root without a tag stands for its children. *)
serialized(t) ==
  IF t.tag # 0 THEN serialize_recursive(t) ELSE serialize_all(t.kids)
-----------------------------------------------------------------------------
DropFirst(bytes, n) == SubSeq(bytes, n + 1, Len(bytes))
Refused == [ok |-> FALSE]

(* deserialize_tag: one byte, or more while the low five bits of the first *)
(* and then bit 7 of the last are set                                      *)
deserialize_tag(bytes) ==
  LET n == IF bytes = <<>> THEN 0
           ELSE IF bytes[1] % 32 # 31 THEN 1
           ELSE CHOOSE n \in 2..5 : /\ n = 5 \/ n > Len(bytes) \/ bytes[n] < 128
                                    /\ \A i \in 2..n - 1 : bytes[i] >= 128
      value[i \in 0..n] == IF i = 0 THEN 0 ELSE 256 * value[i - 1] + bytes[i]
  IN  IF bytes = <<>> \/ n > Len(bytes) \/ n > 4 THEN Refused
      ELSE IF bytes[1] = 0 THEN Refused
      ELSE [ok |-> TRUE, tag |-> value[n], rest |-> DropFirst(bytes, n)]

(* deserialize_length: an assertion fails where a long form says that no   *)
(* bytes follow; it is counted as a refusal here.                          *)
deserialize_length(bytes) ==
  IF bytes = <<>> THEN Refused
  ELSE IF bytes[1] < 128
       THEN [ok |-> TRUE, length |-> bytes[1], rest |-> DropFirst(bytes, 1)]
  ELSE LET k == bytes[1] - 128
           value[i \in 0..k] ==
             IF i = 0 THEN 0 ELSE 256 * value[i - 1] + bytes[i + 1]
       IN  IF k = 0 \/ k + 1 > Len(bytes) \/ k > 4 THEN Refused
           ELSE [ok |-> TRUE, length |-> value[k], rest |-> DropFirst(bytes, k + 1)]

(* The trees in bytes, up to the point where one is refused; the children  *)
(* read before that stay.                                                  *)
RECURSIVE deserialize_recursive(_)
deserialize_recursive(bytes) ==
  IF bytes = <<>> THEN [ok |-> TRUE, forest |-> <<>>]
  ELSE LET t == deserialize_tag(bytes)
           l == deserialize_length(t.rest)
           value == SubSeq(l.rest, 1, l.length)
           kids == deserialize_recursive(value)
           more == deserialize_recursive(DropFirst(l.rest, l.length))
           primitive == tag_is_primitive(t.tag)
           tree == [tag |-> t.tag,
                    value |-> IF primitive THEN value ELSE <<>>,
                    kids |-> IF primitive THEN <<>> ELSE kids.forest]
       IN  IF ~t.ok THEN [ok |-> FALSE, forest |-> <<>>]
           ELSE IF ~l.ok THEN [ok |-> FALSE, forest |-> <<>>]
           ELSE IF l.length > Len(l.rest) THEN [ok |-> FALSE, forest |-> <<>>]
           ELSE IF ~primitive /\ ~kids.ok
                THEN [ok |-> FALSE, forest |-> <<tree>>]
           ELSE [ok |-> more.ok, forest |-> <<tree>> \o more.forest]
=============================================================================

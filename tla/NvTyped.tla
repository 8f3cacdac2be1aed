-------------------------------- MODULE NvTyped --------------------------------
(***************************************************************************)
(* The wrappers of single values in flash (persistent/nv_typed.hpp).  An   *)
(* object holds a pointer to the name of its entry, not the name: every    *)
(* read and every write goes to NVS under whatever stands there then.  An  *)
(* entry belongs to a name and a type of NVS; Preferences keeps a float    *)
(* and a structure as bytes and a bool as an unsigned char.                *)
(***************************************************************************)
EXTENDS Naturals

CONSTANTS
  Objects,  \* wrappers
  Names,    \* what an entry may be called
  Places,   \* places in memory that hold a name
  Null,     \* no place, no entry, nothing written
  NaN,      \* what getFloat returns without an entry
  Noise     \* what is on the stack

ASSUME NullAssumption == Null \notin Places /\ Null \notin Nat

VARIABLES
  class,    \* the class of every object; never changes
  name,     \* what the characters at a place say
  at,       \* the field key: the place where an object looks for its name
  entry,    \* flash
  wrote     \* history: the value an object has a right to read, if any

typedVars == <<class, name, at, entry, wrote>>

Values == {0, 2}

(* The type a class writes under, the one it reads, what it reads without  *)
(* an entry, and whether it keeps only the truth of a value.               *)
Class(puts, gets, absent, truth) ==
  [puts |-> puts, gets |-> gets, absent |-> absent, truth |-> truth]

nv_t == Class("blob", "blob", Noise, FALSE)
nv_float == Class("blob", "blob", NaN, FALSE)
nv_uint8_t == Class("u8", "u8", 0, FALSE)
nv_uint32_t == Class("u32", "u32", 0, FALSE)
nv_int32_t_unsigned == Class("u32", "i32", 0, FALSE)  \* putUInt, getInt
nv_int32_t == Class("i32", "i32", 0, FALSE)
nv_bool == Class("u8", "u8", 0, TRUE)

Classes == {nv_t, nv_float, nv_uint8_t, nv_uint32_t, nv_int32_t, nv_bool}
Types == {"blob", "u8", "u32", "i32"}

Truth(v) == IF v = 0 THEN 0 ELSE 1
Kept(o, v) == IF class[o].truth THEN Truth(v) ELSE v

(* operator T, operator float, ... *)
Got(o) ==
  LET s == <<class[o].gets, name[at[o]]>>
  IN  IF at[o] = Null \/ entry[s] = Null THEN class[o].absent
      ELSE Kept(o, entry[s])
-----------------------------------------------------------------------------
TypedInit ==
  /\ class \in [Objects -> Classes]
  /\ name \in [Places -> Names]
  /\ at = [o \in Objects |-> Null]
  /\ entry = [s \in Types \X Names |-> Null]
  /\ wrote = [o \in Objects |-> Null]

(* setKey, or the constructor with a key: the pointer is copied *)
SetKey(o, t) ==
  /\ at' = [at EXCEPT ![o] = t]
  /\ wrote' = [wrote EXCEPT ![o] = Null]
  /\ UNCHANGED <<class, name, entry>>

(* operator =.  Preferences refuses an object without a key, and may refuse *)
(* any other write; nobody looks, and nothing happens.  What NVS does with  *)
(* entries of other types under the same name is not said: they may be lost.*)
Assign(o, v, lost) ==
  /\ at[o] # Null
  /\ LET n == name[at[o]]
         s == <<class[o].puts, n>>
     IN  /\ entry' = [e \in DOMAIN entry |->
                        IF e = s THEN Kept(o, v)
                        ELSE IF lost /\ e[2] = n THEN Null
                        ELSE entry[e]]
         /\ wrote' = [p \in Objects |->
                        IF p = o THEN v
                        ELSE IF at[p] # Null /\ name[at[p]] = n THEN Null
                        ELSE wrote[p]]
  /\ UNCHANGED <<class, name, at>>

(* The caller uses the place for another name: every object that looks     *)
(* there has another entry from now on.                                    *)
Reuse(t, n) ==
  /\ name' = [name EXCEPT ![t] = n]
  /\ wrote' = [o \in Objects |-> IF at[o] = t THEN Null ELSE wrote[o]]
  /\ UNCHANGED <<class, at, entry>>

TypedNext ==
  \/ \E o \in Objects, t \in Places : SetKey(o, t)
  \/ \E o \in Objects, v \in Values, lost \in BOOLEAN : Assign(o, v, lost)
  \/ \E t \in Places, n \in Names : Reuse(t, n)

TypedSpec == TypedInit /\ [][TypedNext]_typedVars
-----------------------------------------------------------------------------
(* What an object has written it reads, whatever the others write under    *)
(* other names and whatever places they look at, until its key or the text *)
(* of its key changes or somebody writes under the same name.              *)
TypedReadBack ==
  \A o \in Objects : wrote[o] # Null => Got(o) = Kept(o, wrote[o])
=============================================================================

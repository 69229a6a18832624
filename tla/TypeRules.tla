----------------------------- MODULE TypeRules ------------------------------
(***************************************************************************)
(* The type rules that every semantic handler leans on: class Type         *)
(* (sema2/type/Type.cpp), class TypeInstance (sema2/TypeInstance.cpp) and  *)
(* class Types (sema2/Types.cpp).                                          *)
(*                                                                         *)
(* Types::types is a map from names to types that never drops an entry,    *)
(* and a `Type const*` is a pointer to such an entry: a type is known by   *)
(* its name.  The operators take the map (tm); None marks a name that has  *)
(* no entry.  What is kept of a type is its classification, the enum it    *)
(* depends on, whether it has a nominal, a function's return type and, of  *)
(* members_order, a function's parameters and what an enum added: the      *)
(* fields a struct or union was made with are left out.                    *)
(***************************************************************************)
EXTENDS Naturals, Sequences

CONSTANTS
  UserTypeNames, \* names a program gives to its structs, enums, functions
  None,          \* nullptr or std::nullopt
  Failed,        \* a SemaError
  Aborted        \* a failed assert, or a read of an empty std::optional

IntTypes == {"i8", "i16", "i32", "i64", "u8", "u16", "u32", "u64"}
BuiltinTypes == IntTypes \cup {"void", "bool", "@_infer"}
TypeNames == BuiltinTypes \cup UserTypeNames

Classes == {"primitive", "function", "struct", "union", "enum"}

\* arr is array_size, 0 for a type that is no array.
TypeInstance == [type : TypeNames, ind : Nat, arr : Nat]

Type == [cls : Classes, dep : TypeNames, nominal : BOOLEAN,
         ret : TypeInstance \cup {None}, params : Seq(TypeInstance)]

OfType(t) == [type |-> t, ind |-> 0, arr |-> 0]
PointerTo(ti, n) == [type |-> ti.type, ind |-> ti.ind + n, arr |-> 0]

InferType == OfType("@_infer")
BoolType == OfType("bool")
VoidType == OfType("void")

-----------------------------------------------------------------------------
(* Type: the constructors.  get_dependent_type of a type that depends on    *)
(* no other is the type itself.                                             *)

PlainType(t, cls) ==
  [cls |-> cls, dep |-> t, nominal |-> FALSE, ret |-> None, params |-> <<>>]

EnumMember(t, cls, enum) ==
  [cls |-> cls, dep |-> enum, nominal |-> TRUE, ret |-> None, params |-> <<>>]

FunctionType(t, ret, params) ==
  [cls |-> "function", dep |-> t, nominal |-> FALSE, ret |-> ret,
   params |-> params]

(* Types: the constructor and define_type, an emplace that returns the type *)
(* already there when the name is taken.                                    *)

BuiltinMap ==
  [t \in TypeNames |->
     IF t \in BuiltinTypes THEN PlainType(t, "primitive") ELSE None]

\* Mutant: insert_or_assign instead of emplace.
DefineTypeAgain(tm, t, type) == [tm EXCEPT ![t] = type]

DefineType(tm, t, type) == [tm EXCEPT ![t] = IF @ = None THEN type ELSE @]

\* Mutant: the members replace what members_order has, as they do in the map.
SetEnumMembersAnew(tm, t, members) == [tm EXCEPT ![t].params = members]

\* set_enum_members: the members are put behind what members_order has already.
SetEnumMembers(tm, t, members) == [tm EXCEPT ![t].params = @ \o members]

-----------------------------------------------------------------------------
(* TypeInstance: every classification but is_integer_type's asks for a      *)
(* value of the type itself, not a pointer to it or an array of it.         *)

IsDirect(ti) == ti.arr = 0 /\ ti.ind = 0
HasClass(tm, ti, cls) == IsDirect(ti) /\ tm[ti.type].cls = cls
IsEnumType(tm, ti) == HasClass(tm, ti, "enum")
IsStructType(tm, ti) == HasClass(tm, ti, "struct")
IsUnionType(tm, ti) == HasClass(tm, ti, "union")
IsFunctionType(tm, ti) == HasClass(tm, ti, "function")
IsPointerType(ti) == ti.arr = 0 /\ ti.ind # 0

StorageType(tm, ti) == IF IsDirect(ti) THEN OfType(tm[ti.type].dep) ELSE ti

PointerElementType(ti) ==
  IF IsPointerType(ti) THEN [ti EXCEPT !.ind = @ - 1] ELSE Aborted

ArrayElementType(ti) == [ti EXCEPT !.arr = 0]

(* operator== leaves is_array_ and array_size out of the comparison.        *)
SameInstance(l, r) == l.ind = r.ind /\ l.type = r.type

IsInferType(ti) == ti.type = InferType.type

EqualTypes(l, r) ==
  IF IsInferType(l) \/ IsInferType(r) THEN l.type # r.type
                                      ELSE SameInstance(l, r)

(* A pointer to an integer counts as an integer: only arrays are excluded,  *)
(* a struct or a function never has the name of an integer type.            *)
IsIntegerType(ti) == ti.arr = 0 /\ ti.type \in IntTypes

IsSignedIntegerType(ti) ==
  IsIntegerType(ti) /\ ti.type \in {"i8", "i16", "i32", "i64"}

NonInferred(l, r) ==
  IF ~IsInferType(l) THEN l ELSE IF ~IsInferType(r) THEN r ELSE Aborted

(* compatible_binop_int_types and compatible_assign_int_types.              *)
CompatibleInts(l, r) == IsIntegerType(l) /\ IsIntegerType(r)
=============================================================================

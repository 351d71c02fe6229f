---------------------------- MODULE ElementTypes ----------------------------
(* ElementType, as far as a signature is made of it. *)
EXTENDS Naturals

Void == 1
Ptr == 15
ByRef == 16
Class == 18
Var == 19
Array == 20
GenericInst == 21
FnPtr == 27
SZArray == 29
CModReqd == 31
CModOpt == 32
Primitive == 2..14 \cup {24, 25, 28}
=============================================================================

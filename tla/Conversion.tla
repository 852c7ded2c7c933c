------------------------------ MODULE Conversion -----------------------------
(***************************************************************************)
(* Message conversion: rosextpy/ext_type_support.py.  What becomes of a ROS *)
(* message that one gateway turns into a dictionary, as text or as CBOR,    *)
(* and another turns back into a message of the same type.                  *)
(*                                                                          *)
(* Both directions are driven by the default value that a new message has   *)
(* in a field, so a type is known by these defaults:                        *)
(*   plain    numbers, strings, bytes, times: sent as they are, or in base64*)
(*   array    array.array, with the elements a new message starts with      *)
(*   numpy    numpy.ndarray of a fixed length, with its dtype               *)
(*   list     a Python list of items, declared as a sequence without bound, *)
(*            with a bound, or as a fixed array                             *)
(*   message  named fields                                                  *)
(*                                                                          *)
(* A message is given with its type, as a pair <<T, v>>; Depth knows every  *)
(* message under consideration and every part of one, with how deep it      *)
(* nests, so what the code computes by recursion is a recursive function.   *)
(***************************************************************************)
EXTENDS Naturals, Sequences

CONSTANT Depth

Plain              == [kind |-> "plain"]
Array(default)     == [kind |-> "array", default |-> default]
NumPy(dtype)       == [kind |-> "numpy", dtype |-> dtype]
List(declared, it) == [kind |-> "list", declared |-> declared, item |-> it]
Message(fields)    == [kind |-> "message", fields |-> fields]

\* Codecs of a dictionary: as text, or in binary form for CBOR and zip.
Forms == {"text", "bin"}

\* The items of a list and the fields of a message, with their types.
Parts(x) ==
    CASE x[1].kind = "list"    -> {<<x[1].item, x[2][i]>> : i \in DOMAIN x[2]}
      [] x[1].kind = "message" -> {<<x[1].fields[n], x[2][n]>> : n \in DOMAIN x[1].fields}
      [] OTHER                 -> {}

Typed == DOMAIN Depth

IsSequence(s) == Len(s) \in Nat /\ s = [i \in 1..Len(s) |-> s[i]]

\* The value has the shape that its type says.
IsOfType(x) ==
    /\ x[1].kind = "array" => IsSequence(x[1].default) /\ IsSequence(x[2])
    /\ x[1].kind = "list" => IsSequence(x[2])
    /\ x[1].kind = "message" => x[2] = [n \in DOMAIN x[1].fields |-> x[2][n]]

ASSUME ConversionAssumption ==
    /\ Depth \in [Typed -> Nat]
    /\ \A x \in Typed :
          /\ x = <<x[1], x[2]>> /\ IsOfType(x)
          /\ \A y \in Parts(x) : y \in Typed /\ Depth[y] < Depth[x]

-----------------------------------------------------------------------------
\* get_ros_list_type cuts the item type out of 'sequence<...>', and TypeLoader
\* knows messages only: not strings, not bounds, not fixed arrays.
LoadsItem(T) == T.declared = "sequence" /\ T.item.kind = "message"

\* numpy.array of a list of numbers has one of two dtypes, numpy.frombuffer of
\* bytes always the first; the setter of the field asserts its own.
KeepsDType(form, dtype) == dtype = "float64" \/ (form = "text" /\ dtype = "int64")

\* What raises by itself; a list's item type is loaded even for a list without
\* items.
PartRaises(form, T) ==
    \/ T.kind = "numpy" /\ ~KeepsDType(form, T.dtype)
    \/ T.kind = "list" /\ ~LoadsItem(T)

\* ros_from_text_dict and ros_from_bin_dict raise.
ConversionRaises[fx \in Forms \X Typed] ==
    \/ PartRaises(fx[1], fx[2][1])
    \/ \E y \in Parts(fx[2]) : ConversionRaises[<<fx[1], y>>]

\* Seeded bug: the items of a list are left out.
RebuiltWithoutItems(x, carried) ==
    IF x[1].kind = "list" THEN <<>>
    ELSE IF x[1].kind = "message"
         THEN [n \in DOMAIN x[1].fields |-> carried[<<x[1].fields[n], x[2][n]>>]]
         ELSE x[2]

\* A message out of its carried parts: frombytes appends what was sent to the
\* elements that the new message has already.
Rebuilt(x, carried) ==
    CASE x[1].kind = "array"   -> x[1].default \o x[2]
      [] x[1].kind = "list"    -> [i \in DOMAIN x[2] |-> carried[<<x[1].item, x[2][i]>>]]
      [] x[1].kind = "message" ->
            [n \in DOMAIN x[1].fields |-> carried[<<x[1].fields[n], x[2][n]>>]]
      [] OTHER                 -> x[2]

\* The message that arrives, if it does.
Carried[x \in Typed] == Rebuilt(x, [y \in Parts(x) |-> Carried[y]])

-----------------------------------------------------------------------------
\* The message has no array that starts with elements, at any depth.
StartsEmpty[x \in Typed] ==
    /\ x[1].kind = "array" => x[1].default = <<>>
    /\ \A y \in Parts(x) : StartsEmpty[y]

=============================================================================

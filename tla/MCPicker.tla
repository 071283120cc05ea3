------------------------------ MODULE MCPicker ------------------------------
(***************************************************************************)
(* Four commands over two letters, of which the picker opens with two,     *)
(* reads three and looks up two per query.  For "ba", "b-a" is the worse   *)
(* match in the better place.                                              *)
(***************************************************************************)
EXTENDS PickerProperties

Run1(t, o, near) == [start |-> t, outcome |-> o, near |-> near]

ab  == <<"a", "b">>
bma == <<"b", "-", "a">>
bAb == <<"b", "A", "b">>
a_b == <<"a", " ", "b">>

MCCommand == {ab, bma, bAb, a_b}
MCHistory ==
  [c \in MCCommand |->
     CASE c = ab  -> {Run1(1, "ok", {"dir"}), Run1(5, "failed", {})}
       [] c = bma -> {Run1(4, "interrupted", {"repo", "host"})}
       [] c = bAb -> {Run1(3, "neverRan", {}), Run1(6, "running", {"session"})}
       [] c = a_b -> {Run1(2, "imported", {})}]
MCLower == [u \in {"A"} |-> "a"]
MCLowerCase == {"a", "b"}
MCTyped == {"a", "b", " "}
MCInitial == {<< >>, <<"a">>}
MCSettings == {{x} : x \in Condition}
MCSeparator == {" ", "-"}
MCUpper == {"A"}
=============================================================================

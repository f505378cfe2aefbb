--------------------------- MODULE MCThreadReading ---------------------------
(* A second step that begins with a wordless turn, a third that ends so.    *)
EXTENDS ThreadReading

MCWordless == {[owner |-> 2, nth |-> 1], [owner |-> 3, nth |-> 2]}
=============================================================================

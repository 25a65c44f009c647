--------------------------- MODULE MCAccessControl ---------------------------
(* Constants for model-checking AccessControl. *)
EXTENDS AccessControl

CONSTANTS door, c1, c2

E(p, c, d) == [person |-> p, card |-> c, department |-> d]

\* One employee whom the door knows; a card that was given to another employee;
\* nobody whom the door knows.
SomeLists == {{E(1, c2, 1)}, {E(1, c1, 2), E(2, c1, 2)}, {E(1, c1, 2)}}
OneSystem == {door}
FirstDepartment == [s \in OneSystem |-> {1}]
SecondPerson == [s \in OneSystem |-> {2}]
=============================================================================

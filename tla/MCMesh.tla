------------------------------- MODULE MCMesh -------------------------------
(* Instances of Mesh for TLC: the boards stand in a line. *)
EXTENDS Mesh

CONSTANTS a, b, c, d

Line == {{a, b}, {b, c}, {c, d}}
ShortLine == {{a, b}, {b, c}}
ToBoxes == {c, Name, HexName}
ToAnyone == {Name}
=============================================================================

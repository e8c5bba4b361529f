------------------------ MODULE MCJT1078MediaParser ------------------------
(* Bodies for the model checker: none, and bodies that look like headers. *)
EXTENDS JT1078MediaParser

SmallBodies == {<<>>, <<1>>, <<3, 0>>}
=============================================================================

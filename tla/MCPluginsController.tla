------------------------- MODULE MCPluginsController -------------------------
(* Constants for model-checking PluginsController. *)
EXTENDS PluginsController

CONSTANTS p1, p2
ThreeLoaded == <<p1, Main, p2>>
AllSources == {p1, p2, Main}
OneThreaded == {p2}
OneReporting == {p1}
OneCode == {1}
OneState == {Error}
TwoWishes == {Terminate, Setup}
TwoSeverities == {"info", "fatal"}
=============================================================================

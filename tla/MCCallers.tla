----------------------------- MODULE MCCallers -----------------------------
(* Computers with up to two busses, each with up to two devices.            *)
EXTENDS Callers, SequencesExt

MCBusses == BoundedSeq(Devices, 1) \cup {<<"other", "opens">>, <<"refuses", "opens">>}
MCTrees == BoundedSeq(MCBusses, 2)
MCSamples == 1 .. MaxSample
MCRequests == {ToolRequest[p] : p \in DOMAIN ToolRequest} \cup {Get_Environment}
=============================================================================

------------------------------ MODULE MCConnect ------------------------------
(* Connections and their scripts on small instances.                       *)
EXTENDS MystConnect, TLC

=============================================================================

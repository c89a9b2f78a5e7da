------------------------------ MODULE MCPanelLink ------------------------------
(* Small instances of PanelLink; the constants are all in the cfg files. *)
EXTENDS PanelLink
==============================================================================

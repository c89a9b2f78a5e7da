------------------------------ MODULE MCPanelCall ------------------------------
(* A small instance of PanelCall; the constants are all in the cfg file. *)
EXTENDS PanelCall
===============================================================================

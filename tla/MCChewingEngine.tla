--------------------------- MODULE MCChewingEngine --------------------------
(* ChewingEngine on the dictionary of MCDictionary.                        *)
EXTENDS ChewingEngine, MCDictionary
=============================================================================

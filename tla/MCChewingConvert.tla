-------------------------- MODULE MCChewingConvert --------------------------
(* ChewingConvert on the dictionary of MCDictionary.                       *)
EXTENDS ChewingConvert, MCDictionary
=============================================================================

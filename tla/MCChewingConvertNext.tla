------------------------ MODULE MCChewingConvertNext ------------------------
(* ChewingConvertNext on the dictionary of MCDictionary.                   *)
EXTENDS ChewingConvertNext, MCDictionary
=============================================================================

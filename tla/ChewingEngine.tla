---------------------------- MODULE ChewingEngine ---------------------------
(***************************************************************************)
(* The two entry points of ChewingConversionEngine on the same sequence:  *)
(* convert runs to its end, then convert_next is called. The engine keeps *)
(* no state between calls (spec 5), so the calls share only seq and the   *)
(* dictionary.                                                             *)
(***************************************************************************)
EXTENDS ChewingConvert

CONSTANT MaxNext

VARIABLES next, at, stack, graph, paths, ci, trimmed, keeper, ti, drop, output

nextVars == <<next, at, stack, graph, paths, ci, trimmed, keeper, ti, drop, output>>
convertVars == <<phase, begin, end, k, best, intervals, todo, highest, result>>

N == INSTANCE ChewingConvertNext

EngineNext ==
    \/ Next /\ UNCHANGED nextVars
    \/ phase = "done" /\ N!Next /\ UNCHANGED convertVars

EngineSpec == Init /\ N!Init /\ [][EngineNext]_<<vars, nextVars>>

(* Spec 8: convert_next(seq, 0) agrees with convert(seq) whenever the     *)
(* trimmer keeps the path find_best_path chose.                            *)
NextZeroAgreesWithConvert ==
    /\ phase = "done" /\ at = "done" /\ next = 0
    /\ \E i \in DOMAIN trimmed : trimmed[i] = highest[n]
    => output = result
=============================================================================

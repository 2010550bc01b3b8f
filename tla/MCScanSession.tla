---------------------------- MODULE MCScanSession ----------------------------
(* ScanSession over three keys on three pages, one key on two of them.     *)
(* "all" has no filter, "ty" a type the server does not filter by, "pa" a  *)
(* pattern.                                                                *)
EXTENDS ScanSession

MCKeys    == {1, 2, 3}
MCFilters == {"all", "ty", "pa"}
MCPattern == [f \in MCFilters |-> IF f = "pa" THEN {3} ELSE MCKeys]
MCMatch   == [f \in MCFilters |->
                CASE f = "all" -> MCKeys [] f = "ty" -> {1, 2} [] f = "pa" -> {3}]
MCPages   == <<{1, 2}, {2}, {3}>>

=============================================================================

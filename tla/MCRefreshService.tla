-------------------------- MODULE MCRefreshService --------------------------
(***************************************************************************)
(* Instances of RefreshService.                                            *)
(***************************************************************************)
EXTENDS RefreshService

Flow(type, name, slot) == [type |-> type, name |-> name, slot |-> slot]

(* The flow gets another slot. *)
MCMoved == << <<Flow("internal", "web", 1)>>, <<Flow("internal", "web", 3)>> >>

(* Three flows, the last at a slot that does not exist; then none. *)
MCDropped == <<
    <<Flow("internal", "web", 1), Flow("external", "www", Unset), Flow("external", "shop", 144)>>,
    <<>> >>

(* Two flows, the config never edited. *)
MCSteady == << <<Flow("internal", "web", 1), Flow("external", "www", 2)>> >>

(* Two flows of a type, so that the job ids stay the same; then they are     *)
(* listed the other way round.                                               *)
MCReordered == <<
    <<Flow("internal", "web", 1), Flow("internal", "mail", 2)>>,
    <<Flow("internal", "mail", 2), Flow("internal", "web", 1)>> >>
=============================================================================

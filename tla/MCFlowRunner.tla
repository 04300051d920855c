---------------------------- MODULE MCFlowRunner ----------------------------
(***************************************************************************)
(* Instances of FlowRunner.  The flow is served in two forms, as after an  *)
(* edit of its config (or as two flows of one name): an internal one with  *)
(* a hook and an external one without; a third form has no name.           *)
(***************************************************************************)
EXTENDS FlowRunner

Internal == [type |-> "internal", sans |-> "a", script |-> TRUE, named |-> TRUE]
External == [type |-> "external", sans |-> "b", script |-> FALSE, named |-> TRUE]
Nameless == [type |-> "external", sans |-> "b", script |-> FALSE, named |-> FALSE]

MCSans == {"a", "b"}
MCForms == {Internal, External, Nameless}
MCOne == {Internal}
MCSame == {Internal, [type |-> "external", sans |-> "a", script |-> FALSE, named |-> TRUE]}
=============================================================================

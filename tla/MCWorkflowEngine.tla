---------------------------- MODULE MCWorkflowEngine ----------------------------
(* Instances of WorkflowEngine for TLC. *)
EXTENDS WorkflowEngine

(* The first workflow matches everything, the second what no action publishes. *)
MCTriggers == {<<EventTypes, {"crm.deal.won"}>>}

(* The first triggers itself, or the second triggers the first. *)
MCScripts == {<< <<"emit">>, <<"do">> >>, << <<"do">>, <<"emit">> >>}
=============================================================================

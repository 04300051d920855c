--------------------------- MODULE MCAgentLogging ---------------------------
(***************************************************************************)
(* An instance of AgentLogging: loggers of the agent and of a library, one *)
(* that set its own level among them, the settings of agent.py and two     *)
(* others that a process may go on to.                                     *)
(***************************************************************************)
EXTENDS AgentLogging, TLC

Library == <<"apscheduler">>
Scheduler == <<"apscheduler", "scheduler">>
Own == <<"apscheduler", "scheduler", "jobs">>
Agent == <<"refresh">>

MCNames == {Library, Scheduler, Own, Agent}

(* The library is imported first: its loggers are there, the agent's not. *)
MCBefore == Agent :> Absent @@ Library :> Absent @@ Scheduler :> NotSet @@ Own :> 10

MCSettings == {
    [level |-> "INFO", loggers |-> Library :> "WRN", use_queue |-> TRUE],
    [level |-> "none of them", loggers |-> Library :> "ERR" @@ Scheduler :> "TRC", use_queue |-> TRUE],
    [level |-> "DBG", loggers |-> <<>>, use_queue |-> FALSE]}
=============================================================================

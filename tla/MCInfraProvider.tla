---------------------------- MODULE MCInfraProvider ----------------------------
(* Two workspaces that manage the provider of one name. *)
EXTENDS InfraProvider
CONSTANTS w1, w2
MCWorkspaces == {w1, w2}
================================================================================

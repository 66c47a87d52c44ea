---------------------------- MODULE MCServiceAccount ----------------------------
(* One resource, two roles, lifetimes of one tick and of two, one that is refused. *)
EXTENDS ServiceAccount, TLC

CONSTANTS Reader, Admin

MCRoles == {Reader, Admin}

Config(role, ttl, trigger) == [role |-> role, ttl |-> ttl, trigger |-> trigger]

\* An inherited and an explicit role, a changed trigger, a ttl above the maximum.
MCConfigs == {Config(Unset, 1, 1), Config(Reader, 1, 1), Config(Unset, 1, 2), Config(Unset, 3, 1)}

================================================================================

-------------------------- MODULE MCInstallationMedia --------------------------
(* Two factories, the name of one ending in a slash, and every shape of a preset. *)
EXTENDS InstallationMedia

CONSTANTS a, b

MCPrimaries == {[host |-> a, slash |-> TRUE]}
MCSecondaries == {Null, [host |-> b, slash |-> FALSE]}

Plan(version, shape, secureBoot, extras) ==
  [version |-> version, content |-> [shape |-> shape, secureBoot |-> secureBoot, extras |-> extras]]
Pin(v, prefix) == [v |-> v, prefix |-> prefix]
MCPlans == {Plan(Null, "metal", FALSE, "x"), Plan(Pin("v1", FALSE), "metal", FALSE, "x"),
            Plan(Pin("v2", TRUE), "sbc", FALSE, "y"), Plan(Null, "sbc", TRUE, "y"),
            Plan(Pin("v1", TRUE), "cloud", TRUE, "x")}

Request(format, ttl) == [format |-> format, ttl |-> ttl]
MCRequests == {Request(Null, Null), Request("raw", Null), Request(Null, "0s")}
================================================================================

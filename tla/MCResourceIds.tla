----------------------------- MODULE MCResourceIds -----------------------------
(* Clusters, sets and names that are one another's beginnings and ends, with and without dashes. *)
EXTENDS ResourceIds

a == <<"a">>
b == <<"b">>
ab == <<"a", "b">>
a_b == <<"a", "-", "b">>
b_workers == <<"b", "-", "workers">>

None == [x \in Attributes |-> Null]

Named(kind, weights, names) ==
  {[None EXCEPT !.kind = kind, !.weight = w, !.name = n] : w \in weights, n \in names}

\* Scopes: of a cluster, of one of its sets, of one of its machines, of a bare machine.
Scoped(r) == {[r EXCEPT !.cluster = c] : c \in {a, ab, a_b}}
        \cup {[r EXCEPT !.cluster = a, !.machineSet = s] : s \in {a_b, a \o Dash \o Workers}}
        \cup {[r EXCEPT !.cluster = c, !.clusterMachine = <<"uuid">>] : c \in {a, ab}}

Patches == UNION {Scoped(r) : r \in Named("patch", {-5, 7}, {b, a_b}) \cup Named("patch", {50, 1000}, {b})}
             \cup {[r EXCEPT !.machine = <<"uuid">>] : r \in Named("patch", {400}, {b})}
             \cup {[r EXCEPT !.cluster = a] : r \in Named("patch", {7}, {<<"b", "b">>})}
Manifests == {[r EXCEPT !.cluster = a_b] : r \in Named("manifest", {7, 400}, {b})}
Extensions == Scoped([None EXCEPT !.kind = "extensions"])
Sets == {[None EXCEPT !.kind = "machineSet", !.cluster = c, !.role = "controlplane"] : c \in {a, a_b}}
   \cup {[None EXCEPT !.kind = "machineSet", !.cluster = c, !.role = "workers", !.name = n] :
           c \in {a, a_b}, n \in {Null, b, Workers, b_workers, ControlPlanes}}

MCResources == Patches \cup Manifests \cup Extensions \cup Sets
================================================================================

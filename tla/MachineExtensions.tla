--------------------------- MODULE MachineExtensions ---------------------------
(***************************************************************************)
(* The omni_machine_extensions resource (omni_machine_extensions_          *)
(* resource.go): the extensions of a cluster or of a narrower scope, which *)
(* labels carry and from which the ID is made.                             *)
(***************************************************************************)
EXTENDS Naturals

CONSTANTS Null, Unknown,
          Clusters, MachineSets, Machines,
          ExtensionSets    \* sets that may be configured; Null may be an element

Kind == "machine_extensions"

\* selector: at most one of its attributes is set (resourcevalidator.Conflicting).
Selectors == {[machineSet |-> s, clusterMachine |-> Null] : s \in MachineSets \cup {Null}}
        \cup {[machineSet |-> Null, clusterMachine |-> n] : n \in Machines}

Configs == [cluster : Clusters, selector : {Null} \cup Selectors, extensions : ExtensionSets]

Ids == Clusters \cup MachineSets \cup Machines

\* Others may set both labels.
Scopes == [machineSet : {Null} \cup MachineSets, clusterMachine : {Null} \cup Machines]

Models == [id : {Unknown} \cup Ids, cluster : {Null} \cup Clusters, selector : {Null} \cup Scopes,
           extensions : {Null} \cup ExtensionSets]

Objects == [id : Ids, cluster : {Null} \cup Clusters, machineSet : {Null} \cup MachineSets,
            clusterMachine : {Null} \cup Machines,
            extensions : {s \in ExtensionSets : Null \notin s}]

IdOf(o) == o.id
IdIn(m) == m.id
Blank(id) == [id |-> id, cluster |-> Null, selector |-> Null, extensions |-> Null]

Planned(c, m) == [id |-> IF m = Null THEN Unknown ELSE m.id,
                  cluster |-> c.cluster, selector |-> c.selector, extensions |-> c.extensions]

\* The scope forces a replacement.
Replaces(p, m) == p.cluster # m.cluster \/ p.selector # m.selector

\* applyExtensions: ElementsAs refuses a null element.
Accepts(p) == Null \notin p.extensions

Narrowed(p, attribute) == IF p.selector = Null THEN Null ELSE p.selector[attribute]

\* targetSuffix: the narrowest scope.
TargetSuffix(p) ==
  IF Narrowed(p, "clusterMachine") # Null THEN Narrowed(p, "clusterMachine")
  ELSE IF Narrowed(p, "machineSet") # Null THEN Narrowed(p, "machineSet")
  ELSE p.cluster

NewObject(p) == [id |-> TargetSuffix(p), cluster |-> p.cluster,
                 machineSet |-> Narrowed(p, "machineSet"),
                 clusterMachine |-> Narrowed(p, "clusterMachine"),
                 extensions |-> p.extensions]

\* The extensions are all an update changes.
Applied(p, o) == [o EXCEPT !.extensions = p.extensions]

\* Create sets the ID in the plan.
Stored(p, o) == [p EXCEPT !.id = o.id]

\* configToModel: the cluster is read from its label, the selector rebuilt from those that
\* narrow; without one they stay as they are in the state.
ToModel(o, m) ==
  [id |-> o.id, extensions |-> o.extensions,
   cluster |-> IF o.cluster # Null THEN o.cluster ELSE m.cluster,
   selector |-> IF o.machineSet = Null /\ o.clusterMachine = Null THEN m.selector
                ELSE [machineSet |-> o.machineSet, clusterMachine |-> o.clusterMachine]]

\* What a configuration means: its extensions, for the machines of its scope.
Meets(c, o) == /\ o.extensions = c.extensions /\ o.cluster = c.cluster
               /\ o.machineSet = Narrowed(c, "machineSet")
               /\ o.clusterMachine = Narrowed(c, "clusterMachine")

\* Whether the labels tell the scope that a state has.
ScopeTold(o, m) ==
  /\ m.cluster # Null => o.cluster # Null
  /\ m.selector \in Scopes /\ m.selector # [machineSet |-> Null, clusterMachine |-> Null] =>
       o.machineSet # Null \/ o.clusterMachine # Null

\* Others edit the extensions, and set and remove labels.
Foreign(o) == {[o EXCEPT !.extensions = s] : s \in {e \in ExtensionSets : Null \notin e}}
                \cup {[o EXCEPT !.cluster = c] : c \in {Null} \cup Clusters}
                \cup {[o EXCEPT !.machineSet = s] : s \in {Null} \cup MachineSets}
                \cup {[o EXCEPT !.clusterMachine = n] : n \in {Null} \cup Machines}

================================================================================

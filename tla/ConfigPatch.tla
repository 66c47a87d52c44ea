------------------------------ MODULE ConfigPatch ------------------------------
(***************************************************************************)
(* The omni_config_patch resource (omni_config_patch_resource.go): its ID  *)
(* carries the weight, a target and the name; labels carry the scope.  IDs *)
(* are kept in their parts; ResourceIds has them as texts.                 *)
(***************************************************************************)
EXTENDS Integers

CONSTANTS Null, Unknown,
          PatchNames, Weights, Clusters, MachineSets, Machines, Data

Kind == "config_patch"
DefaultWeight == 400
BadData == "controlled by Omni"     \* ValidateConfigPatch refuses it

\* selector: at most one of its attributes is set (resourcevalidator.Conflicting).
Selectors == {[machineSet |-> s, clusterMachine |-> Null, machine |-> Null] : s \in MachineSets}
        \cup {[machineSet |-> Null, clusterMachine |-> s, machine |-> Null] : s \in Machines}
        \cup {[machineSet |-> Null, clusterMachine |-> Null, machine |-> s] : s \in Machines}

Empty == [machineSet |-> Null, clusterMachine |-> Null, machine |-> Null]

\* resourcevalidator.ExactlyOneOf: a cluster or a bare machine.
Rooted(c) == (c.cluster # Null) # (c.selector # Null /\ c.selector.machine # Null)

Configs == {c \in [name : PatchNames, weight : {Null} \cup Weights, data : Data \cup {BadData},
                   cluster : {Null} \cup Clusters, selector : {Null, Empty} \cup Selectors] :
              Rooted(c)}

Targets == Clusters \cup MachineSets \cup Machines

Ids == [weight : Weights \cup {DefaultWeight}, target : Targets, name : PatchNames]

Scopes == [machineSet : {Null} \cup MachineSets, clusterMachine : {Null} \cup Machines,
           machine : {Null} \cup Machines]

Models == [id : {Unknown} \cup Ids,
           name : {Null} \cup PatchNames \cup (Targets \X PatchNames)
                    \cup (Weights \X Targets \X PatchNames),
           weight : {Null, 0, DefaultWeight} \cup Weights,
           data : {Null, BadData} \cup Data, cluster : {Null} \cup Clusters,
           selector : {Null} \cup Scopes]

Objects == [id : Ids, nameAnnotation : {Null} \cup PatchNames, data : Data,
            cluster : {Null} \cup Clusters, machineSet : {Null} \cup MachineSets,
            clusterMachine : {Null} \cup Machines, machine : {Null} \cup Machines]

IdOf(o) == o.id
IdIn(m) == m.id
Blank(id) == [id |-> id, name |-> Null, weight |-> Null, data |-> Null, cluster |-> Null,
              selector |-> Null]

\* The default of the weight left to Omni.
PlannedWithoutDefault(c, m) ==
  [id |-> IF m = Null THEN Unknown ELSE m.id,
   name |-> c.name, weight |-> c.weight, data |-> c.data, cluster |-> c.cluster,
   selector |-> c.selector]

\* Everything but the ID is the user's; the weight has a default.
Planned(c, m) ==
  [id |-> IF m = Null THEN Unknown ELSE m.id,
   name |-> c.name, weight |-> IF c.weight = Null THEN DefaultWeight ELSE c.weight,
   data |-> c.data, cluster |-> c.cluster, selector |-> c.selector]

\* Everything but the data.
Replaces(p, m) == [p EXCEPT !.data = m.data] # m

Accepts(p) == p.data # BadData

\* scopeLabels
Selected(p) == IF p.selector = Null THEN Empty ELSE p.selector

\* targetSuffix: the narrowest scope.
TargetSuffix(p) ==
  LET s == Selected(p)
  IN  IF s.machine # Null THEN s.machine
      ELSE IF s.clusterMachine # Null THEN s.clusterMachine
      ELSE IF s.machineSet # Null THEN s.machineSet
      ELSE p.cluster

NewObject(p) ==
  LET s == Selected(p)
  IN  [id |-> [weight |-> p.weight, target |-> TargetSuffix(p), name |-> p.name],
       nameAnnotation |-> p.name, data |-> p.data, cluster |-> p.cluster,
       machineSet |-> s.machineSet, clusterMachine |-> s.clusterMachine, machine |-> s.machine]

\* applyData: the data is all an update changes.
Applied(p, o) == [o EXCEPT !.data = p.data]

\* Create sets the ID in the plan.
Stored(p, o) == [p EXCEPT !.id = o.id]

\* parseConfigPatchID: all that follows the weight is the name, the target included; a negative
\* weight does not parse: it is 0 then, and the whole ID is the name.
WeightInId(id) == IF id.weight < 0 THEN 0 ELSE id.weight
NameInId(id) == IF id.weight < 0 THEN <<id.weight, id.target, id.name>> ELSE <<id.target, id.name>>

\* Read: name and weight from the ID, the name rather from the annotation; the scope from the
\* labels.  A label that is missing leaves the attribute as it is in the state.
ToModel(o, m) ==
  [id |-> o.id,
   name |-> IF o.nameAnnotation # Null THEN o.nameAnnotation ELSE NameInId(o.id),
   weight |-> WeightInId(o.id),
   data |-> o.data,
   cluster |-> IF o.cluster # Null THEN o.cluster ELSE m.cluster,
   selector |-> IF o.machineSet # Null \/ o.clusterMachine # Null \/ o.machine # Null
                  THEN [machineSet |-> o.machineSet, clusterMachine |-> o.clusterMachine,
                        machine |-> o.machine]
                  ELSE m.selector]

\* What a configuration means: its data, for the machines of its scope.
Meets(c, o) ==
  /\ o.data = c.data /\ o.cluster = c.cluster
  /\ [machineSet |-> o.machineSet, clusterMachine |-> o.clusterMachine, machine |-> o.machine]
       = Selected(c)

\* Whether the labels tell the scope that a state has: Read keeps it when they do not.
ScopeTold(o, m) ==
  /\ m.cluster # Null => o.cluster # Null
  /\ m.selector \in Scopes /\ m.selector # Empty =>
       o.machineSet # Null \/ o.clusterMachine # Null \/ o.machine # Null

\* Others edit the data, drop the annotation, and set and remove labels.
Foreign(o) == {[o EXCEPT !.data = d] : d \in Data}
                \cup {[o EXCEPT !.nameAnnotation = Null]}
                \cup {[o EXCEPT !.cluster = c] : c \in {Null} \cup Clusters}
                \cup {[o EXCEPT !.machineSet = s] : s \in {Null} \cup MachineSets}
                \cup {[o EXCEPT !.clusterMachine = n] : n \in {Null} \cup Machines}
                \cup {[o EXCEPT !.machine = n] : n \in {Null} \cup Machines}

================================================================================

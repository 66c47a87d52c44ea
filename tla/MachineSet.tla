------------------------------ MODULE MachineSet ------------------------------
(***************************************************************************)
(* The omni_machine_set resource (omni_machine_set_resource.go): IDs, how  *)
(* a plan is written into a MachineSet object and read back.  Of the three *)
(* strategies, "update" stands for itself (it defaults to Rolling) and     *)
(* "delete" for delete and upgrade (they default to Unset).                *)
(*                                                                         *)
(* Sizes and parallelism are stored as 32-bit unsigned numbers; Word is    *)
(* the number of values they have.                                         *)
(***************************************************************************)
EXTENDS Integers

CONSTANTS Null, Unknown,
          Clusters,
          Names,     \* names of additional worker sets
          Sizes,     \* numbers that may be configured
          Updates, Deletes, ClassBlocks, \* blocks that may be configured
          Classes,   \* machine classes
          Snapshots, \* etcd snapshots of bootstrap_spec
          Word

Kind == "machine_set"
SetRoles == {"controlplane", "workers"}
Types == {"Unset", "Rolling"}
Allocations == {"Static", "Unlimited"}
ControlPlanes == "control-planes"
Workers == "workers"
WholeId == "whole ID"   \* stands for the ID of an object, as a name

Counts == {0} \cup {n % Word : n \in Sizes}

--------------------------------------------------------------------------------
(* Attributes *)

Strategies(numbers) == [type : Types, par : {Null} \cup numbers]
ClassModels(allocs, numbers) == [class : Classes, size : {Null} \cup numbers, alloc : allocs]

\* ValidateConfig: static allocation, the default, needs a size; a control plane has no name
\* of its own, workers no bootstrap_spec.
ValidClass(mc) == mc # Null /\ mc.alloc \in {Null, "Static"} => mc.size # Null

Valid(c) == /\ ValidClass(c.class)
            /\ c.role = "controlplane" => c.name = Null
            /\ c.role = "workers" => c.boot = Null

Configs == {c \in [cluster : Clusters, name : {Null} \cup Names, role : SetRoles,
                   update : {Null} \cup Updates, delete : {Null} \cup Deletes,
                   class : {Null} \cup ClassBlocks,
                   boot : {Null} \cup Snapshots] : Valid(c)}

Ids == [cluster : Clusters, suffix : Names \cup {ControlPlanes, Workers}]

Models == [id : {Unknown} \cup Ids,
           cluster : {Null} \cup Clusters,
           name : {Null, Unknown, ControlPlanes, Workers, WholeId} \cup Names,
           role : {Null} \cup SetRoles,
           update : {Null} \cup Strategies(Sizes \cup Counts),
           delete : {Null} \cup Strategies(Sizes \cup Counts),
           class : {Null} \cup ClassModels({Null, Unknown} \cup Allocations, Sizes \cup Counts),
           boot : {Null} \cup Snapshots]

Objects == [id : Ids, cluster : {Null} \cup Clusters, role : {Null} \cup SetRoles,
            update : Strategies(Counts), delete : Strategies(Counts),
            alloc : {Null} \cup [class : Classes, count : Counts, type : Allocations],
            boot : {Null} \cup Snapshots]

IdOf(o) == o.id
IdIn(m) == m.id
Blank(id) == [id |-> id, cluster |-> Null, name |-> Null, role |-> Null, update |-> Null,
              delete |-> Null, class |-> Null, boot |-> Null]

--------------------------------------------------------------------------------
(* The plan *)

\* The allocation type is computed when it is left out: unknown if anything else changes,
\* and otherwise what the state has.
WithAllocation(mc, alloc) ==
  IF mc # Null /\ mc.alloc = Null THEN [mc EXCEPT !.alloc = alloc] ELSE mc

PlannedWith(c, m, alloc) ==
  [id |-> IF m = Null THEN Unknown ELSE m.id,
   cluster |-> c.cluster,
   name |-> IF c.name # Null THEN c.name ELSE IF m = Null THEN Unknown ELSE m.name,
   role |-> c.role, update |-> c.update, delete |-> c.delete,
   class |-> WithAllocation(c.class, alloc), boot |-> c.boot]

Planned(c, m) ==
  IF m = Null \/ m.class = Null THEN PlannedWith(c, m, Unknown)
  ELSE IF PlannedWith(c, m, m.class.alloc) = m THEN m
  ELSE PlannedWith(c, m, Unknown)

\* name, cluster, role and bootstrap_spec force a replacement.
Replaces(p, m) == p.cluster # m.cluster \/ p.name # m.name \/ p.role # m.role \/ p.boot # m.boot

Accepts(p) == p.boot # Null => p.role = "controlplane"

\* machineSetID: "<cluster>-<suffix>"; kept a pair.
MachineSetID(p) ==
  [cluster |-> p.cluster,
   suffix |-> IF p.role = "controlplane" THEN ControlPlanes
              ELSE IF p.name \in {Null, Unknown} THEN Workers ELSE p.name]

--------------------------------------------------------------------------------
(* Writing and reading *)

ToUint32(n) == n % Word

StrategyToSpec(s) == [type |-> s.type, par |-> IF s.par = Null THEN Null ELSE ToUint32(s.par)]

\* The block kept as it was configured: drift does not show.
ExistingStrategy(spec, existing) == existing

\* A block the user never configured stays absent; drift shows in blocks that are there.
StrategyFromSpec(spec, existing) == IF existing = Null THEN Null ELSE spec

Allocation(mc) ==
  [class |-> mc.class, count |-> IF mc.size = Null THEN 0 ELSE ToUint32(mc.size),
   type |-> IF mc.alloc = "Unlimited" THEN "Unlimited" ELSE "Static"]

OrDefault(s, type) == IF s = Null THEN [type |-> type, par |-> Null] ELSE StrategyToSpec(s)

\* applyMachineSetModel and setMachineSetLabels.  Blocks that are left out go back to the
\* defaults.
Applied(p, o) ==
  [id |-> o.id, cluster |-> p.cluster, role |-> p.role,
   update |-> OrDefault(p.update, "Rolling"), delete |-> OrDefault(p.delete, "Unset"),
   alloc |-> IF p.class = Null THEN Null ELSE Allocation(p.class),
   boot |-> p.boot]

NewObject(p) == Applied(p, [id |-> MachineSetID(p)])

ClassToModel(alloc, existing) ==
  IF alloc = Null THEN Null
  ELSE [class |-> alloc.class, alloc |-> alloc.type,
        size |-> IF alloc.count > 0 \/ (existing # Null /\ existing.size # Null)
                   THEN alloc.count ELSE Null]

\* machineSetNameFromID strips the cluster, where one is known: it leaves the suffix.
NameFromId(id, cluster) == IF cluster = id.cluster THEN id.suffix ELSE WholeId

\* machineSetToModel: a label that is missing leaves cluster or role as it is in the state.
Labelled(label, existing) == IF label # Null THEN label ELSE existing

ToModel(o, m) ==
  [id |-> o.id, cluster |-> Labelled(o.cluster, m.cluster),
   name |-> NameFromId(o.id, Labelled(o.cluster, m.cluster)), role |-> Labelled(o.role, m.role),
   update |-> StrategyFromSpec(o.update, m.update),
   delete |-> StrategyFromSpec(o.delete, m.delete),
   class |-> ClassToModel(o.alloc, m.class),
   boot |-> o.boot]

\* Create and Update read the object they wrote into the plan.
Stored(p, o) == ToModel(o, p)

--------------------------------------------------------------------------------
\* What a configuration means: strategies that are configured, the allocation with its type
\* and, for static allocation, its size.
StrategyMet(s, spec) == s # Null => spec = s

Meets(c, o) ==
  /\ o.cluster = c.cluster /\ o.role = c.role /\ o.boot = c.boot
  /\ StrategyMet(c.update, o.update) /\ StrategyMet(c.delete, o.delete)
  /\ (c.class = Null) = (o.alloc = Null)
  /\ c.class # Null => /\ o.alloc.class = c.class.class
                       /\ c.class.alloc # Null => o.alloc.type = c.class.alloc
                       /\ c.class.size # Null => o.alloc.count = c.class.size

\* Whether the labels tell the scope that a state has.
ScopeTold(o, m) == (m.cluster # Null => o.cluster # Null) /\ (m.role # Null => o.role # Null)

\* Others change strategies and allocation, and remove labels.
Foreign(o) == {[o EXCEPT !.update = OrDefault(s, "Rolling")] : s \in {Null} \cup Updates}
                \cup {[o EXCEPT !.delete = OrDefault(s, "Unset")] : s \in {Null} \cup Deletes}
                \cup {[o EXCEPT !.alloc = Allocation(b)] : b \in ClassBlocks}
                \cup {[o EXCEPT !.alloc = Null]}
                \cup {[o EXCEPT !.cluster = Null], [o EXCEPT !.role = Null]}

================================================================================

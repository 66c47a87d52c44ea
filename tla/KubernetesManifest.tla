--------------------------- MODULE KubernetesManifest ---------------------------
(***************************************************************************)
(* The omni_kubernetes_manifest resource (omni_kubernetes_manifest_        *)
(* resource.go): manifests for a cluster, with an ID made like that of a   *)
(* config patch.  IDs are kept in their parts; ResourceIds has them as     *)
(* texts.                                                                  *)
(***************************************************************************)
EXTENDS Integers

CONSTANTS Null, Unknown, PatchNames, Weights, Clusters, Data

Kind == "kubernetes_manifest"
DefaultWeight == 400
Modes == {"full", "one-time"}

Configs == [name : PatchNames, weight : {Null} \cup Weights, mode : Modes, data : Data,
            cluster : Clusters]

Ids == [weight : Weights \cup {DefaultWeight}, target : Clusters, name : PatchNames]

Models == [id : {Unknown} \cup Ids,
           name : {Null} \cup PatchNames \cup (Clusters \X PatchNames)
                    \cup (Weights \X Clusters \X PatchNames),
           weight : {Null, 0, DefaultWeight} \cup Weights, mode : {Null} \cup Modes,
           data : {Null} \cup Data, cluster : {Null} \cup Clusters]

Objects == [id : Ids, nameAnnotation : {Null} \cup PatchNames, mode : Modes, data : Data,
            cluster : {Null} \cup Clusters]

IdOf(o) == o.id
IdIn(m) == m.id
Blank(id) == [id |-> id, name |-> Null, weight |-> Null, mode |-> Null, data |-> Null,
              cluster |-> Null]

Planned(c, m) ==
  [id |-> IF m = Null THEN Unknown ELSE m.id, name |-> c.name,
   weight |-> IF c.weight = Null THEN DefaultWeight ELSE c.weight,
   mode |-> c.mode, data |-> c.data, cluster |-> c.cluster]

\* Everything but the mode and the data.
Replaces(p, m) == [p EXCEPT !.mode = m.mode, !.data = m.data] # m

Accepts(p) == TRUE

\* applyManifest
Applied(p, o) == [o EXCEPT !.mode = p.mode, !.data = p.data]

NewObject(p) == [id |-> [weight |-> p.weight, target |-> p.cluster, name |-> p.name],
                 nameAnnotation |-> p.name, mode |-> p.mode, data |-> p.data,
                 cluster |-> p.cluster]

\* Create sets the ID in the plan.
Stored(p, o) == [p EXCEPT !.id = o.id]

\* parseConfigPatchID: a negative weight does not parse; it is 0 then, and the whole ID the name.
WeightInId(id) == IF id.weight < 0 THEN 0 ELSE id.weight
NameInId(id) == IF id.weight < 0 THEN <<id.weight, id.target, id.name>> ELSE <<id.target, id.name>>

\* Read: the name from the annotation, or else from the ID; a cluster label that is missing
\* leaves the cluster as it is in the state.
ToModel(o, m) ==
  [id |-> o.id,
   name |-> IF o.nameAnnotation # Null THEN o.nameAnnotation ELSE NameInId(o.id),
   weight |-> WeightInId(o.id), mode |-> o.mode, data |-> o.data,
   cluster |-> IF o.cluster # Null THEN o.cluster ELSE m.cluster]

Meets(c, o) == o.mode = c.mode /\ o.data = c.data /\ o.cluster = c.cluster

\* Whether the label tells the cluster that a state has.
ScopeTold(o, m) == m.cluster # Null => o.cluster # Null

\* Others edit mode and data, drop the annotation, and change and remove the label.
Foreign(o) == {[o EXCEPT !.mode = d] : d \in Modes}
                \cup {[o EXCEPT !.data = d] : d \in Data}
                \cup {[o EXCEPT !.nameAnnotation = Null]}
                \cup {[o EXCEPT !.cluster = c] : c \in {Null} \cup Clusters}

================================================================================

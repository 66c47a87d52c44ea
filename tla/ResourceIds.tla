------------------------------ MODULE ResourceIds ------------------------------
(***************************************************************************)
(* IDs as texts: how the provider composes the ID of a config patch, a     *)
(* Kubernetes manifest, a machine set and a machine extensions             *)
(* configuration from what is configured, and takes it apart again when it *)
(* reads an object, with no state to go by when the object is imported.    *)
(* The other modules keep IDs in their parts.                              *)
(*                                                                         *)
(* A text is a sequence of characters; where a word can neither be taken   *)
(* apart nor be confused with another, it is one of them.                  *)
(***************************************************************************)
EXTENDS Integers, SequencesExt

CONSTANTS Null,
          Resources,   \* configurations of resources, see WellFormed
          MaxResources \* bound: resources of a workspace

VARIABLES
  configured,  \* the workspace's resources
  state,       \* what the terraform state has of each, Null when it is not there
  objects      \* at Omni; "made" is history: the resource it was made for

vars == <<configured, state, objects>>

Kinds == {"patch", "manifest", "extensions", "machineSet"}

\* What an ID is made of; Null is an attribute that is not set or that the kind has not.
Attributes == {"kind", "cluster", "machineSet", "clusterMachine", "machine", "role", "weight", "name"}

ScopeAttributes == {"cluster", "machineSet", "clusterMachine", "machine"}
Scope(r) == [a \in ScopeAttributes |-> r[a]]

\* What kind of scope it is: the attributes that are set.
Sort(r) == {a \in ScopeAttributes : r[a] # Null}

\* The validators: a cluster, perhaps narrowed by one attribute, or a bare machine.
SortsOf(kind) ==
  CASE kind = "patch" -> {{"cluster"}, {"cluster", "machineSet"}, {"cluster", "clusterMachine"},
                          {"machine"}}
    [] kind = "extensions" -> {{"cluster"}, {"cluster", "machineSet"}, {"cluster", "clusterMachine"}}
    [] OTHER -> {{"cluster"}}

Texts == Seq(STRING)

\* A control plane has no name; workers may leave it out.
WellFormed(r) ==
  /\ DOMAIN r = Attributes /\ r.kind \in Kinds
  /\ Sort(r) \in SortsOf(r.kind) /\ \A a \in Sort(r) : r[a] \in Texts
  /\ IF r.kind \in {"patch", "manifest"} THEN r.weight \in Int \ {Null} /\ r.name \in Texts /\ r.name # Null
     ELSE r.weight = Null /\ (r.name # Null => r.kind = "machineSet" /\ r.name \in Texts)
  /\ IF r.kind = "machineSet" THEN r.role \in {"controlplane", "workers"} ELSE r.role = Null

ASSUME ResourcesAssumption == /\ \A r \in Resources : WellFormed(r)
                              /\ MaxResources \in Nat

Dash == <<"-">>
Digits == <<"0", "1", "2", "3", "4", "5", "6", "7", "8", "9">>
DigitValue(ch) == (CHOOSE i \in 1 .. 10 : Digits[i] = ch) - 1

--------------------------------------------------------------------------------
(* Composing *)

\* The decimal digits of a number.
decimal[n \in Nat] ==
  IF n < 10 THEN <<Digits[n + 1]>> ELSE Append(decimal[n \div 10], Digits[(n % 10) + 1])

Abs(n) == IF n < 0 THEN -n ELSE n
Sign(n) == IF n < 0 THEN Dash ELSE <<>>

FormatPlain(n) == Sign(n) \o decimal[Abs(n)]

\* %03d: zeros fill up to three characters, the sign among them.
Format(n) ==
  LET digits == decimal[Abs(n)]
      zeros == 3 - Len(Sign(n) \o digits)
  IN  Sign(n) \o [i \in 1 .. zeros |-> "0"] \o digits

JoinedID(weight, target, name) == Format(weight) \o Dash \o target \o name

ConfigPatchID(weight, target, name) == Format(weight) \o Dash \o target \o Dash \o name

MachineExtensionsID(suffix) == <<"schematic", "-">> \o suffix

ControlPlanes == <<"control", "-", "planes">>
Workers == <<"workers">>

\* A control plane has no name.
MachineSetID(r) ==
  r.cluster \o Dash \o
    (IF r.role = "controlplane" THEN ControlPlanes ELSE IF r.name = Null THEN Workers ELSE r.name)

\* The narrowest target that is set.
TargetSuffix(r) ==
  IF r.machine # Null THEN r.machine
  ELSE IF r.clusterMachine # Null THEN r.clusterMachine
  ELSE IF r.machineSet # Null THEN r.machineSet
  ELSE r.cluster

Id(r) == CASE r.kind \in {"patch", "manifest"} -> ConfigPatchID(r.weight, TargetSuffix(r), r.name)
           [] r.kind = "extensions" -> MachineExtensionsID(TargetSuffix(r))
           [] r.kind = "machineSet" -> MachineSetID(r)

--------------------------------------------------------------------------------
(* Taking apart *)

\* strconv.ParseInt of a text without a sign.
IsNumber(text) == text # <<>> /\ \A i \in DOMAIN text : Contains(Digits, text[i])
Number(text) ==
  LET value[i \in 0 .. Len(text)] == IF i = 0 THEN 0 ELSE 10 * value[i - 1] + DigitValue(text[i])
  IN  value[Len(text)]

CutAt(id, i) ==
  IF i # 0 /\ IsNumber(SubSeq(id, 1, i - 1))
    THEN [weight |-> Number(SubSeq(id, 1, i - 1)), name |-> SubSeq(id, i + 1, Len(id))]
    ELSE [weight |-> 0, name |-> id]

IsDash(ch) == ch = "-"

ParseAtLastDash(id) == CutAt(id, SelectLastInSeq(id, IsDash))

\* At the first dash; without a number before it, all of the ID is the name.
ParseConfigPatchID(id) == CutAt(id, SelectInSeq(id, IsDash))

\* The cluster's prefix is stripped.
MachineSetNameFromID(id, cluster) ==
  IF cluster # Null /\ IsPrefix(cluster \o Dash, id) THEN SubSeq(id, Len(cluster) + 2, Len(id)) ELSE id

NameIn(o) == CASE o.kind = "machineSet" -> MachineSetNameFromID(o.id, o.labels.cluster)
               [] o.kind = "extensions" -> Null
               [] OTHER -> IF o.annotation # Null THEN o.annotation ELSE ParseConfigPatchID(o.id).name

WeightIn(o) == IF o.kind \in {"patch", "manifest"} THEN ParseConfigPatchID(o.id).weight ELSE Null

\* Read, whatever the state had: labels, name and weight are those of the object.
ToModel(o) == [id |-> o.id, scope |-> o.labels, role |-> o.role, weight |-> WeightIn(o), name |-> NameIn(o)]

--------------------------------------------------------------------------------
(* Operations *)

Taken(r) == {o \in objects : o.kind = r.kind /\ o.id = Id(r)}

\* The name annotation, of patches and manifests.
NewObject(r) == [kind |-> r.kind, id |-> Id(r), labels |-> Scope(r), role |-> r.role,
                 annotation |-> IF r.kind \in {"patch", "manifest"} THEN r.name ELSE Null, made |-> r]

\* What the configuration stands for.
NameOf(r) == IF r.kind # "machineSet" THEN r.name
             ELSE IF r.role = "controlplane" THEN ControlPlanes
             ELSE IF r.name = Null THEN Workers ELSE r.name

Configured(r) == [id |-> Id(r), scope |-> Scope(r), role |-> r.role, weight |-> r.weight, name |-> NameOf(r)]

Init == configured = {} /\ objects = {} /\ state = [r \in Resources |-> Null]

Configure(r) == /\ Cardinality(configured) < MaxResources /\ r \notin configured
                /\ configured' = configured \cup {r}
                /\ UNCHANGED <<state, objects>>

CreateOver(r) == /\ r \in configured /\ state[r] = Null
                 /\ objects' = objects \cup {NewObject(r)}
                 /\ state' = [state EXCEPT ![r] = Configured(r)]
                 /\ UNCHANGED configured

\* Refused when the ID is taken.  Of a machine set the object is read back; of the others the
\* plan goes into the state.
Create(r) == /\ r \in configured /\ state[r] = Null /\ Taken(r) = {}
             /\ objects' = objects \cup {NewObject(r)}
             /\ state' = [state EXCEPT ![r] = IF r.kind = "machineSet" THEN ToModel(NewObject(r))
                                              ELSE Configured(r)]
             /\ UNCHANGED configured

\* Read by the ID that the state has; ImportState gives the user's, here what documentation says
\* the ID is.
Read(r, id) == LET found == {o \in objects : o.kind = r.kind /\ o.id = id}
               IN  /\ state' = [state EXCEPT ![r] = IF found = {} THEN Null
                                                    ELSE ToModel(CHOOSE o \in found : TRUE)]
                   /\ UNCHANGED <<configured, objects>>

Refresh(r) == state[r] # Null /\ Read(r, state[r].id)
Import(r) == r \in configured /\ state[r] = Null /\ Read(r, Id(r))

Delete(r) == /\ state[r] # Null
             /\ objects' = {o \in objects : ~(o.kind = r.kind /\ o.id = state[r].id)}
             /\ state' = [state EXCEPT ![r] = Null]
             /\ configured' = configured \ {r}

\* terraform state rm
Forget(r) == state[r] # Null /\ state' = [state EXCEPT ![r] = Null] /\ UNCHANGED <<configured, objects>>

\* Others drop the annotation.
DropAnnotation == \E o \in objects :
  /\ o.annotation # Null
  /\ objects' = (objects \ {o}) \cup {[o EXCEPT !.annotation = Null]}
  /\ UNCHANGED <<configured, state>>

Next == \/ \E r \in Resources : \/ Configure(r) \/ Create(r) \/ Refresh(r) \/ Import(r)
                                \/ Delete(r) \/ Forget(r)
        \/ DropAnnotation

Spec == Init /\ [][Next]_vars

--------------------------------------------------------------------------------
(* Properties *)

\* A resource that is read from the object made for it, by a refresh or by an import with nothing
\* but the ID, is the resource that is configured: weight, name and scope survive their way
\* through ID and labels, whatever dashes names and clusters have.  A weight below zero does not,
\* nor a name whose annotation others have dropped.
Recovered == \A r \in Resources : \A o \in objects :
  o.made = r /\ (r.weight # Null => r.weight >= 0) =>
    /\ ToModel(o).id = Id(r) /\ ToModel(o).scope = Scope(r) /\ ToModel(o).weight = r.weight
    /\ o.annotation = NewObject(r).annotation => ToModel(o) = Configured(r)

\* Patches are applied in the order of their IDs, and that is the order of the weights that three
\* digits hold.
Rank(ch) == IF ch = "-" THEN 0 ELSE IF Contains(Digits, ch) THEN 1 + DigitValue(ch) ELSE 11

Precedes(s, t) == \E i \in 1 .. Len(s) :
  i <= Len(t) /\ SubSeq(s, 1, i - 1) = SubSeq(t, 1, i - 1) /\ Rank(s[i]) < Rank(t[i])

SortedByWeight == \A o, p \in objects :
  /\ o.kind = p.kind /\ o.kind \in {"patch", "manifest"}
  /\ o.made.weight < p.made.weight /\ {o.made.weight, p.made.weight} \subseteq 0 .. 999
  => Precedes(o.id, p.id)

\* Where the target is of the same sort and has no dash, the ID tells resources apart, whatever
\* their names: an ID that is taken is taken by the resource itself.  The exceptions are a set or
\* a machine in the scope of two clusters, and a worker set that is named like the control plane.
SameSort(r, s) == r.kind = s.kind /\ Sort(r) = Sort(s) /\
  \A t \in {r, s} : ~Contains(TargetSuffix(t), "-")

SharedTarget(r, s) == Sort(r) # {"cluster"} /\ r.cluster # s.cluster

LikeControlPlane(r) == r.kind = "machineSet" /\ NameOf(r) = ControlPlanes

\* Of machine sets the default workers have a name that can be configured, too.
ApartWithoutDashes == \A r \in configured : \A o \in Taken(r) :
  SameSort(r, o.made) /\ ~SharedTarget(r, o.made) /\ ~LikeControlPlane(r) =>
    Configured(r) = Configured(o.made)

\* "keyed by its narrowest target so distinct scopes never collide"
\* (omni_machine_extensions_resource.go:139-140): an ID that is taken is taken for the same scope.
DistinctScopesApart == \A r \in configured : \A o \in Taken(r) : o.labels = Scope(r)

TypeOK == /\ configured \subseteq Resources /\ Cardinality(configured) <= MaxResources
          /\ \A r \in Resources : state[r] # Null => r \in configured
          /\ \A o, p \in objects : o.kind = p.kind /\ o.id = p.id => o = p

================================================================================

------------------------------- MODULE Resources -------------------------------
(***************************************************************************)
(* The resources whose objects live in the COSI state, each a choice of    *)
(* the parameters of Resource: the operators named Kind... are what        *)
(* ConfigsOf, ModelsOf, ... stand for.                                     *)
(***************************************************************************)
EXTENDS Resource, Integers, Sequences

CONSTANTS Unknown,
          Versions, Flags, Intervals, Prefixes, Refused,
          Clusters, Names, Sizes, Updates, Deletes, ClassBlocks, Classes, Snapshots, Word,
          PatchNames, Weights, MachineSets, Machines, Data,
          Lists, Providers,
          ExtensionSets, Disks, DiskSelectors,
          Buckets, Regions, Keys, Tokens, Emails, Roles,
          Presets, MediaVersions, JoinTokens, Architectures, Platforms, Overlays, Options, ArgLists,
          OwnFactory

C == INSTANCE Cluster
M == INSTANCE MachineSet
P == INSTANCE ConfigPatch
L == INSTANCE MachineClass
X == INSTANCE MachineExtensions
D == INSTANCE InstallDisk
K == INSTANCE KubernetesManifest
H == INSTANCE KubernetesHealthCheck
B == INSTANCE EtcdBackupS3
U == INSTANCE User
I == INSTANCE MediaPreset

ASSUME BlocksAssumption ==
  /\ \A s \in Updates \cup Deletes : s \in M!Strategies(Sizes)
  /\ ClassBlocks \subseteq M!ClassModels({Null} \cup M!Allocations, Sizes)
  /\ Presets \subseteq I!Attributes /\ ArgLists \subseteq Seq(I!Arguments)
  /\ Sizes \subseteq Nat /\ Word \in Nat \ {0}

KindConfigs(k) == CASE k = C!Kind -> C!Configs
                    [] k = M!Kind -> M!Configs
                    [] k = P!Kind -> P!Configs
                    [] k = L!Kind -> L!Configs
                    [] k = X!Kind -> X!Configs
                    [] k = D!Kind -> D!Configs
                    [] k = K!Kind -> K!Configs
                    [] k = H!Kind -> H!Configs
                    [] k = B!Kind -> B!Configs
                    [] k = U!Kind -> U!Configs
                    [] k = I!Kind -> I!Configs
KindModels(k) == CASE k = C!Kind -> C!Models
                   [] k = M!Kind -> M!Models
                   [] k = P!Kind -> P!Models
                   [] k = L!Kind -> L!Models
                   [] k = X!Kind -> X!Models
                   [] k = D!Kind -> D!Models
                   [] k = K!Kind -> K!Models
                   [] k = H!Kind -> H!Models
                   [] k = B!Kind -> B!Models
                   [] k = U!Kind -> U!Models
                   [] k = I!Kind -> I!Models
KindObjects(k) == CASE k = C!Kind -> C!Objects
                    [] k = M!Kind -> M!Objects
                    [] k = P!Kind -> P!Objects
                    [] k = L!Kind -> L!Objects
                    [] k = X!Kind -> X!Objects
                    [] k = D!Kind -> D!Objects
                    [] k = K!Kind -> K!Objects
                    [] k = H!Kind -> H!Objects
                    [] k = B!Kind -> B!Objects
                    [] k = U!Kind -> U!Objects
                    [] k = I!Kind -> I!Objects
KindBlank(k, id) == CASE k = C!Kind -> C!Blank(id)
                      [] k = M!Kind -> M!Blank(id)
                      [] k = P!Kind -> P!Blank(id)
                      [] k = L!Kind -> L!Blank(id)
                      [] k = X!Kind -> X!Blank(id)
                      [] k = D!Kind -> D!Blank(id)
                      [] k = K!Kind -> K!Blank(id)
                      [] k = H!Kind -> H!Blank(id)
                      [] k = B!Kind -> B!Blank(id)
                      [] k = U!Kind -> U!Blank(id)
                      [] k = I!Kind -> I!Blank(id)
KindPlanned(k, c, m) == CASE k = C!Kind -> C!Planned(c, m)
                          [] k = M!Kind -> M!Planned(c, m)
                          [] k = P!Kind -> P!Planned(c, m)
                          [] k = L!Kind -> L!Planned(c, m)
                          [] k = X!Kind -> X!Planned(c, m)
                          [] k = D!Kind -> D!Planned(c, m)
                          [] k = K!Kind -> K!Planned(c, m)
                          [] k = H!Kind -> H!Planned(c, m)
                          [] k = B!Kind -> B!Planned(c, m)
                          [] k = U!Kind -> U!Planned(c, m)
                          [] k = I!Kind -> I!Planned(c, m)
KindReplaces(k, p, m) == CASE k = C!Kind -> C!Replaces(p, m)
                           [] k = M!Kind -> M!Replaces(p, m)
                           [] k = P!Kind -> P!Replaces(p, m)
                           [] k = L!Kind -> L!Replaces(p, m)
                           [] k = X!Kind -> X!Replaces(p, m)
                           [] k = D!Kind -> D!Replaces(p, m)
                           [] k = K!Kind -> K!Replaces(p, m)
                           [] k = H!Kind -> H!Replaces(p, m)
                           [] k = B!Kind -> B!Replaces(p, m)
                           [] k = U!Kind -> U!Replaces(p, m)
                           [] k = I!Kind -> I!Replaces(p, m)
KindAccepts(k, p) == CASE k = C!Kind -> C!Accepts(p)
                       [] k = M!Kind -> M!Accepts(p)
                       [] k = P!Kind -> P!Accepts(p)
                       [] k = L!Kind -> L!Accepts(p)
                       [] k = X!Kind -> X!Accepts(p)
                       [] k = D!Kind -> D!Accepts(p)
                       [] k = K!Kind -> K!Accepts(p)
                       [] k = H!Kind -> H!Accepts(p)
                       [] k = B!Kind -> B!Accepts(p)
                       [] k = U!Kind -> U!Accepts(p)
                       [] k = I!Kind -> I!Accepts(p)
KindNewObject(k, p) == CASE k = C!Kind -> C!NewObject(p)
                         [] k = M!Kind -> M!NewObject(p)
                         [] k = P!Kind -> P!NewObject(p)
                         [] k = L!Kind -> L!NewObject(p)
                         [] k = X!Kind -> X!NewObject(p)
                         [] k = D!Kind -> D!NewObject(p)
                         [] k = K!Kind -> K!NewObject(p)
                         [] k = H!Kind -> H!NewObject(p)
                         [] k = B!Kind -> B!NewObject(p)
                         [] k = U!Kind -> U!NewObject(p)
                         [] k = I!Kind -> I!NewObject(p)
KindApplied(k, p, o) == CASE k = C!Kind -> C!Applied(p, o)
                          [] k = M!Kind -> M!Applied(p, o)
                          [] k = P!Kind -> P!Applied(p, o)
                          [] k = L!Kind -> L!Applied(p, o)
                          [] k = X!Kind -> X!Applied(p, o)
                          [] k = D!Kind -> D!Applied(p, o)
                          [] k = K!Kind -> K!Applied(p, o)
                          [] k = H!Kind -> H!Applied(p, o)
                          [] k = B!Kind -> B!Applied(p, o)
                          [] k = U!Kind -> U!Applied(p, o)
                          [] k = I!Kind -> I!Applied(p, o)
KindStored(k, p, o) == CASE k = C!Kind -> C!Stored(p, o)
                         [] k = M!Kind -> M!Stored(p, o)
                         [] k = P!Kind -> P!Stored(p, o)
                         [] k = L!Kind -> L!Stored(p, o)
                         [] k = X!Kind -> X!Stored(p, o)
                         [] k = D!Kind -> D!Stored(p, o)
                         [] k = K!Kind -> K!Stored(p, o)
                         [] k = H!Kind -> H!Stored(p, o)
                         [] k = B!Kind -> B!Stored(p, o)
                         [] k = U!Kind -> U!Stored(p, o)
                         [] k = I!Kind -> I!Stored(p, o)
KindToModel(k, o, m) == CASE k = C!Kind -> C!ToModel(o, m)
                          [] k = M!Kind -> M!ToModel(o, m)
                          [] k = P!Kind -> P!ToModel(o, m)
                          [] k = L!Kind -> L!ToModel(o, m)
                          [] k = X!Kind -> X!ToModel(o, m)
                          [] k = D!Kind -> D!ToModel(o, m)
                          [] k = K!Kind -> K!ToModel(o, m)
                          [] k = H!Kind -> H!ToModel(o, m)
                          [] k = B!Kind -> B!ToModel(o, m)
                          [] k = U!Kind -> U!ToModel(o, m)
                          [] k = I!Kind -> I!ToModel(o, m)
KindIdOf(k, o) == CASE k = C!Kind -> C!IdOf(o)
                    [] k = M!Kind -> M!IdOf(o)
                    [] k = P!Kind -> P!IdOf(o)
                    [] k = L!Kind -> L!IdOf(o)
                    [] k = X!Kind -> X!IdOf(o)
                    [] k = D!Kind -> D!IdOf(o)
                    [] k = K!Kind -> K!IdOf(o)
                    [] k = H!Kind -> H!IdOf(o)
                    [] k = B!Kind -> B!IdOf(o)
                    [] k = U!Kind -> U!IdOf(o)
                    [] k = I!Kind -> I!IdOf(o)
KindIdIn(k, m) == CASE k = C!Kind -> C!IdIn(m)
                    [] k = M!Kind -> M!IdIn(m)
                    [] k = P!Kind -> P!IdIn(m)
                    [] k = L!Kind -> L!IdIn(m)
                    [] k = X!Kind -> X!IdIn(m)
                    [] k = D!Kind -> D!IdIn(m)
                    [] k = K!Kind -> K!IdIn(m)
                    [] k = H!Kind -> H!IdIn(m)
                    [] k = B!Kind -> B!IdIn(m)
                    [] k = U!Kind -> U!IdIn(m)
                    [] k = I!Kind -> I!IdIn(m)
KindForeign(k, o) == CASE k = C!Kind -> C!Foreign(o)
                       [] k = M!Kind -> M!Foreign(o)
                       [] k = P!Kind -> P!Foreign(o)
                       [] k = L!Kind -> L!Foreign(o)
                       [] k = X!Kind -> X!Foreign(o)
                       [] k = D!Kind -> D!Foreign(o)
                       [] k = K!Kind -> K!Foreign(o)
                       [] k = H!Kind -> H!Foreign(o)
                       [] k = B!Kind -> B!Foreign(o)
                       [] k = U!Kind -> U!Foreign(o)
                       [] k = I!Kind -> I!Foreign(o)
KindMeets(k, c, o) == CASE k = C!Kind -> C!Meets(c, o)
                        [] k = M!Kind -> M!Meets(c, o)
                        [] k = P!Kind -> P!Meets(c, o)
                        [] k = L!Kind -> L!Meets(c, o)
                        [] k = X!Kind -> X!Meets(c, o)
                        [] k = D!Kind -> D!Meets(c, o)
                        [] k = K!Kind -> K!Meets(c, o)
                        [] k = H!Kind -> H!Meets(c, o)
                        [] k = B!Kind -> B!Meets(c, o)
                        [] k = U!Kind -> U!Meets(c, o)
                        [] k = I!Kind -> I!Meets(c, o)

\* The resources whose scope is read from labels.
KindShowsScope(k, o, m) == CASE k = M!Kind -> M!ScopeTold(o, m)
                             [] k = P!Kind -> P!ScopeTold(o, m)
                             [] k = X!Kind -> X!ScopeTold(o, m)
                             [] k = K!Kind -> K!ScopeTold(o, m)
                             [] k = H!Kind -> H!ScopeTold(o, m)
                             [] OTHER -> TRUE

\* A user is destroyed by one call of Omni's management API.
KindTearsDown(k) == k # U!Kind

--------------------------------------------------------------------------------
(***************************************************************************)
(* What the proofs take for granted of the values (MCResources has TLC     *)
(* check it of its own): Null, Unknown and the empty text are not values,  *)
(* and what the resources cannot read back as it was written (Zero-        *)
(* Interval, VersionPrefix), or stores otherwise than it was written       *)
(* (numbers that do not fit a word, white space, capital letters), is not  *)
(* configured.                                                             *)
(***************************************************************************)
ClusterValues == /\ Prefixes = {FALSE}
                 /\ Intervals \subseteq [dur : Nat \ {0}, form : STRING]
                 /\ Null \notin Intervals \cup {C!Text(t.dur) : t \in Intervals}
                 /\ \A flags \in SUBSET Flags : Null # flags
                 /\ Null \notin [dur : Nat, enabled : BOOLEAN]

\* 0 is stored for a size that is left out.
Numbers == {0} \cup Sizes

MachineSetValues ==
  /\ Sizes \subseteq 0 .. (Word - 1)
  /\ {Null, Unknown, M!ControlPlanes, M!Workers, M!WholeId} \cap Names = {}
  /\ Null \notin Clusters \cup M!SetRoles
  /\ {Null, Unknown} \cap (M!Allocations \cup {M!ControlPlanes, M!Workers}) = {}
  /\ Null \notin Numbers /\ Null \notin M!Strategies(Numbers) /\ Null \notin M!Models
  /\ Null \notin M!ClassModels({Null, Unknown} \cup M!Allocations, Numbers)
  /\ Null \notin [class : Classes, count : Numbers, type : M!Allocations]

\* A negative weight is not read back from an ID.
PatchValues == /\ Weights \subseteq Nat
               /\ Null \notin Clusters \cup MachineSets \cup Machines /\ Null \notin PatchNames
               /\ Null \notin P!Scopes /\ Null \notin P!Models

ClassValues == /\ Null # <<>> /\ Null \notin Lists /\ Null \notin BOOLEAN
               /\ Null \notin L!Provisions /\ Null \notin L!StoredProvisions

ExtensionsValues == /\ Null \notin Clusters \cup MachineSets \cup Machines
                    /\ Null \notin X!Scopes /\ Null \notin X!Models

DiskValues == /\ Null \notin Disks \cup DiskSelectors \cup {""}
              /\ "" \notin Disks \cup DiskSelectors

ManifestValues == /\ Weights \subseteq Nat
                  /\ Null \notin Clusters /\ Null \notin PatchNames /\ Null \notin K!Models

HealthCheckValues == /\ Null \notin Clusters
                     /\ Intervals \subseteq [dur : Nat \ {0}, form : STRING]
                     /\ Null \notin [dur : Nat, form : STRING] /\ Null \notin Nat

\* A bucket may be all white space.
S3Values == /\ \A b \in Buckets : b.text = "" \/ B!Plain(b.text) = b
            /\ \A r \in Regions : r.text # "" /\ B!Plain(r.text) = r
            /\ "" \notin Keys \cup Tokens /\ Null \notin Keys \cup Tokens \cup {""}
            /\ Null \notin Regions \cup {B!Plain(r.text) : r \in Regions}
            /\ Null \notin B!Models

\* An empty list or set is read back as none.
PresetValues ==
  /\ \A c \in Presets : /\ c.version # Null => c.version.prefix = FALSE
                        /\ c.extensions # {} /\ c.args # <<>>
  /\ \A l \in ArgLists : \A i \in DOMAIN l : l[i].space # "unicode"
  /\ I!Empty \notin MediaVersions \cup JoinTokens \cup Options
  /\ Null \notin {I!Empty, I!DefaultArchitecture} /\ Null \notin BOOLEAN
  /\ Null # {} /\ Null # <<>>
  /\ Null \notin MediaVersions \cup JoinTokens \cup Options \cup Architectures \cup Platforms
  /\ Null \notin I!VersionTexts /\ Null \notin I!SbcBlocks \cup I!StoredSbcs
  /\ Null \notin ExtensionSets /\ Null \notin ArgLists /\ Null \notin I!Models

UserValues == /\ \A e \in Emails : U!Lower(e) = e
              /\ Null \notin Roles /\ Null \notin U!Models

================================================================================

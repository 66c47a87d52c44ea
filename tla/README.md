# Verification of the Omni Terraform provider

TLA+ models of `terraform-provider-omni`, the Terraform provider for Sidero Omni: model-checked
with TLC on small instances, and proved with TLAPS for every value of the constants where a
theorem is listed. The reference is the code under `src/`; line numbers in comments refer to it.

Contents: [the system](#the-system), [the modules](#the-modules),
[what is checked](#what-is-checked), [what is proved](#what-is-proved),
[disagreements found](#disagreements-found), [what is not modelled](#what-is-not-modelled),
[the plan](#the-plan).

## The system

Terraform core reads the user's configuration, refreshes its state by calling `Read` on every
resource, compares the two, and calls `Create`, `Update` or `Delete` of the provider. The provider
(`src/pkg/omni`) is a process that lives for one plan or apply. It keeps nothing itself: the
lasting state is in two places, the **terraform state file** and **Omni**. Omni has two interfaces:

- the **COSI state**, objects with versions, phases, finalizers, labels and annotations. Omni's
  controllers and its users write the same objects;
- the **management API**, RPCs for service accounts and users.

What makes this code hard is what lies between the two places: calls whose answer is lost, a
process that dies between the call and `State.Set`, listings that lag, objects that others edit
between refresh and apply, several terraform workspaces at work on the same names, and conversions
that must round-trip or terraform plans the same change for ever.

### Components

| part | source | state it touches | operations | hard because | modelled in |
|---|---|---|---|---|---|
| managed COSI state | `state.go`, `util.go` | one object: phase, version, finalizers, mark | create, update with conflicts, teardown and destroy | interleaved writers, retries, teardown races | `ManagedState`, `AtomicState` |
| service account | `omni_service_account_resource.go`, `serviceaccount.go` | account, its keys, the lagging listing, state | create, read-back poll, read, renew, delete, import | the private key exists only in the handler; stale listings; expiry | `ServiceAccount` |
| infra provider | `omni_infra_provider_resource.go` | provider object, its account, state | create in two calls with a rollback, read, renew, delete, import | half-done creation, rollback by name, asynchronous cleanup | `InfraProvider` |
| resource lifecycle | the `Create/Read/Update/Delete/ImportState` of the COSI-backed resources | the objects of a kind, state, plan | those handlers | drift, lost answers, replacement | `Resource` |
| cluster | `omni_cluster_resource.go` | `Cluster` object | conversions, plan | durations, blocks that are null or empty | `Cluster` |
| machine set | `omni_machine_set_resource.go` | `MachineSet` object | conversions, IDs, validation, plan | presence of blocks, computed attributes, sizes | `MachineSet` |
| config patch | `omni_config_patch_resource.go` | `ConfigPatch` object | conversions, IDs, labels, plan | name and weight live in the ID | `ConfigPatch` |
| machine set node | `omni_machine_set_node_resource.go` | node, owning set | check of the set, then create | two calls that can disagree, terraform's order of set and node | `MachineSetNode` |
| machine class | `omni_machine_class_resource.go` | `MachineClass` object | conversions, plan | two halves that exclude each other, lists that are null or empty | `MachineClass` |
| machine extensions, install disk | one file each | `ExtensionsConfiguration`, `MachineInstallDisk` | conversions, validators | scopes kept in labels, disks that exclude each other | `MachineExtensions`, `InstallDisk` |
| Kubernetes manifest, healthcheck | one file each | one object each | conversions, IDs | mode and name outside the spec, intervals left to the server | `KubernetesManifest`, `KubernetesHealthCheck` |
| S3 backup | `omni_etcd_backup_s3_config_resource.go` | the one `EtcdBackupS3Conf` | conversions | a singleton others also have, texts that are trimmed, values that may be empty or null | `EtcdBackupS3` |
| user | `omni_user_resource.go` | identity and user | the same handlers over the management API | two objects that are one resource, letters in the email | `User` |
| media preset | `omni_installation_media_preset_resource.go` | preset | conversions, plan, resolving a factory | shapes of a preset, arguments joined in one text | `MediaPreset`, `InstallationMedia` |
| installation media | `installationmedia.go`, data source | preset, factories, schematics | register a schematic, resolve a URL | two calls that pick a factory independently | `InstallationMedia` |
| resource IDs | the ID functions of patches, manifests, sets, extensions | object IDs, labels, annotations | compose, parse, strip a prefix | parts joined with dashes that the parts may contain | `ResourceIds` |
| provider configuration, account data sources | `provider.go`, `*_data_source.go` | none | read once | - | not modelled |

How they interact: every COSI-backed handler goes through the managed state, which tags what it
writes; `updateWithDiags` carries conversion errors out of the retried callback. The infra provider
uses both interfaces, and Omni's cleanup controller ties its two halves together. Machine sets,
patches and nodes refer to clusters by name; nothing in the provider checks these references except
the node's `Create`.

### What makes the components correct

- **Managed state**: no write of others is lost, what the provider writes is marked, a rejected
  plan never lands, an object that is being torn down is left alone, a failure is reported once,
  calls end. So everything above may take a creation or an update for one step on the object, whose
  answer may be lost, and a deletion for two: a teardown and a destruction, between which it may
  fail and leave the object torn down.
- **Service account**: the state always describes the key it holds; a working key is never silently
  lost or forgotten, however late the listing is; a successful apply knows the key it generated;
  applies end.
- **Infra provider**: no provider is left at Omni without an owner or a reported failure; the key in
  the state opens the account for as long as the provider that it was issued for lives and is not
  being torn down; retried creations get through.
- **Resources**: after an apply nothing is left to plan; what is read is what is there; an edit of
  an attribute is seen and repaired; a handler touches only the object its state names.
- **Machine set node**: the machine is in the set and the cluster that the state says; no apply, be
  it interrupted in a deletion or unanswered, destroys a set and leaves a machine behind in it that
  terraform knows to have put there. (A node whose *creation* was not answered is in no state: a
  later apply may destroy the set under it. The code leaves that stray behind.)
- **Installation media**: the schematic is registered with the factory the URL leads to; URL and
  medium are those of one preset; the factory written into the preset is the one Omni uses.
- **Resource IDs**: what is configured is recovered from ID, labels and annotation alone; IDs sort
  by weight; an ID that is taken is taken by the resource itself.

`PROJECT.json` lists the hazards with their lines and the properties that stand against each.

## The modules

| module | models | built on |
|---|---|---|
| `AtomicState` | what a handler may rely on: a creation or an update acts at one moment, a deletion at two | |
| `ManagedState` | `managedState`, `updateWithDiags` and the protocol behind them | refines `AtomicState` |
| `ManagedStateProofs` | theorems about `ManagedState`, the refinement included | `ManagedState` |
| `ServiceAccount` | the service account resource, the account, the listing | |
| `ServiceAccountProofs` | its theorems | `ServiceAccount` |
| `InfraProvider` | the infra provider resource in several workspaces | |
| `InfraProviderProofs` | its theorems | `InfraProvider` |
| `Resource` | the handlers of a COSI-backed resource, generic in its conversions | |
| `Cluster`, `MachineSet`, `ConfigPatch`, `MachineClass`, `MachineExtensions`, `InstallDisk`, `KubernetesManifest`, `KubernetesHealthCheck`, `EtcdBackupS3`, `User`, `MediaPreset` | the conversions, plans and IDs of one resource each (operators only) | |
| `Durations` | `reconcileDuration` and durations as texts | used by `Cluster`, `KubernetesHealthCheck` |
| `Resources` | the dispatch that gives `Resource` its parameters | `Resource`, the eleven kinds |
| `ResourceProofs` | theorems about `Resource`, for every kind whose conversions are sound | `Resource` |
| `ResourcesProofs` | theorems that the conversions of each kind are sound, and what follows for it | `Resources`, `ResourceProofs` for each kind |
| `MachineSetNode` | a node beside the machine set it refers to, with terraform's order of steps | |
| `MachineSetNodeProofs` | its theorems | `MachineSetNode` |
| `InstallationMedia` | preset and data source, call by call, while factories change | |
| `InstallationMediaProofs` | its theorems | `InstallationMedia` |
| `ResourceIds` | IDs as texts, from configuration to object and back | |
| `ResourceIdsProofs` | its theorems, with the arithmetic of decimal numbers and the splitting of texts they need | `ResourceIds` |
| `MC...` | small instances for TLC | |

Operators whose comment describes a mistake (`NeverStale`, `NoRollback`, `ServersForm`, ...) are not
the code. Each is a plausible bug of the definition it stands before; put in its place, it makes
one of the properties fail, which shows that the property looks at the code.

### ManagedState

One object and several calls on it at a time. `Create`, `Apply` (read a copy and run the callback),
`Put` (compare-and-set, on conflict back to `Apply`), `Teardown`, `Await`, `Destroy` are the steps
of `state.go:37-64` and of the library calls behind them; `Abort` is a call that fails on the way.
The COSI runtime is not in the repository: it is modelled by what `src/` relies on, versions that
are never reused, an expected phase, finalizers. The others create, update, tear down and finalize
as they like. `diags[c]` counts error diagnostics, as `updateWithDiags` must not report twice.
The history `lastOther` remembers what others wrote last. What a callback that fails has written
into its copy by then is not represented: the copy is dropped.

`AtomicState` has no versions and no copies. `Create` and `Update` are one step each, as the object is
at that moment; the answer may be a failure although the step was taken. `Teardown` and `Destroy` are
two, others act in between, and `Fail` may come after the first: what every module above has to
reckon with, and does.

### ServiceAccount

`account` is the account at Omni; `observed` and `listing` are what the controller behind
`ListServiceAccounts` has read and published, arbitrarily late. A key and its private half share a
number. `pc` says where the running handler stands: `create` or `renew` (before the registering
call), `readback` (polling), `delete`. `Register` has both outcomes: the handler goes on, or the
answer, the encoding or the process is lost together with the private half. `AccountToModel`,
`LatestKey`, `KeyExpiration` and `ValidTTL` translate the functions of these names.
`excused` is a history of keys that need not be in the state: a failure was reported, a successor is
in the state, or somebody else made the key.

### InfraProvider

The provider is a *life number* (0 for none), so properties can tell a provider from its
successor; the code and Omni know names only, and the guards use only whether there is one.
`pc[w]` walks `create`, `register`, `rollback`, `undo`, `renew`, `delete`, `destroy`; `made[w]` is the
local variable `provider` of `Create`. A deletion and a rollback are two calls, the teardown
(`Delete`, `Rollback`) and the destruction (`DeleteDestroy`, `RollbackDestroy`); `tearing` is the life
that is between the two. A provider that is left there keeps its name: creations are refused, and
`Read` finds it as before, until a deletion is run again. `Cleanup` is Omni's controller, external,
taken from the comment at `omni_infra_provider_resource.go:313`; it may act from the teardown on.
`CreateUnanswered`, `RegisterUnanswered`, `RollbackFails`, `DeleteUnanswered`, `CutShort` are the
failures between any two calls. Numbers that nothing refers to are
reused, which keeps the state space finite although creations are retried without bound.

### Resource and its kinds

`Resource` has the objects at Omni, the configuration, the state and one operation at a time,
with everything that can come between its plan and its effect: edits of the configuration
(`outdated`), edits by others (`fresh`), lost answers (`Unanswered`) and calls that never arrive
(`Unreached`). A creation or an update is one step, a deletion two, `Teardown` and `Destroy`, which is
what `ManagedState` implementing `AtomicState` gives. `tearing` has the IDs of the objects that a
deletion, interrupted or under way, or somebody else has torn down. `Read` does not look at the phase
(`omni_cluster_resource.go:208-221`), so such an object is read as any other; an update of it is
refused unless there is nothing to write, a creation under its ID is refused, and a deletion, also
that of a replacement, takes up where the other stopped. A user is destroyed by one call.
Terraform is modelled by what decides which handler runs: a plan is made when configuration and
state differ, by the plan modifiers of the schema (`Planned`, `Replaces`).

The Reads of machine sets, patches, extensions, manifests and healthchecks take cluster, role and
selector from the object's labels, and keep what the state has when a label is gone
(`omni_config_patch_resource.go:336` and its like). Others may remove labels (`Foreign`), or destroy
the object and create one of another scope under the same ID; what is read then is a scope that the
object does not have, and no plan shows it. `ShowsScope` says that the labels tell the scope that a
state has, and the history `rescoped` that others left the object without them since it came into
the state: `NoHiddenDrift` promises nothing then.

Each kind says what a configuration, a model (a plan or a state) and an object of its resource is.
`Accepts` are the validators. `NewObject` and `Applied` write a plan into an object
(`apply...Model`), `ToModel` is what `Read` makes of it, `Stored` what the apply leaves in the
state, `Foreign` what others may do to the object, `Meets` what the schema's descriptions say the
configuration means. Versions, names and data are abstract values. A duration is a pair of its value
and the way it is written, because `reconcileDuration` is about that difference; a text that the
code trims has a flag for being padded, one that it puts into lower case a flag for its capitals, a
kernel argument its words and the kind of space between them. Omni's `ClusterValidator` is the set
`Refused` of what it does not let through. Sizes are cut to `Word` values as the code cuts them to
32 bits. IDs are kept as tuples of their parts, out of which `WeightInId` and `NameInId` read what
`parseConfigPatchID` does: of a negative weight, 0 and the whole ID. `ResourceIds` has them as
texts. `User` is the one kind behind the management API: an identity and the user it refers to are
one object here, and an identity whose user is gone has the role `Null`.

### MachineSetNode

A workspace with one machine set of its own or a reference to another's, and one node. The
configuration, `setState` and `state` are terraform's; an apply is a set of steps (`todo`) that
`Ready` puts in the order of terraform's graph: a node goes before its set and comes after it, and
a set whose ID is not known yet forces the node's replacement. `ReadOwner` and `CreateNode` are the
two halves of `Create` (`omni_machine_set_node_resource.go:100-135`): between them the set may go
or be made anew, and the node is stored with the labels of the one that was read. Deletions are
`TeardownNode` and `DestroyNode`, `TeardownSet` and `DestroySet`; `tearingNode` and `tearingSets` say
what is between the two, by a deletion that was interrupted or by others, who also remove labels.
`Unanswered` and `Unreached` are lost answers and calls that never arrive, at every step. `settled`,
`replaced` and `excused` are histories: whether somebody else touched the node, or a set, since;
`excused` also says that a creation of the node was not answered.

### InstallationMedia

`primary`, `secondary`, `served` and `default` are Omni's image factories and versions, external and
changing (`ChangeFactories`, `ChangeDefault`). `writer` is where the preset's `Create` or `Update`
stands: `LookUpVersion` and `LookUpFeatures` are the two lookups of `resolveImageFactoryURL`,
`WritePreset` the write that Omni refuses for a factory it does not have. `reader` is the data
source's `Read`: `Begin` reads the preset, `CheckRequest` refuses what does not fit or is ambiguous,
`CreateSchematic` registers, `Resolve` asks for the URL. Omni chooses a factory in each of the last
two by itself. What Omni's TalosVersion resources record changes together with the configuration;
that it may lag behind is not modelled. The histories `lookedUp`, `pinned` and `steady` say since
when no factory has changed.

### ResourceIds

Texts are sequences of characters. `Format` is `%03d` with its sign, `ConfigPatchID`,
`ParseConfigPatchID`, the prefix rules of machine sets and the "schematic-" IDs translate the
functions of the source; recursion is by recursive functions. Around them a workspace configures,
creates, refreshes, imports, deletes and forgets resources, and others drop annotations. `made` of
an object is a history: the resource it was made for. `WellFormed` is what the schemas and validators
let through: a patch is of a cluster, of one of its machine sets or machines, or of a bare machine;
extensions are of the first three; manifests and machine sets of a cluster.

`ApartWithoutDashes` says when the ID tells resources apart, and its exceptions are where it does
not: targets with a dash (`scopes_collide`), two kinds of scope with the same target, a machine set or
a machine in the scopes of two clusters (`SharedTarget`: the cluster is not in the ID at all), and a
worker set that is named like the control plane.

## What is checked

| run | instance | shows |
|---|---|---|
| `managed_state` | two clients, two plans (one invalid), one controller, 3 calls, 3 foreign writes | safety of the protocol, that calls end, refinement of `AtomicState` |
| `service_account` | four configurations, lifetimes 1, 2 and one too long, 3 keys, 1 tick, 2 events | the account's properties under lag, expiry, loss and others |
| `unlisted_key` | the same | a comment that does not hold, see below |
| `infra_provider` | two workspaces, 8 events (renewals, deletions, imports, failures), unbounded retries | orphans, dead keys, convergence |
| `rollback_by_name` | the same, 3 events | a comment that does not hold |
| `resources` | every configuration of the eleven kinds from small sets, 2 events | round trips, drift, ownership, convergence |
| `zero_interval` | clusters with a zero interval | a comment that does not hold |
| `version_prefix` | presets with a version written `v1.13` | a comment that does not hold |
| `installation_media` | two versions, two factories, five presets of all three shapes, 3 changes | schematic, URL and preset agree on a factory; reads heal |
| `machine_set_node` | two clusters, three sets, two of them the workspace's own, 3 events | nodes are where the state says and never in a set that is gone; convergence |
| `resource_ids` | every pair of 65 resources whose names begin and end alike | round trips, order and collisions of IDs |
| `scopes_collide` | pairs of extensions configurations | a comment that does not hold |

**Bounds and why they are enough.** `managed_state`: two clients conflict in every order; a third
call makes one of them start again over what the first left; three foreign writes allow create, edit
and teardown, or an edit in each gap of a retry. `service_account`: three keys are one held, one
that replaces it and one of somebody else; with one tick a key of lifetime 1 expires while one of
lifetime 2 lives on; the fourth configuration has a ttl that is refused. `infra_provider`: eight
events cover a deletion and a re-creation by one workspace inside the two calls of another with
failures at each, between a teardown and its destruction too; the numbers of lives and keys exceed
what can be referred to at once, so reuse never identifies two that matter. `resources`: two events
allow an edit between plan and apply and another after it, a lost answer followed by an edit, or a
deletion that is interrupted after its teardown and another beside it. The sets of values are small,
two for most attributes and null where it is allowed, and one for some (a cluster, a region, a
platform); they are chosen so that each branch of the conversions is taken, except those that
`*Values` excludes, and the configurations include every presence pattern of the optional blocks of
clusters and machine sets. One strategy block stands for three that the code treats alike, one
version for two, one list of a provisioning block for three. A list with a null element is a
configuration that every apply refuses. `TypeOK` of `resources` bounds the plans and objects that
arise. `machine_set_node`: three events allow a set to be replaced between the two halves of
`Create`, an edit of the configuration and a failure, or a teardown that is interrupted and what
others do to its object; two own sets and one of others cover references inside the workspace and
out of it. `installation_media`: three changes are a write of a preset, a change of the factories
inside a read and another inside a write; of two versions one can be the default and the other
pinned, with either, both or none served by the secondary factory, and an unpinned preset is there
as well. One request fits every preset, one only bare metal, one is refused. `resource_ids`:
collisions and confusions are between two; clusters, sets and names are `a`, `ab`, `a-b`, `b`, `bb`
and the code's own words, each a beginning or an end of another, and the weights have one to four
digits and a sign. In `ServiceAccount`, `Reserved` keeps one key number for an operation that has
started, so that the bound on keys cannot stop a handler half-way.

**Deadlock** is checked in `resources`, `installation_media` and `resource_ids`. Elsewhere it is not:
in `ManagedState`, `ServiceAccount` and `InfraProvider` the system may really stop (bounded calls,
users who are done), in `MachineSetNode` what is as configured may stay so for ever.

**Fairness.** A handler that can go on does (`WF` of the handler steps): it is straight-line code
with a timeout on its only loop (`serviceaccount.go:128`). Nothing is assumed of the service account
listing, which may never catch up. In `ManagedState` a controller that holds a finalizer on an
object being torn down lets go in the end - without it `TeardownAndDestroy` waits for ever, by
design. In `InfraProvider`, `Resource` and `MachineSetNode`, too, the second call of a deletion
comes in the end, and the user keeps refreshing and applying, which convergence is about; Omni's
cleanup is strongly fair because retried creations may disable it over and over; `Refresh` is
strongly fair because an apply with an old plan may run in between. In `InstallationMedia` the
handlers go on and the data source is read at every run, as terraform does. Edits, operations of
others and failures get no fairness; each is bounded.

**The properties**, by module. *ManagedState*: `NoLostForeignWrite`, `WrittenIsMarked`,
`OnlyValidPlansStored`, `OneCausePerFailure`, `TeardownIsFinal`,
`EveryCallReturns`, `StepsAreAtomic` (the refinement). *ServiceAccount*: `HeldKeyIsNamed`,
`ExpirationDescribesKey`, `RoleOfHeldKey`, `IssuedKeysAccountedFor`, `LiveKeyNotForgotten`,
`ApplyKnowsItsKey`, `ApplyEnds`. *InfraProvider*: `NoSilentOrphan`, `HeldKeyOpens`,
`RetriesConverge`. *Resource*: `StateIsTrue`, `NoSpuriousDiff`, `NoHiddenDrift`, `OnlyOwnObjects`,
`Converges`. *MachineSetNode*: `NodeStateIsTrue`, `NoStrayNode`, `Converges`. *InstallationMedia*:
`UrlIsServed`, `UrlFitsPreset`, `PinnedFactoryAgrees`, `FactoryIsAccepted`, `RefreshHeals`.
*ResourceIds*: `Recovered`, `SortedByWeight`, `ApartWithoutDashes`, and `DistinctScopesApart`, which
does not hold. Each is stated in words above its definition.

**What the code does not promise, and the properties therefore except.** The exceptions are named
in the definitions, and are states that the runs reach:

- `Resource`: an object that was torn down, by others or by a deletion that was interrupted, is read
  as before, and every update or creation is refused until a deletion is run again. `NoHiddenDrift`
  speaks of attributes only; `Converges` excepts it (`InTheWay`), unless the next apply replaces or
  deletes the object, which takes up the teardown: that is what its mutant breaks (`TeardownOnce`).
  An object whose creation was not answered has to be imported (`InTheWay`, too). Removed labels
  are `rescoped`.
- `MachineSetNode`: likewise `HalfGone`, `ToImport`, `Unlabelled`, and `Unfit` for a reference to a set
  that is missing or of another cluster. `NoStrayNode` excepts what others touched and a node whose
  creation was not answered.
- `InfraProvider`: `HeldKeyOpens` is about the life the key was issued in. That others deleted the
  provider and created it again is not seen by `Read`.

## What is proved

`tlapm` checks the proofs with SMT, Zenon and LS4. They hold for any sets of clients, plans, roles,
workspaces, configurations, versions and factories and any bounds, under the named assumptions of the
modules. Most say what kind of value a constant is (`PlansAssumption`, `BoundAssumption`;
`RolesAssumption`, `ConfigsAssumption`; `NumbersAssumption`; `NodeAssumption`, `NullAssumption`;
`MaxEventsAssumption`, `MaxChangesAssumption`; `BlocksAssumption`). Two say more:
`PrimaryAssumption`, that Omni always has a primary image factory; and `EnoughNumbersAssumption` of
`InfraProvider`, that the numbers which name lives and keys are more than can be in use at once, so
that a new one can always be found - for real providers and keys that is what "new" means. TLC
evaluates each in a passing run.

**ManagedStateProofs**: `Typing`, `ForeignWritesSurvive`, `WritesAreMarked`, `WritesAreValid`,
`FailuresHaveOneCause`, `TeardownNeverUndone`, `StepsLookAtomic`. The invariants
are not inductive by themselves: a stored copy is dangerous only if it is taken for current. The
strengthening says that a version determines the object (a copy whose version is the object's *is*
the object apart from the plan's fields, and versions in use are below `nextVer`), what the copy of
a client that is about to put looks like, and which `status` and `diags` go with which `pc`. With it
each action preserves the invariant, and each step of the protocol maps to a step of `AtomicState`
(the successful compare-and-set, the teardown, the removal) or to a stutter.

**ServiceAccountProofs**: `Invariance`, `Typing`, `HeldKeyNamed`, `ExpirationIsOfTheKey`,
`RoleIsOfTheKey`, `NoKeySilentlyLost`, `WorkingKeyRemembered`, `SuccessKnowsItsKey`. The inductive
invariant `IInv` joins the checked invariants with three facts. Keys are fresh: a number not yet
generated appears nowhere. The views agree: the account, what the controller read and what it
published get older in this order, so a key seen in the oldest and the newest is in the one between,
with the same role. And a held key that works is listed: a key enters the state only from a listing
that shows it (the poll waits for the *key*, not for the account). Without the third,
`RoleOfHeldKey` is not inductive: a listing left over from the account before could be read back.

**InfraProviderProofs**: `Typing`, `KeyOfLivingProviderOpens`, `NoOrphanWithoutReport`. What is needed
besides is in `IInv`. An account that is gone has no keys (`DeadAccountIsEmpty`): otherwise an account
made anew would open to the keys of the one before. A resource in the state names a life
(`StateNamesALife`), and the handlers that run fit the state (`HandlersFit`), so that a creation
never runs beside a resource that is there and a renewal never beside none. What is torn down is the
present provider (`TypeOK`), so that a new life never begins half torn down. Each key of the account
but the first, and each renewal that runs, has cost an event (`KeysAreCounted`): that bounds the keys
in use, and with `EnoughNumbersAssumption` a pigeonhole argument on finite sets gives a new one
(`NewLifeIsNew`, `NewKeyIsNew`). If numbers in use could be issued again, `HeldKeyOpens` would not be
preserved: the state of one workspace would name the provider of another.

**InstallationMediaProofs**: `UrlsAreServed`, `UrlsFitTheirPreset`, `ResourceAndDataSourceAgree`,
`ResolvedFactoryIsConfigured`. `IInv` says what each of the two handlers has established by the call
it makes next. `LookUpIsRight`: after the first lookup of an apply no factory is recorded for the
version, after the second the factory is the one that Omni will choose for it, and so is the one in
the preset. `ReadIsRight`: after the check of a Read the choice is not in doubt (a version is pinned,
or there is one factory only), and after the registration the schematic is where the choice leads.
`UrlIsRight` carries that over to the result, for `PinnedFactoryAgrees`. Each holds only as long as
the factories stay (`lookedUp`, `steady`, `pinned`); `UrlFitsPreset` needs no such premise.

**MachineSetNodeProofs**: `Invariance`, `Typing`, `StateTellsTheTruth`, `NoMachineStrays`. That no
machine that terraform knows of is left behind is not inductive: it rests on what an apply decided
when it started. The strengthening `IInv` says that the steps left fit the plan (`PlanFits`); that a
set that `Create` has read is the planned one, and still there unless others touched a set
(`OwnerStands`); that a node the provider made is in the state as it is (`OwnNodeIsKnown`), so that
`StartApply` sees where it is; and that as long as a set is to be destroyed, the node is in another
one or is destroyed before, and the planned one is another (`DoomedSetIsLeft`); a set that the apply
has torn down and not yet destroyed is one of them. The last needs that every attribute of a node
forces a replacement, and it is where terraform's order of steps enters.

**ResourceProofs**: `Typing`, `StateTellsTheTruth`, `AppliesSettle`, `DriftShows`,
`OthersObjectsStay`, for every kind `k` with `Sound(k)`, and `SoundResourceWorks`, which is the four
properties together. The handlers are the same for all kinds, so what is proved of them is proved
once; `Sound` is what it takes of a kind. Its six parts are facts about single conversions, with no
steps in them: a plan that does not replace keeps the ID (`Planning`); a Read of what was read adds
nothing (`Reading`); a creation and an update store an object that reads back as the state that the
apply leaves, for which nothing is planned (`Creating`, `Updating`); others leave an object its ID
(`Editing`); and an object whose labels tell the scope in the state, and which reads back as what is
planned, is as configured (`Telling`). `Reading`, `Creating` and `Updating` also say when the labels
tell the scope (`ShowsScope`), which kinds without a scope always do. The invariant adds to the
checked ones that IDs are unique (`DistinctIds`), that a plan under way was made from a
configuration, and from the present configuration and state unless one was edited (`PlanFits`), that
the handler fits the state (`HandlersFit`), what the histories have in common (`HistoryFits`), and
that the labels of the object tell the scope in the state unless others took them (`ScopeFits`).
Without `PlanFits`, `NoSpuriousDiff` is not inductive: the plan could be anything.

**ResourcesProofs**: `ClusterWorks`, `MachineSetWorks`, `PatchWorks`, `ClassWorks`,
`ExtensionsWorks`, `DiskWorks`, `ManifestWorks`, `HealthCheckWorks`, `S3Works`, `UserWorks`,
`PresetWorks`. Each instantiates `ResourceProofs` for one kind (`ClusterLife` and so on: the choice
that the operators `Kind...` of `Resources` make for it, with the kind fixed), proves `Sound` of its
conversions (`ClusterIsSound`, ...), and concludes the four properties of `Resource` for every value
of the constants that satisfies the kind's hypotheses. These are at the end of `Resources`
(`ClusterValues`, `PatchValues`, ...), and TLC evaluates them on the values of the instance
(`ValuesAssumption` of `MCResources`). They say two kinds of things. Null, the unknown value and the
empty text are no values of an attribute, nor records of one, and the texts that stand for something
(such as `WholeId`) are no names. And what the resources do *not* read back as it was written is not
configured: an interval of zero, a version with a `v` (the runs `zero_interval` and `version_prefix`
show that the properties fail there), a number that does not fit a word, a negative weight of a
patch or a manifest, text with white space around it or, in a kernel argument, white space that the
validator does not know, capital letters in an address, empty lists of a preset, and the machine set
names that the code reserves. The properties are false without these. So the theorems say nothing of
such configurations, which the schemas and validators let through: their plans never settle, or
replace the object every time. Refusals by Omni's own validation are whatever `Refused` and
`BadData` hold. The preset is the only kind whose soundness rests on an induction: its kernel
arguments are joined into one text and split again (`FieldsOfWords`), and `FlattenSeq` is a
recursive function (`OneWordEach`, by the least number that it fails for).

**ResourceIdsProofs**: `Typing`, `Recovery`, `Order`, `Apart`, for texts of every length and every
weight, where the run has texts of a few characters. The only assumption is
`ResourcesAssumption`: the resources are what the validators let through. The invariant adds that
every object is the one its resource asked for, perhaps without its annotation (`Made`). The work is
in the texts. The library's induction theorems take an operator as a parameter, which the provers
cannot instantiate; so an induction is done by the least counterexample. `LeastNumber`, that a set
of natural numbers that is not empty has a least one, follows from the library's well-founded order
on finite sets. With it the recursive functions are shown to exist (`DecimalDefined`,
`NumberDefined`), a number to come back from its digits, whatever zeros are before it
(`NumberOfDecimal`, `NumberOfPadded`), and with the dash as the first character that is no digit, a
weight to come back from the ID (`WeightIsCutOff`). That two texts are joined by a dash in one way
only, if there is none in the first, is `SplitAtDash`: with it IDs say what they were made of, a
negative weight included, whose ID starts with a dash (`PatchesApart`). Weights below 1000 have
three digits (`ThreeDigits`), and the first that differs decides the order of the IDs. The proof
showed that `ApartWithoutDashes` needs `SharedTarget`: without it the property is false, and the
instance now has a machine in the scopes of two clusters.

**Only model-checked**: liveness (`EveryCallReturns`, `ApplyEnds`, `RetriesConverge`, `Converges`,
`RefreshHeals`), which the prover cannot do under fairness. Every invariant and every action property
of the passing runs is stated by a theorem, those of `MCResources` kind by kind.

## Disagreements found

- `zero_interval`: `reconcileDuration` answers null for a server duration of zero before it compares
  with the existing value. `backup_interval = "0s"`, which the documentation allows, is planned
  again and again, against the function's own comment ("To avoid spurious diffs, the existing state
  value is preserved whenever it parses to the same duration", `util.go:127-128`).
- `unlisted_key`: after an import the resource has a `public_key_id` and no key; the comment at
  `omni_service_account_resource.go:397-398` says the ID that is left in place is the one "this
  resource holds the private half of".
- `rollback_by_name`: the rollback of the infra provider destroys whatever has the name, which may
  be another workspace's new provider, against "a provider created earlier in a failed operation"
  (`omni_infra_provider_resource.go:166`). It needs a deletion and a creation by others while the
  service account call runs.
- `version_prefix`: the preset's version is stored without a leading "v" "so it round-trips back into
  state unchanged" (`omni_installation_media_preset_resource.go:525-526`); the plan, with the "v", goes
  into the state, `Read` brings the version back without it, and every plan after shows a change.
- `scopes_collide`: "distinct scopes never collide" (`omni_machine_extensions_resource.go:139-140`);
  the extensions of a cluster `a-b` and those of the set `b` of cluster `a` have one ID.

## What is not modelled

- Provider configuration and `main.go`: they run once, before any handler, and change nothing after.
- The data sources of users and accounts: one list or get, copied into attributes.
- Formatting, logging, descriptions, PGP, RPC transport: no property is about them.
- The COSI runtime, terraform core and Omni are external, modelled from how `src/` uses them.
- What the models or their instances leave out on purpose; the reason is at the hazard in
  `PROJECT.json`. The instance of `resources` has no numbers beyond 32 bits, no leading `v` in a
  cluster's version, no negative weights, no capitals in a user's address, no padded texts of the S3 configuration but a bucket of white space, no
  healthcheck interval of zero, no kernel arguments with a Unicode space and no empty `extensions` or
  `kernel_args` of a preset (read back as null), each of which the modules have, because the plan would
  never settle. That a negative weight comes back from an ID, that drift behind a removed label, a
  teardown by others or a change of an allocation type that is not configured is seen, and that a preset follows the factory it was pinned to, is promised
  nowhere.
- What a failing apply callback has changed in its copy; the time by which Omni's factory records
  lag behind its configuration; the finalizers that a deletion waits for, outside `ManagedState`:
  elsewhere the wait is the time between the two steps of a deletion.

## The plan

Done: `AtomicState` and `ManagedState`, `ServiceAccount`, `InfraProvider`, `MachineSetNode`,
`InstallationMedia` and `ResourceIds`, each with proofs; `Resource` with eleven kinds, each with a
proof that its conversions are sound. Left are the hazards without a property
(`PROJECT.json` says why at each) and liveness, which stays with TLC.

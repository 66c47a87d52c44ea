CONSTANTS
  Null = Null
  Unknown = Unknown
  n1 = n1
  n2 = n2
  d1 = d1
  d2 = d2
  Kinds = {"cluster"}
  MaxEvents = 0
  Versions = {1, 2}
  Flags = {"disk_encryption"}
  Intervals <- MCZeroInterval
  Prefixes = {FALSE}
  Refused <- MCRefused
  Clusters = {"a"}
  Names = {"extra"}
  Sizes = {0, 1}
  Updates <- MCUpdates
  Deletes <- MCDeletes
  ClassBlocks <- MCClassBlocks
  Classes = {"c"}
  Snapshots = {"s"}
  Word = 4
  PatchNames = {n1}
  Weights = {100}
  MachineSets = {"ms"}
  Machines = {"m1"}
  Data = {d1, d2}
  Lists <- MCLists
  Providers = {"proxmox"}
  ExtensionSets <- MCExtensionSets
  Disks = {"sda", "sdb"}
  DiskSelectors = {"ssd"}
  Buckets <- MCBuckets
  Regions <- MCRegions
  Keys = {"k"}
  Tokens = {"t"}
  Emails <- MCEmails
  Roles = {"Reader", "Admin"}
  Presets <- MCPresets
  MediaVersions = {"1.13"}
  JoinTokens = {"t"}
  Architectures = {"arm64"}
  Platforms = {"aws"}
  Overlays = {"rpi"}
  Options = {"o"}
  ArgLists <- MCArgLists
  OwnFactory = {"1.13"}
  ConfigsOf <- KindConfigs
  ModelsOf <- KindModels
  ObjectsOf <- KindObjects
  Imported <- KindBlank
  PlanOf <- KindPlanned
  MustReplace <- KindReplaces
  Converts <- KindAccepts
  Created <- KindNewObject
  Updated <- KindApplied
  AfterApply <- KindStored
  ReadBack <- KindToModel
  ObjectId <- KindIdOf
  StateId <- KindIdIn
  EditsOf <- KindForeign
  AsConfigured <- KindMeets
  ShowsScope <- KindShowsScope
  TearsDown <- KindTearsDown
SPECIFICATION Spec
INVARIANT NoSpuriousDiff
CHECK_DEADLOCK FALSE

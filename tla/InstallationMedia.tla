--------------------------- MODULE InstallationMedia ---------------------------
(***************************************************************************)
(* Installation media (installationmedia.go): the preset resource resolves *)
(* the image factory that serves its Talos version and writes it into the  *)
(* preset; the omni_installation_media data source reads a preset, has     *)
(* Omni register a schematic with a factory, then asks Omni for a URL, for *)
(* which Omni chooses the factory once more.  Meanwhile the factories, the *)
(* versions they serve and the preset change.                              *)
(***************************************************************************)
EXTENDS FiniteSets, Naturals

CONSTANTS Null, Failed,
          Versions,
          Plans,        \* of the preset: [version |-> , content |-> ]; the version is Null or
                        \* [v |-> , prefix |-> whether a "v" leads it], the content
                        \* [shape |-> "metal", "cloud" or "sbc", secureBoot |-> , extras |-> ]
          Primaries,    \* URLs of image factories: [host |-> , slash |-> whether one ends them]
          Secondaries,  \* the same, or Null: there is no secondary factory
          Requests,     \* [format |-> "raw", ..., ttl |-> download_token_ttl: "1h", "0s", "junk"];
                        \* what is left out is Null
          MaxChanges    \* bound: edits, changes of the factories, failed calls

ASSUME MaxChangesAssumption == MaxChanges \in Nat

\* There always is a primary factory.
ASSUME PrimaryAssumption == Null \notin Primaries

VARIABLES
  primary, secondary, \* the factories in Omni's features config
  served,      \* the versions that the secondary factory serves
  default,     \* Omni's default version
  preset,      \* the preset at Omni, Null when there is none
  registered,  \* schematics and the factories they are registered with
  writer,      \* the preset's Create or Update: "idle", "version", "features" or "write"
  plan,        \* its plan
  resolved,    \* the factory it resolved
  request,     \* format and ttl of the data source
  reader,      \* its Read: "idle", "read", "register" or "resolve"
  spec,        \* the copy of the preset it has read
  result,      \* what the last Read ended with: Null, Failed or a URL
  lookedUp,    \* history: no factory changed since the writer began
  pinned,      \* history: nor since it resolved what the preset names
  steady,      \* history: nor since the Read began
  changes

factories == <<primary, secondary, served, default>>
writing == <<writer, plan, resolved, lookedUp>>
reading == <<request, reader, spec, result, steady>>
vars == <<factories, preset, registered, writing, pinned, reading, changes>>

Empty == ""

Change == changes < MaxChanges /\ changes' = changes + 1

--------------------------------------------------------------------------------
(* Factories *)

\* normalizeImageFactoryURL: the trailing slash is no part of the name.
Normal(url) == url.host

\* What the TalosVersion resource records: the URL of a factory of its own, or none.
Recorded(version) ==
  IF secondary # Null /\ version \in served THEN secondary ELSE Null

\* Omni's choice of a factory for a version; one it does not know counts as primary.
ForTalosVersion(version) ==
  IF Recorded(version) # Null THEN Recorded(version) ELSE primary

Configured == {Normal(u) : u \in {primary, secondary} \ {Null}}

\* Factories are configured, dropped, begin and cease to serve a version.  What the TalosVersion
\* resources record follows in the same step; that Omni may write it some time later than the
\* configuration is not modelled.
ChangeFactories ==
  /\ Change
  /\ primary' \in Primaries /\ secondary' \in Secondaries /\ served' \in SUBSET Versions
  /\ secondary' = Null => served' = {}
  /\ <<primary, secondary, served>>' # <<primary, secondary, served>>
  /\ steady' = FALSE /\ pinned' = FALSE /\ lookedUp' = FALSE
  /\ UNCHANGED <<default, preset, registered, writer, plan, resolved, request, reader, spec, result>>

ChangeDefault == /\ Change
                 /\ default' \in Versions \ {default}
                 /\ UNCHANGED <<primary, secondary, served, preset, registered, writing, pinned, reading>>

--------------------------------------------------------------------------------
(* The preset resource *)

\* Terraform applies a configuration that was edited.
StartWrite == /\ Change /\ writer = "idle"
              /\ plan' \in Plans /\ writer' = "version"
              /\ lookedUp' = TRUE /\ resolved' = Null
              /\ UNCHANGED <<factories, preset, registered, pinned, reading>>

\* normalizeTalosVersion
Normalized(version) == IF version = Null THEN Empty ELSE version.v

LookedUpBy(version) ==
  LET url == Recorded(version)
  IN  /\ writer = "version"
      /\ \/ url # Null /\ resolved' = Normal(url) /\ writer' = "write"
         \/ url = Null /\ writer' = "features" /\ UNCHANGED resolved
      /\ UNCHANGED <<factories, preset, registered, plan, lookedUp, pinned, reading, changes>>

\* The version looked up as the plan has it: Omni knows none with a "v".
LookUpAsWritten ==
  LookedUpBy(IF plan.version # Null /\ plan.version.prefix THEN Empty
             ELSE Normalized(plan.version))

\* resolveImageFactoryURL: the factory recorded for a pinned version ...
LookUpVersion == LookedUpBy(Normalized(plan.version))

LookUpRaw == /\ writer = "features"
             /\ resolved' = primary /\ writer' = "write"
             /\ UNCHANGED <<factories, preset, registered, plan, lookedUp, pinned, reading, changes>>

\* ... and the primary factory for any other.
LookUpFeatures == /\ writer = "features"
                  /\ resolved' = Normal(primary) /\ writer' = "write"
                  /\ UNCHANGED <<factories, preset, registered, plan, lookedUp, pinned, reading, changes>>

\* Create or Update; Omni takes none but the factories that are configured.
WritePreset ==
  /\ writer = "write"
  /\ writer' = "idle" /\ plan' = Null /\ resolved' = Null /\ lookedUp' = FALSE
  /\ \/ /\ resolved \in Configured
        /\ preset' = [version |-> Normalized(plan.version), content |-> plan.content,
                      factory |-> resolved]
        /\ pinned' = lookedUp
     \/ resolved \notin Configured /\ UNCHANGED <<preset, pinned>>
  /\ UNCHANGED <<factories, registered, reading, changes>>

\* A call that fails ends the apply.
WriteFails == /\ Change /\ writer # "idle"
              /\ writer' = "idle" /\ plan' = Null /\ resolved' = Null /\ lookedUp' = FALSE
              /\ UNCHANGED <<factories, preset, registered, pinned, reading>>

\* The preset is destroyed, or others save it with another factory that is configured.
OthersWrite == /\ Change
               /\ preset # Null /\ pinned' = FALSE
               /\ \/ preset' = Null
                  \/ \E h \in Configured : preset' = [preset EXCEPT !.factory = h]
               /\ UNCHANGED <<factories, registered, writing, reading>>

--------------------------------------------------------------------------------
(* What to ask Omni for: mediaTargetFromPreset *)

\* validDiskImageFormat
ValidSuffix(format) == format # "a/b"

\* A format is for bare metal only; single-board computers have no secure boot.
HasTarget(content, format) ==
  CASE content.shape = "metal" -> format # Null => ValidSuffix(format)
    [] content.shape = "cloud" -> format = Null
    [] content.shape = "sbc" -> format = Null /\ ~content.secureBoot

Disk(platform, suffix) == [kind |-> "disk", platform |-> platform, format |-> suffix]

\* "raw" is an alias; a cloud platform has a suffix of its own.
Target(content, format) ==
  CASE content.shape = "cloud" -> Disk("cloud", "platform's")
    [] content.shape = "sbc" -> Disk("metal", "raw.xz")
    [] content.shape = "metal" /\ format \in {Null, "iso"} ->
         [kind |-> "iso", platform |-> "metal", format |-> Null]
    [] content.shape = "metal" /\ format = "pxe" ->
         [kind |-> "pxe", platform |-> "metal", format |-> Null]
    [] OTHER -> Disk("metal", IF format = "raw" THEN "raw.xz" ELSE format)

\* schematicRequestFromPreset: the overlay is that of the board; the factory the preset names
\* is left out.
Schematic(content) == [extras |-> content.extras, overlay |-> content.shape = "sbc"]

ValidTTL(ttl) == ttl \notin {"junk", "0s"}

--------------------------------------------------------------------------------
(* Read of the data source *)

\* A Read sets the state with a URL, or reports an error and sets none.
Ended(r) == /\ reader' = "idle" /\ result' = r
            /\ spec' = IF r = Failed THEN Null ELSE spec
            /\ steady' = (steady /\ r # Failed)
            /\ UNCHANGED <<factories, preset, registered, writing, pinned, request>>

End(r) == Ended(r) /\ UNCHANGED changes

BeginCached == /\ reader = "idle" /\ reader' = "read" /\ steady' = TRUE
               /\ spec' = IF spec = Null THEN preset ELSE spec
               /\ UNCHANGED <<factories, preset, registered, writing, pinned, request, result, changes>>

\* Terraform reads data sources at every run: the preset is read once.
Begin == /\ reader = "idle" /\ reader' = "read" /\ steady' = TRUE
         /\ spec' = preset
         /\ UNCHANGED <<factories, preset, registered, writing, pinned, request, result, changes>>

\* Whether the two choices of a factory that Omni will make may differ: an unpinned preset
\* beside a secondary factory.
NeverAmbiguous(version) == FALSE
Ambiguous(version) == version = Empty /\ secondary # Null

\* The preset is there, the request fits it, and its factory is not in doubt.
CheckRequest ==
  LET ok == /\ spec # Null
            /\ HasTarget(spec.content, request.format) /\ ValidTTL(request.ttl)
            /\ ~Ambiguous(spec.version)
  IN  /\ reader = "read"
      /\ \/ ~ok /\ End(Failed)
         \/ /\ ok /\ reader' = "register"
            /\ UNCHANGED <<factories, preset, registered, writing, pinned, request, spec, result,
                           steady, changes>>

\* CreateSchematic: without a version Omni takes the primary factory.
CreateSchematic ==
  LET url == IF spec.version = Empty THEN primary ELSE ForTalosVersion(spec.version)
  IN  /\ reader = "register" /\ reader' = "resolve"
      /\ registered' = registered \cup {[schematic |-> Schematic(spec.content),
                                         factory |-> Normal(url)]}
      /\ UNCHANGED <<factories, preset, writing, pinned, request, spec, result, steady, changes>>

\* The URL Omni makes for a preset: without a version it takes its default version's factory.
URL(p) == LET version == IF p.version = Empty THEN default ELSE p.version
          IN  [factory |-> Normal(ForTalosVersion(version)), version |-> version,
               schematic |-> Schematic(spec.content),
               media |-> Target(p.content, request.format)]

ResolveReread == reader = "resolve" /\ End(IF preset = Null THEN Failed ELSE URL(preset))

\* GetInstallationMediaURL
Resolve == reader = "resolve" /\ End(URL(spec))

\* A call that fails ends the Read; a schematic that was registered stays.
ReadFails == /\ Change /\ reader # "idle"
             /\ Ended(Failed)

--------------------------------------------------------------------------------
Init == /\ primary \in Primaries /\ secondary \in Secondaries /\ served \in SUBSET Versions
        /\ secondary = Null => served = {}
        /\ default \in Versions
        /\ preset = Null /\ registered = {}
        /\ writer = "idle" /\ plan = Null /\ resolved = Null
        /\ request \in Requests
        /\ reader = "idle" /\ spec = Null /\ result = Null
        /\ lookedUp = FALSE /\ pinned = FALSE /\ steady = FALSE
        /\ changes = 0

Read == Begin \/ CheckRequest \/ CreateSchematic \/ Resolve

Write == LookUpVersion \/ LookUpFeatures \/ WritePreset

Next == \/ ChangeFactories \/ ChangeDefault
        \/ StartWrite \/ Write \/ WriteFails \/ OthersWrite
        \/ Read \/ ReadFails

\* Handlers go on, and terraform runs again.
Spec == Init /\ [][Next]_vars /\ WF_vars(Read) /\ WF_vars(Write)

--------------------------------------------------------------------------------
(* Properties *)

IsURL(r) == r \notin {Null, Failed}

\* The factory of a URL has the schematic: the two choices of a factory that Omni makes for a
\* Read agree, if the factories stay what they are meanwhile.
UrlIsServed ==
  reader = "idle" /\ IsURL(result) /\ steady =>
    [schematic |-> result.schematic, factory |-> result.factory] \in registered

\* A URL is for one preset: version, schematic and medium are those of the preset as it was
\* when it was read, whatever became of it since.
UrlFitsPreset ==
  reader = "idle" /\ IsURL(result) =>
    /\ result.schematic = Schematic(spec.content)
    /\ result.media = Target(spec.content, request.format)
    /\ spec.version # Empty => result.version = spec.version

\* The factory that is written into the preset, where omnictl looks, is the one that the URL
\* leads to, if the factories stay what they are since it was resolved.
PinnedFactoryAgrees ==
  reader = "idle" /\ IsURL(result) /\ steady /\ pinned /\ spec = preset =>
    result.factory = preset.factory

\* A preset is refused only when the factories change under way.
FactoryIsAccepted == writer = "write" /\ lookedUp => resolved \in Configured

\* When nothing changes any more, the next Reads find what is there: a URL that is served, or
\* an error where there is no preset, no medium or no certain factory for it.
Right == IF /\ preset # Null
            /\ HasTarget(preset.content, request.format) /\ ValidTTL(request.ttl)
            /\ ~(preset.version = Empty /\ secondary # Null)
           THEN /\ IsURL(result)
                /\ [schematic |-> Schematic(preset.content), factory |-> result.factory]
                     \in registered
                /\ result.schematic = Schematic(preset.content)
                /\ result.factory = Normal(ForTalosVersion(preset.version))
           ELSE result = Failed

RefreshHeals == <>[]Right

================================================================================

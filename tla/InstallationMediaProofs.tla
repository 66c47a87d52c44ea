------------------------ MODULE InstallationMediaProofs ------------------------
(***************************************************************************)
(* For every set of plans, requests, versions and factories and every      *)
(* number of changes: the safety properties of InstallationMedia.  An      *)
(* apply of the preset and a Read of the data source each choose a factory *)
(* by several calls; the invariant says what each of them has established  *)
(* by the call it makes next.                                              *)
(***************************************************************************)
EXTENDS InstallationMedia, TLAPS

Writers == {"idle", "version", "features", "write"}
Readers == {"idle", "read", "register", "resolve"}

\* The apply: no factory is recorded for the version; the factory is the one Omni will choose;
\* so is the one in the preset.
LookUpIsRight ==
  /\ writer = "features" /\ lookedUp => Recorded(Normalized(plan.version)) = Null
  /\ writer = "write" /\ lookedUp =>
       resolved = Normal(ForTalosVersion(Normalized(plan.version)))
  /\ pinned /\ preset # Null => preset.factory = Normal(ForTalosVersion(preset.version))

\* A version that is left out leads to one factory only.
Certain(version) == version = Empty => secondary = Null

\* The Read: the choice is not in doubt, and the schematic is where it leads.
ReadIsRight ==
  /\ reader \in {"register", "resolve"} => spec # Null /\ (steady => Certain(spec.version))
  /\ reader = "resolve" /\ steady =>
       [schematic |-> Schematic(spec.content), factory |-> Normal(ForTalosVersion(spec.version))]
         \in registered

\* The URL leads to the factory that is chosen for the version of the preset.
UrlIsRight ==
  reader = "idle" /\ IsURL(result) /\ steady =>
    /\ spec # Null /\ Certain(spec.version)
    /\ result.factory = Normal(ForTalosVersion(spec.version))

IInv == /\ primary \in Primaries /\ writer \in Writers /\ reader \in Readers
        /\ LookUpIsRight /\ ReadIsRight /\ UrlIsRight
        /\ UrlIsServed /\ UrlFitsPreset

LEMMA InitHolds == Init => IInv
  BY DEF Init, IInv, Writers, Readers, LookUpIsRight, ReadIsRight, UrlIsRight, UrlIsServed,
     UrlFitsPreset, IsURL

--------------------------------------------------------------------------------
(* Factories *)

\* Nothing is promised about a factory while the factories change.
LEMMA ChangeFactoriesKeeps == ASSUME IInv, ChangeFactories PROVE IInv'
  <1>1. primary' \in Primaries /\ writer' \in Writers /\ reader' \in Readers
    BY DEF IInv, ChangeFactories
  <1>2. LookUpIsRight' /\ ReadIsRight' /\ UrlIsRight'
    BY DEF IInv, ChangeFactories, LookUpIsRight, ReadIsRight, UrlIsRight
  <1>3. UrlIsServed' /\ UrlFitsPreset'
    BY DEF IInv, ChangeFactories, UrlIsServed, UrlFitsPreset, IsURL, Schematic, Target, Disk
  <1>4. QED
    BY <1>1, <1>2, <1>3 DEF IInv

\* What a step that leaves Read, its request and the schematics alone cannot disturb.
LEMMA ReadingStays ==
  ASSUME IInv, UNCHANGED <<primary, secondary, served, registered, reading>>
  PROVE  ReadIsRight' /\ UrlIsRight' /\ UrlIsServed' /\ UrlFitsPreset' /\ reader' \in Readers
  <1>1. /\ \A v : ForTalosVersion(v)' = ForTalosVersion(v)
        /\ \A v : Certain(v)' <=> Certain(v)
    BY DEF Recorded, ForTalosVersion, Certain
  <1>2. ReadIsRight' /\ UrlIsRight'
    BY <1>1 DEF IInv, reading, ReadIsRight, UrlIsRight, IsURL, Schematic, Normal
  <1>3. UrlIsServed' /\ UrlFitsPreset' /\ reader' \in Readers
    BY DEF IInv, reading, UrlIsServed, UrlFitsPreset, IsURL, Schematic, Target, Disk
  <1>4. QED
    BY <1>2, <1>3

\* What a step that leaves the apply and the preset alone cannot disturb.
LEMMA WritingStays ==
  ASSUME IInv, UNCHANGED <<primary, secondary, served, preset, writing, pinned>>
  PROVE  LookUpIsRight' /\ primary' \in Primaries /\ writer' \in Writers
  <1>1. \A v : Recorded(v)' = Recorded(v) /\ ForTalosVersion(v)' = ForTalosVersion(v)
    BY DEF Recorded, ForTalosVersion
  <1>2. QED
    BY <1>1 DEF IInv, writing, LookUpIsRight, Normalized, Normal

LEMMA ChangeDefaultKeeps == ASSUME IInv, ChangeDefault PROVE IInv'
  BY ReadingStays, WritingStays DEF IInv, ChangeDefault

--------------------------------------------------------------------------------
(* The preset resource *)

LEMMA StartWriteKeeps == ASSUME IInv, StartWrite PROVE IInv'
  <1>1. ReadIsRight' /\ UrlIsRight' /\ UrlIsServed' /\ UrlFitsPreset' /\ reader' \in Readers
    BY ReadingStays DEF StartWrite, factories
  <1>2. LookUpIsRight' /\ primary' \in Primaries /\ writer' \in Writers
    BY DEF IInv, StartWrite, factories, LookUpIsRight, Writers, ForTalosVersion, Recorded, Normal
  <1>3. QED
    BY <1>1, <1>2 DEF IInv

\* Either call finds the factory that Omni chooses for the version.
LEMMA LookUpVersionKeeps == ASSUME IInv, LookUpVersion PROVE IInv'
  <1>1. ReadIsRight' /\ UrlIsRight' /\ UrlIsServed' /\ UrlFitsPreset' /\ reader' \in Readers
    BY ReadingStays DEF LookUpVersion, LookedUpBy, factories
  <1>2. LookUpIsRight' /\ primary' \in Primaries /\ writer' \in Writers
    BY DEF IInv, LookUpVersion, LookedUpBy, factories, LookUpIsRight, Writers, ForTalosVersion,
       Recorded, Normal, Normalized
  <1>3. QED
    BY <1>1, <1>2 DEF IInv

LEMMA LookUpFeaturesKeeps == ASSUME IInv, LookUpFeatures PROVE IInv'
  <1>1. ReadIsRight' /\ UrlIsRight' /\ UrlIsServed' /\ UrlFitsPreset' /\ reader' \in Readers
    BY ReadingStays DEF LookUpFeatures, factories
  <1>2. LookUpIsRight' /\ primary' \in Primaries /\ writer' \in Writers
    BY DEF IInv, LookUpFeatures, factories, LookUpIsRight, Writers, ForTalosVersion, Recorded,
       Normal, Normalized
  <1>3. QED
    BY <1>1, <1>2 DEF IInv

\* The preset names the factory of its version.
LEMMA WritePresetKeeps == ASSUME IInv, WritePreset PROVE IInv'
  <1>1. ReadIsRight' /\ UrlIsRight' /\ UrlIsServed' /\ UrlFitsPreset' /\ reader' \in Readers
    BY ReadingStays DEF WritePreset, factories
  <1>2. LookUpIsRight' /\ primary' \in Primaries /\ writer' \in Writers
    BY DEF IInv, WritePreset, factories, LookUpIsRight, Writers, ForTalosVersion, Recorded, Normal
  <1>3. QED
    BY <1>1, <1>2 DEF IInv

LEMMA WriteFailsKeeps == ASSUME IInv, WriteFails PROVE IInv'
  <1>1. ReadIsRight' /\ UrlIsRight' /\ UrlIsServed' /\ UrlFitsPreset' /\ reader' \in Readers
    BY ReadingStays DEF WriteFails, factories
  <1>2. LookUpIsRight' /\ primary' \in Primaries /\ writer' \in Writers
    BY DEF IInv, WriteFails, factories, LookUpIsRight, Writers, ForTalosVersion, Recorded, Normal
  <1>3. QED
    BY <1>1, <1>2 DEF IInv

LEMMA OthersWriteKeeps == ASSUME IInv, OthersWrite PROVE IInv'
  <1>1. ReadIsRight' /\ UrlIsRight' /\ UrlIsServed' /\ UrlFitsPreset' /\ reader' \in Readers
    BY ReadingStays DEF OthersWrite, factories
  <1>2. LookUpIsRight' /\ primary' \in Primaries /\ writer' \in Writers
    BY DEF IInv, OthersWrite, factories, writing, LookUpIsRight, ForTalosVersion, Recorded, Normal
  <1>3. QED
    BY <1>1, <1>2 DEF IInv

--------------------------------------------------------------------------------
(* The data source *)

LEMMA BeginKeeps == ASSUME IInv, Begin PROVE IInv'
  <1>1. LookUpIsRight' /\ primary' \in Primaries /\ writer' \in Writers
    BY WritingStays DEF Begin, factories
  <1>2. /\ ReadIsRight' /\ UrlIsRight' /\ UrlIsServed' /\ UrlFitsPreset' /\ reader' \in Readers
    BY DEF Begin, ReadIsRight, UrlIsRight, UrlIsServed, UrlFitsPreset, Readers
  <1>3. QED
    BY <1>1, <1>2 DEF IInv

\* A Read that fails promises nothing.
LEMMA FailedReadKeeps == ASSUME IInv, Ended(Failed) PROVE IInv'
  <1>1. LookUpIsRight' /\ primary' \in Primaries /\ writer' \in Writers
    BY WritingStays DEF Ended, factories
  <1>2. ReadIsRight' /\ UrlIsRight' /\ UrlIsServed' /\ UrlFitsPreset' /\ reader' \in Readers
    BY DEF Ended, ReadIsRight, UrlIsRight, UrlIsServed, UrlFitsPreset, Readers, IsURL
  <1>3. QED
    BY <1>1, <1>2 DEF IInv

LEMMA CheckRequestKeeps == ASSUME IInv, CheckRequest PROVE IInv'
  <1>1. CASE End(Failed)
    BY <1>1, FailedReadKeeps DEF End
  <1>2. CASE reader' = "register"
    <2>1. LookUpIsRight' /\ primary' \in Primaries /\ writer' \in Writers
      BY <1>2, WritingStays DEF CheckRequest, End, Ended, factories
    <2>2. spec' = spec /\ spec # Null /\ ~Ambiguous(spec.version) /\ secondary' = secondary
      BY <1>2 DEF CheckRequest, End, Ended, factories
    <2>3. ReadIsRight' /\ UrlIsRight' /\ UrlIsServed' /\ UrlFitsPreset' /\ reader' \in Readers
      BY <1>2, <2>2 DEF ReadIsRight, UrlIsRight, UrlIsServed, UrlFitsPreset, Readers, Certain,
         Ambiguous
    <2>4. QED
      BY <2>1, <2>3 DEF IInv
  <1>3. QED
    BY <1>1, <1>2 DEF CheckRequest

\* The schematic is registered with the factory of the version, since there is no second
\* factory for a version that is left out.
LEMMA CreateSchematicKeeps == ASSUME IInv, CreateSchematic PROVE IInv'
  <1>1. LookUpIsRight' /\ primary' \in Primaries /\ writer' \in Writers
    BY WritingStays DEF CreateSchematic, factories
  <1>2. spec # Null /\ (steady => Certain(spec.version))
    BY DEF IInv, CreateSchematic, ReadIsRight
  <1>3. steady => Normal(IF spec.version = Empty THEN primary ELSE ForTalosVersion(spec.version))
                    = Normal(ForTalosVersion(spec.version))
    BY <1>2 DEF Certain, ForTalosVersion, Recorded
  <1>4. ReadIsRight'
    BY <1>2, <1>3 DEF CreateSchematic, ReadIsRight, factories, Certain, ForTalosVersion, Recorded,
       Normal, Schematic
  <1>5. UrlIsRight' /\ UrlIsServed' /\ UrlFitsPreset' /\ reader' \in Readers
    BY DEF CreateSchematic, UrlIsRight, UrlIsServed, UrlFitsPreset, Readers
  <1>6. QED
    BY <1>1, <1>4, <1>5 DEF IInv

\* Whichever version Omni takes for one that is left out, its factory is the same.
LEMMA ResolveKeeps == ASSUME IInv, Resolve PROVE IInv'
  <1>1. LookUpIsRight' /\ primary' \in Primaries /\ writer' \in Writers
    BY WritingStays DEF Resolve, End, Ended, factories
  <1>2. CASE URL(spec) = Failed
    BY <1>2, FailedReadKeeps DEF Resolve, End
  <1>3. CASE URL(spec) # Failed
    <2>1. /\ reader' = "idle" /\ result' = URL(spec) /\ spec' = spec /\ (steady' => steady)
          /\ UNCHANGED <<factories, registered, request>>
      BY <1>3 DEF Resolve, End, Ended
    <2>2. /\ spec # Null
          /\ steady => /\ Certain(spec.version)
                       /\ [schematic |-> Schematic(spec.content),
                           factory |-> Normal(ForTalosVersion(spec.version))] \in registered
      BY DEF IInv, Resolve, ReadIsRight
    <2>3. /\ URL(spec).schematic = Schematic(spec.content)
          /\ URL(spec).media = Target(spec.content, request.format)
          /\ spec.version # Empty => URL(spec).version = spec.version
          /\ URL(spec).factory =
               Normal(ForTalosVersion(IF spec.version = Empty THEN default ELSE spec.version))
      BY DEF URL
    <2>4. steady => URL(spec).factory = Normal(ForTalosVersion(spec.version))
      BY <2>2, <2>3 DEF Certain, ForTalosVersion, Recorded
    <2>5. UrlIsServed' /\ UrlFitsPreset'
      BY <2>1, <2>2, <2>3, <2>4 DEF UrlIsServed, UrlFitsPreset, Schematic, Target, Disk
    <2>6. UrlIsRight'
      BY <2>1, <2>2, <2>4 DEF UrlIsRight, factories, Certain, ForTalosVersion, Recorded, Normal
    <2>7. ReadIsRight' /\ reader' \in Readers
      BY <2>1 DEF ReadIsRight, Readers
    <2>8. QED
      BY <1>1, <2>5, <2>6, <2>7 DEF IInv
  <1>4. QED
    BY <1>2, <1>3

--------------------------------------------------------------------------------
(* The specification *)

LEMMA NextKeeps == ASSUME IInv, Next PROVE IInv'
  BY ChangeFactoriesKeeps, ChangeDefaultKeeps, StartWriteKeeps, LookUpVersionKeeps,
     LookUpFeaturesKeeps, WritePresetKeeps, WriteFailsKeeps, OthersWriteKeeps, BeginKeeps,
     FailedReadKeeps, CheckRequestKeeps, CreateSchematicKeeps, ResolveKeeps
     DEF Next, Read, Write, ReadFails

LEMMA StutterKeeps == ASSUME IInv, UNCHANGED vars PROVE IInv'
  BY ReadingStays, WritingStays DEF IInv, vars, factories

\* The inductive invariant: what each call of an apply and of a Read may count on, whatever
\* happens between the calls.
THEOREM Invariance == Spec => []IInv
  <1>1. IInv /\ [Next]_vars => IInv'
    BY NextKeeps, StutterKeeps
  <1>2. QED
    BY <1>1, InitHolds, PTL DEF Spec

\* A Read leads to a factory that has the schematic, if the factories stay what they are
\* meanwhile: CreateSchematic and GetInstallationMediaURL choose alike for every version that
\* the check in Read lets through.
THEOREM UrlsAreServed == Spec => []UrlIsServed
  <1>1. IInv => UrlIsServed
    BY DEF IInv
  <1>2. QED
    BY <1>1, Invariance, PTL

\* A URL is for one preset as it was read, although it is edited, destroyed and made again
\* between the calls.
THEOREM UrlsFitTheirPreset == Spec => []UrlFitsPreset
  <1>1. IInv => UrlFitsPreset
    BY DEF IInv
  <1>2. QED
    BY <1>1, Invariance, PTL

\* The factory that the resource writes into the preset is the one that the data source is led
\* to, though they find it by different calls.
THEOREM ResourceAndDataSourceAgree == Spec => []PinnedFactoryAgrees
  <1>1. IInv => PinnedFactoryAgrees
    BY DEF IInv, LookUpIsRight, UrlIsRight, PinnedFactoryAgrees
  <1>2. QED
    BY <1>1, Invariance, PTL

\* An apply writes none but a configured factory, if the factories stay what they are since it
\* began: Omni does not refuse it.
THEOREM ResolvedFactoryIsConfigured == Spec => []FactoryIsAccepted
  <1>1. IInv => FactoryIsAccepted
    <2> SUFFICES ASSUME IInv, writer = "write", lookedUp PROVE resolved \in Configured
      BY DEF FactoryIsAccepted
    <2>1. PICK v : resolved = Normal(ForTalosVersion(v))
      BY DEF IInv, LookUpIsRight
    <2>2. ForTalosVersion(v) \in {primary, secondary} \ {Null}
      BY PrimaryAssumption DEF IInv, ForTalosVersion, Recorded
    <2>3. QED
      BY <2>1, <2>2 DEF Configured
  <1>2. QED
    BY <1>1, Invariance, PTL

================================================================================

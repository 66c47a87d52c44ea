---------------------------- MODULE ResourcesProofs ----------------------------
(***************************************************************************)
(* The resources whose conversions are sound, and what follows from        *)
(* ResourceProofs for each: whatever versions, names, sizes, ... may be    *)
(* configured.  ...Life is Resource for one kind, the choice that the      *)
(* operators Kind... of Resources make for it; ...IsSound proves the six   *)
(* parts of Sound.                                                         *)
(***************************************************************************)
EXTENDS Resources, FiniteSetTheorems, SequenceTheorems, TLAPS

--------------------------------------------------------------------------------
(* omni_cluster: version, features and backups. *)

\* The interval of an object's backups, as it is read: 0 when there are none.
BackupHeld(o) == IF o.backup # Null /\ o.backup.enabled THEN o.backup.dur ELSE 0

ClusterTexts == Intervals \cup {C!Text(t.dur) : t \in Intervals}

ClusterLife == INSTANCE ResourceProofs WITH
  Kinds <- {C!Kind},
  ConfigsOf <- LAMBDA k : C!Configs, ModelsOf <- LAMBDA k : C!Models,
  ObjectsOf <- LAMBDA k : C!Objects, Imported <- LAMBDA k, id : C!Blank(id),
  PlanOf <- LAMBDA k, c, m : C!Planned(c, m),
  MustReplace <- LAMBDA k, p, m : C!Replaces(p, m),
  Converts <- LAMBDA k, p : C!Accepts(p), Created <- LAMBDA k, p : C!NewObject(p),
  Updated <- LAMBDA k, p, o : C!Applied(p, o),
  AfterApply <- LAMBDA k, p, o : C!Stored(p, o),
  ReadBack <- LAMBDA k, o, m : C!ToModel(o, m),
  ObjectId <- LAMBDA k, o : C!IdOf(o), StateId <- LAMBDA k, m : C!IdIn(m),
  EditsOf <- LAMBDA k, o : C!Foreign(o), AsConfigured <- LAMBDA k, c, o : C!Meets(c, o),
  ShowsScope <- LAMBDA k, o, m : TRUE, TearsDown <- LAMBDA k : TRUE

\* The conversions of the cluster code are sound.
LEMMA ClusterIsSound == ASSUME ClusterValues PROVE ClusterLife!Sound(C!Kind)
  <1>a. ASSUME NEW t \in Intervals
        PROVE  t.dur \in Nat \ {0} /\ t # Null
    BY DEF ClusterValues
  <1>b. ASSUME NEW existing \in {Null} \cup ClusterTexts, NEW d \in {0} \cup {t.dur : t \in Intervals}
        PROVE  LET r == C!ReconcileDuration(existing, d)
               IN  /\ r \in {Null} \cup ClusterTexts /\ (d = 0 <=> r = Null)
                   /\ (r # Null => r.dur = d) /\ C!ReconcileDuration(r, d) = r
    <2>1. CASE d = 0
      BY <2>1 DEF C!ReconcileDuration
    <2>2. CASE d # 0
      <3>1. C!Text(d) \in ClusterTexts /\ C!Text(d).dur = d /\ C!Text(d) # Null
        <4>1. d \in Nat /\ C!Text(d) \in {C!Text(t.dur) : t \in Intervals}
          BY <1>a, <2>2
        <4>2. C!Text(d).dur = d /\ C!Text(d) # Null
          BY <4>1 DEF C!Text, ClusterValues
        <4>3. QED
          BY <4>1, <4>2 DEF ClusterTexts
      <3>2. CASE existing # Null /\ C!ParsesAsDuration(existing) /\ existing.dur = d
        BY <2>2, <3>2 DEF C!ReconcileDuration
      <3>3. CASE ~(existing # Null /\ C!ParsesAsDuration(existing) /\ existing.dur = d)
        <4>1. C!ReconcileDuration(existing, d) = C!Text(d)
          BY <2>2, <3>3 DEF C!ReconcileDuration
        <4>2. C!ReconcileDuration(C!Text(d), d) = C!Text(d)
          BY <2>2, <3>1 DEF C!ReconcileDuration
        <4>3. QED
          BY <2>2, <3>1, <4>1, <4>2
      <3>4. QED
        BY <3>2, <3>3
    <2>3. QED
      BY <2>1, <2>2
  <1>c. ASSUME NEW o \in C!Objects
        PROVE  /\ BackupHeld(o) \in {0} \cup {t.dur : t \in Intervals}
               /\ o.version \in Versions /\ o.features \in SUBSET Flags /\ o.backup \in C!Backups
    BY DEF C!Objects, C!Backups, BackupHeld
  <1>d. ASSUME NEW m \in C!Models
        PROVE  /\ m.id = C!Name /\ m.version \in {Null} \cup [v : Versions, prefix : BOOLEAN]
               /\ m.features \in {Null} \cup SUBSET Flags /\ m.interval \in {Null} \cup ClusterTexts
    BY DEF C!Models, ClusterTexts
  <1>e. ASSUME NEW v \in Versions, NEW x \in BOOLEAN, NEW f \in {Null} \cup SUBSET Flags,
               NEW i \in {Null} \cup ClusterTexts
        PROVE  [id |-> C!Name, version |-> [v |-> v, prefix |-> x], features |-> f,
                interval |-> i] \in C!Models
    BY DEF C!Models, ClusterTexts
  <1>f. ASSUME NEW c \in C!Configs
        PROVE  /\ c.version \in [v : Versions, prefix : {FALSE}]
               /\ c.version = [v |-> c.version.v, prefix |-> FALSE] /\ c.version.v \in Versions
               /\ c.features \in {Null} \cup SUBSET Flags /\ c.interval \in {Null} \cup Intervals
               /\ c.interval \in {Null} \cup ClusterTexts
    BY DEF C!Configs, ClusterValues, ClusterTexts
  <1>g. ASSUME NEW c \in C!Configs
        PROVE  LET p == [id |-> C!Name, version |-> c.version, features |-> c.features,
                         interval |-> c.interval]
               IN  p \in C!Models /\ \A m : C!Planned(c, m) = p
    BY <1>e, <1>f DEF C!Planned
  <1>h. ASSUME NEW o \in C!Objects, NEW m
        PROVE  C!ToModel(o, m) =
                 [id |-> C!Name, version |-> [v |-> o.version, prefix |-> FALSE],
                  features |-> IF o.features # {} \/ m.features # Null THEN o.features ELSE Null,
                  interval |-> C!ReconcileDuration(m.interval, BackupHeld(o))]
    BY DEF C!ToModel, BackupHeld
  <1>1. ClusterLife!Planning(C!Kind)
    <2>1. ASSUME NEW c \in C!Configs, NEW m
          PROVE  C!Planned(c, m) \in C!Models /\ C!Planned(c, m).id = C!Name
      BY <1>g DEF C!Planned
    <2>2. QED
      BY <1>d, <2>1 DEF ClusterLife!Planning, C!IdIn
  <1>2. ClusterLife!Reading(C!Kind)
    <2>1. ASSUME NEW o \in C!Objects, NEW m, m.interval \in {Null} \cup ClusterTexts
          PROVE  LET r == C!ToModel(o, m)
                 IN  r \in C!Models /\ r.id = C!Name /\ C!ToModel(o, r) = r
      <3> DEFINE f == IF o.features # {} \/ m.features # Null THEN o.features ELSE Null
                 i == C!ReconcileDuration(m.interval, BackupHeld(o))
                 r == C!ToModel(o, m)
      <3>1. r = [id |-> C!Name, version |-> [v |-> o.version, prefix |-> FALSE],
                 features |-> f, interval |-> i]
        BY <1>h
      <3>2. i \in {Null} \cup ClusterTexts /\ C!ReconcileDuration(i, BackupHeld(o)) = i
        BY <1>b, <1>c, <2>1
      <3>3. f \in {Null} \cup SUBSET Flags
            /\ f = IF o.features # {} \/ f # Null THEN o.features ELSE Null
        BY <1>c
      <3> HIDE DEF f, i, r
      <3>4. C!ToModel(o, r) = [id |-> C!Name, version |-> [v |-> o.version, prefix |-> FALSE],
                               features |-> IF o.features # {} \/ f # Null THEN o.features ELSE Null,
                               interval |-> C!ReconcileDuration(i, BackupHeld(o))]
        BY <3>1 DEF C!ToModel, BackupHeld
      <3>5. r \in C!Models
        BY <1>c, <1>e, <3>1, <3>2, <3>3
      <3>6. QED
        <4>1. r.id = C!Name
          BY <3>1
        <4>2. C!ToModel(o, r) = r
          BY <3>1, <3>2, <3>3, <3>4
        <4>3. QED
          BY <3>5, <4>1, <4>2 DEF r
    <2>2. \A id : C!Blank(id).interval = Null
      BY DEF C!Blank
    <2>3. QED
      BY <1>d, <2>1, <2>2 DEF ClusterLife!Reading, ClusterLife!IsRead, C!IdIn, C!IdOf
  <1>k. ASSUME NEW c \in C!Configs, NEW p, NEW o,
               p = [id |-> C!Name, version |-> c.version, features |-> c.features,
                    interval |-> c.interval],
               C!Accepts(p)
        PROVE  C!Applied(p, o) \in C!Objects /\ C!ToModel(C!Applied(p, o), p) = p
    <2> DEFINE b == C!Backup(c.interval)
               f == IF c.features = Null THEN {} ELSE c.features
               n == C!Applied(p, o)
    <2>1. n = [version |-> c.version.v, features |-> f, backup |-> b]
      BY <1>k DEF C!Applied, C!Enabled
    <2>2. b \in C!Backups /\ C!ReconcileDuration(c.interval, IF b # Null /\ b.enabled THEN b.dur ELSE 0)
                               = c.interval
      <3>1. CASE c.interval = Null
        BY <3>1 DEF C!Backup, C!Backups, C!ReconcileDuration
      <3>2. CASE c.interval # Null
        <4>1. c.interval \in Intervals /\ C!ParsesAsDuration(c.interval)
          BY <1>f, <1>k, <3>2 DEF C!Accepts
        <4>2. c.interval.dur \in Nat \ {0}
          BY <1>a, <4>1
        <4>3. b = [dur |-> c.interval.dur, enabled |-> TRUE]
          BY <3>2, <4>2 DEF C!Backup
        <4>4. b \in C!Backups /\ b # Null
          <5>1. b \in [dur : {t.dur : t \in Intervals}, enabled : BOOLEAN]
            BY <4>1, <4>3
          <5>2. b \in [dur : Nat, enabled : BOOLEAN]
            BY <4>2, <4>3
          <5> HIDE DEF b
          <5>3. QED
            BY <5>1, <5>2 DEF C!Backups, ClusterValues
        <4>5. C!ReconcileDuration(c.interval, c.interval.dur) = c.interval
          BY <3>2, <4>1, <4>2 DEF C!ReconcileDuration
        <4>6. b.enabled = TRUE /\ b.dur = c.interval.dur
          BY <4>3
        <4> HIDE DEF b
        <4>7. QED
          BY <4>4, <4>5, <4>6
      <3>3. QED
        BY <3>1, <3>2
    <2>3. f \in SUBSET Flags /\ c.features = IF f # {} \/ c.features # Null THEN f ELSE Null
      BY <1>f
    <2> HIDE DEF b, f, n
    <2>4. n \in C!Objects
      BY <1>f, <2>1, <2>2, <2>3 DEF C!Objects
    <2>5. BackupHeld(n) = IF b # Null /\ b.enabled THEN b.dur ELSE 0
      BY <2>1 DEF BackupHeld
    <2>6. C!ToModel(n, p) =
            [id |-> C!Name, version |-> [v |-> c.version.v, prefix |-> FALSE],
             features |-> IF f # {} \/ c.features # Null THEN f ELSE Null,
             interval |-> C!ReconcileDuration(c.interval, BackupHeld(n))]
      BY <1>k, <2>1 DEF C!ToModel, BackupHeld
    <2>7. QED
      BY <1>f, <1>k, <2>2, <2>3, <2>4, <2>5, <2>6 DEF n
  <1>m. ASSUME NEW c \in C!Configs, NEW m, NEW o, C!Accepts(C!Planned(c, m))
        PROVE  LET p == C!Planned(c, m)
                   n == C!Applied(p, o)
               IN  /\ n \in C!Objects /\ p \in C!Models /\ p.id = C!Name
                   /\ C!ToModel(n, p) = p /\ C!Planned(c, p) = p
    <2> DEFINE p == [id |-> C!Name, version |-> c.version, features |-> c.features,
                     interval |-> c.interval]
    <2>1. p \in C!Models /\ C!Planned(c, m) = p /\ C!Planned(c, p) = p /\ p.id = C!Name
      BY <1>g
    <2> HIDE DEF p
    <2>2. C!Applied(p, o) \in C!Objects /\ C!ToModel(C!Applied(p, o), p) = p
      BY <1>k, <1>m, <2>1 DEF p
    <2>3. QED
      BY <2>1, <2>2
  <1>3. ClusterLife!Creating(C!Kind)
    BY <1>m DEF ClusterLife!Creating, ClusterLife!IsRead, C!NewObject, C!Stored, C!IdIn, C!IdOf
  <1>4. ClusterLife!Updating(C!Kind)
    BY <1>m DEF ClusterLife!Updating, C!Stored, C!IdIn, C!IdOf
  <1>5. ClusterLife!Editing(C!Kind)
    BY DEF ClusterLife!Editing, C!Objects, C!Foreign, C!IdOf
  <1>6. ClusterLife!Telling(C!Kind)
    <2>1. ASSUME NEW c \in C!Configs, NEW m \in C!Models, NEW o \in C!Objects,
                 C!ToModel(o, m) = m, C!Planned(c, m) = m
          PROVE  C!Meets(c, o)
      <3>1. /\ m.version = [v |-> o.version, prefix |-> FALSE]
            /\ m.features = IF o.features # {} \/ m.features # Null THEN o.features ELSE Null
            /\ m.interval = C!ReconcileDuration(m.interval, BackupHeld(o))
        BY <2>1 DEF C!ToModel, BackupHeld
      <3>2. m.version = c.version /\ m.features = c.features /\ m.interval = c.interval
        BY <2>1 DEF C!Planned
      <3>3. o.version = c.version.v
        BY <3>1, <3>2
      <3>4. o.features = IF c.features = Null THEN {} ELSE c.features
        BY <1>c, <3>1, <3>2 DEF ClusterValues
      <3>5. IF c.interval = Null \/ c.interval.dur <= 0
              THEN o.backup = Null \/ ~o.backup.enabled \/ o.backup.dur = 0
              ELSE o.backup # Null /\ o.backup.enabled /\ o.backup.dur = c.interval.dur
        <4> DEFINE r == C!ReconcileDuration(c.interval, BackupHeld(o))
        <4>1. (BackupHeld(o) = 0 <=> r = Null) /\ (r # Null => r.dur = BackupHeld(o)) /\ r = c.interval
          BY <1>b, <1>c, <1>f, <3>1, <3>2
        <4> HIDE DEF r
        <4>2. c.interval # Null => c.interval.dur \in Nat \ {0}
          BY <1>a, <1>f
        <4>3. QED
          BY <4>1, <4>2 DEF BackupHeld
      <3>6. QED
        BY <3>3, <3>4, <3>5 DEF C!Meets, C!Enabled
    <2>2. QED
      BY <2>1 DEF ClusterLife!Telling, ClusterLife!IsRead
  <1>7. QED
    BY <1>1, <1>2, <1>3, <1>4, <1>5, <1>6 DEF ClusterLife!Sound

\* A cluster whose versions are written without "v" and whose backup interval is positive
\* is read as it was applied and plans nothing after an apply, and drift of it shows
\* (omni_cluster_resource.go).
THEOREM ClusterWorks ==
  ASSUME ClusterValues
  PROVE  ClusterLife!Spec =>
           /\ []ClusterLife!StateIsTrue /\ []ClusterLife!NoSpuriousDiff
           /\ []ClusterLife!NoHiddenDrift /\ ClusterLife!OnlyOwnObjects
  BY ClusterIsSound, ClusterLife!SoundResourceWorks, MaxEventsAssumption

--------------------------------------------------------------------------------
\* omni_machine_set: strategies, whose blocks stay absent, and the machine
\* class, whose allocation type is computed.

MachineSetLife == INSTANCE ResourceProofs WITH
  Kinds <- {M!Kind},
  ConfigsOf <- LAMBDA k : M!Configs, ModelsOf <- LAMBDA k : M!Models,
  ObjectsOf <- LAMBDA k : M!Objects, Imported <- LAMBDA k, id : M!Blank(id),
  PlanOf <- LAMBDA k, c, m : M!Planned(c, m),
  MustReplace <- LAMBDA k, p, m : M!Replaces(p, m),
  Converts <- LAMBDA k, p : M!Accepts(p), Created <- LAMBDA k, p : M!NewObject(p),
  Updated <- LAMBDA k, p, o : M!Applied(p, o),
  AfterApply <- LAMBDA k, p, o : M!Stored(p, o),
  ReadBack <- LAMBDA k, o, m : M!ToModel(o, m),
  ObjectId <- LAMBDA k, o : M!IdOf(o), StateId <- LAMBDA k, m : M!IdIn(m),
  EditsOf <- LAMBDA k, o : M!Foreign(o), AsConfigured <- LAMBDA k, c, o : M!Meets(c, o),
  ShowsScope <- LAMBDA k, o, m : M!ScopeTold(o, m), TearsDown <- LAMBDA k : TRUE

\* The conversions of the machine set code are sound.
LEMMA MachineSetIsSound == ASSUME MachineSetValues PROVE MachineSetLife!Sound(M!Kind)
  <1> DEFINE Allocs == {Null, Unknown} \cup M!Allocations
             Blocks == M!ClassModels(Allocs, Numbers)
             Strategies == M!Strategies(Numbers)
             Held == [class : Classes, count : Numbers, type : M!Allocations]
             Type(alloc) == IF alloc = "Unlimited" THEN "Unlimited" ELSE "Static"
             With(mc, x) == [class |-> mc.class, size |-> mc.size,
                             alloc |-> IF mc.alloc = Null THEN x ELSE mc.alloc]
             Settles(c, p, y) ==
               LET n == M!Applied(p, y)
                   a == M!ToModel(n, p)
               IN  /\ n \in M!Objects /\ n.id = y.id
                   /\ a \in M!Models /\ a.id = y.id /\ M!ToModel(n, a) = a
                   /\ (c.name # Null => c.name = M!NameFromId(y.id, c.cluster))
                        => M!Planned(c, a) = a
  <1>a. (\A n \in Numbers : n % Word = n) /\ M!Counts = Numbers /\ Sizes \cup M!Counts = Numbers
    <2>1. \A n \in Numbers : n % Word = n
      BY BlocksAssumption DEF MachineSetValues, Numbers
    <2>2. QED
      BY <2>1 DEF M!Counts, Numbers
  <1>b. ASSUME NEW s \in {Null} \cup Strategies, NEW t \in M!Types
        PROVE  /\ M!OrDefault(s, t) \in Strategies
               /\ M!StrategyFromSpec(M!OrDefault(s, t), s) = s
    <2>1. CASE s = Null
      BY <2>1 DEF M!OrDefault, M!StrategyFromSpec, M!Strategies
    <2>2. CASE s # Null
      <3>1. s = [type |-> s.type, par |-> s.par] /\ s.par \in {Null} \cup Numbers /\ s.type \in M!Types
        BY <2>2 DEF M!Strategies
      <3>2. M!StrategyToSpec(s) = s
        BY <1>a, <3>1 DEF M!StrategyToSpec, M!ToUint32
      <3>3. QED
        BY <2>2, <3>2 DEF M!OrDefault, M!StrategyFromSpec
    <2>3. QED
      BY <2>1, <2>2
  <1>c. ASSUME NEW m \in M!Models
        PROVE  /\ m.id \in {Unknown} \cup M!Ids /\ m.cluster \in {Null} \cup Clusters
               /\ m.name \in {Null, Unknown, M!ControlPlanes, M!Workers, M!WholeId} \cup Names
               /\ m.role \in {Null} \cup M!SetRoles
               /\ m.class \in {Null} \cup Blocks /\ m # Null
    BY <1>a DEF M!Models, MachineSetValues
  <1>d. ASSUME NEW c \in M!Configs
        PROVE  /\ c.cluster \in Clusters /\ c.name \in {Null} \cup Names /\ c.role \in M!SetRoles
               /\ c.update \in {Null} \cup Strategies /\ c.delete \in {Null} \cup Strategies
               /\ c.class \in {Null} \cup Blocks
               /\ (c.class # Null => c.class.alloc \in {Null} \cup M!Allocations)
               /\ c.boot \in {Null} \cup Snapshots /\ (c.role = "controlplane" => c.name = Null)
    <2>1. /\ c.cluster \in Clusters /\ c.name \in {Null} \cup Names /\ c.role \in M!SetRoles
          /\ c.update \in {Null} \cup Updates /\ c.delete \in {Null} \cup Deletes
          /\ c.class \in {Null} \cup ClassBlocks
          /\ c.boot \in {Null} \cup Snapshots /\ (c.role = "controlplane" => c.name = Null)
      BY DEF M!Configs, M!Valid
    <2>2. Updates \subseteq Strategies /\ Deletes \subseteq Strategies
      BY BlocksAssumption DEF M!Strategies, Numbers
    <2>3. \A b \in ClassBlocks : b \in Blocks /\ b.alloc \in {Null} \cup M!Allocations
      BY BlocksAssumption DEF M!ClassModels, Numbers
    <2> HIDE DEF Blocks, Strategies
    <2>4. QED
      BY <2>1, <2>2, <2>3
  <1>e. ASSUME NEW o \in M!Objects
        PROVE  /\ o.id \in M!Ids /\ o.cluster \in {Null} \cup Clusters
               /\ o.role \in {Null} \cup M!SetRoles
               /\ o.update \in Strategies /\ o.delete \in Strategies
               /\ o.alloc \in {Null} \cup Held /\ o.boot \in {Null} \cup Snapshots
               /\ o.id.suffix \in Names \cup {M!ControlPlanes, M!Workers}
    BY <1>a DEF M!Objects, M!Ids
  <1>f. ASSUME NEW mc \in Blocks, NEW x \in Allocs
        PROVE  M!WithAllocation(mc, x) = With(mc, x) /\ With(mc, x) \in Blocks /\ mc # Null
    <2>1. mc # Null /\ mc = [class |-> mc.class, size |-> mc.size, alloc |-> mc.alloc]
      BY DEF M!ClassModels, MachineSetValues
    <2>2. M!WithAllocation(mc, x) = With(mc, x)
      BY <2>1 DEF M!WithAllocation, M!ClassModels
    <2>3. With(mc, x) \in Blocks
      BY DEF M!ClassModels
    <2>4. QED
      BY <2>1, <2>2, <2>3
  <1>g. ASSUME NEW mc \in Blocks
        PROVE  /\ M!Allocation(mc) \in Held
               /\ M!ClassToModel(M!Allocation(mc), mc) =
                    [class |-> mc.class, size |-> mc.size, alloc |-> Type(mc.alloc)]
    <2> DEFINE count == IF mc.size = Null THEN 0 ELSE mc.size
               held == M!Allocation(mc)
    <2>1. mc.class \in Classes /\ mc.size \in {Null} \cup Numbers /\ mc # Null
      BY DEF M!ClassModels, MachineSetValues
    <2>2. held = [class |-> mc.class, count |-> count, type |-> Type(mc.alloc)]
      BY <1>a, <2>1 DEF M!Allocation, M!ToUint32
    <2> HIDE DEF held
    <2>3. count \in Numbers /\ Type(mc.alloc) \in M!Allocations
      BY <2>1 DEF Numbers, M!Allocations
    <2>4. held \in Held
      BY <2>1, <2>2, <2>3
    <2>5. held # Null /\ mc.size = IF count > 0 \/ mc.size # Null THEN count ELSE Null
      BY <2>1, <2>4 DEF MachineSetValues
    <2>6. M!ClassToModel(held, mc) =
            [class |-> mc.class, size |-> IF count > 0 \/ mc.size # Null THEN count ELSE Null,
             alloc |-> Type(mc.alloc)]
      BY <2>1, <2>2, <2>5 DEF M!ClassToModel
    <2>7. QED
      BY <2>4, <2>5, <2>6 DEF held
  <1>h. ASSUME NEW al \in {Null} \cup Held, NEW e \in {Null} \cup Blocks
        PROVE  LET r == M!ClassToModel(al, e)
               IN  /\ r \in {Null} \cup Blocks /\ (r = Null <=> al = Null)
                   /\ M!ClassToModel(al, r) = r
                   /\ (al # Null => /\ r.class = al.class /\ r.alloc = al.type
                                    /\ r.size \in {Null, al.count})
    <2> DEFINE r == M!ClassToModel(al, e)
               size == IF al.count > 0 \/ (e # Null /\ e.size # Null) THEN al.count ELSE Null
    <2>1. CASE al = Null
      BY <2>1 DEF M!ClassToModel
    <2>2. CASE al # Null
      <3>1. r = [class |-> al.class, size |-> size, alloc |-> al.type]
        BY <2>2 DEF M!ClassToModel
      <3>2. al.class \in Classes /\ al.count \in Numbers /\ al.type \in M!Allocations
        BY <2>2
      <3>3. size \in {Null, al.count} /\ size = IF al.count > 0 \/ size # Null THEN al.count ELSE Null
        OBVIOUS
      <3> HIDE DEF r, size
      <3>4. r \in Blocks
        BY <3>1, <3>2, <3>3 DEF M!ClassModels
      <3>5. r # Null
        BY <3>4 DEF MachineSetValues
      <3>6. M!ClassToModel(al, r) =
              [class |-> al.class, size |-> IF al.count > 0 \/ size # Null THEN al.count ELSE Null,
               alloc |-> al.type]
        BY <2>2, <3>1, <3>5 DEF M!ClassToModel
      <3>7. QED
        BY <2>2, <3>1, <3>3, <3>4, <3>5, <3>6 DEF r
    <2>3. QED
      BY <2>1, <2>2
  <1> HIDE DEF Blocks, Held, Strategies, Allocs
  <1>m. ASSUME NEW c \in M!Configs, NEW x \in Allocs
        PROVE  LET k == M!WithAllocation(c.class, x)
               IN  /\ k \in {Null} \cup Blocks /\ (c.class = Null => k = Null)
                   /\ c.class # Null => k \in Blocks /\ k = With(c.class, x) /\ k # Null
    <2>1. CASE c.class = Null
      BY <2>1 DEF M!WithAllocation
    <2>2. CASE c.class # Null
      <3>1. c.class \in Blocks
        BY <1>d, <2>2
      <3>2. M!WithAllocation(c.class, x) = With(c.class, x) /\ With(c.class, x) \in Blocks
        BY <1>f, <3>1
      <3> HIDE DEF With
      <3>3. M!WithAllocation(c.class, x) # Null
        BY <1>f, <3>2 DEF Allocs
      <3>4. QED
        BY <2>2, <3>2, <3>3
    <2>3. QED
      BY <2>1, <2>2
  <1>i. ASSUME NEW o \in M!Objects, NEW m, m.class \in {Null} \cup Blocks,
               m.cluster \in {Null} \cup Clusters, m.role \in {Null} \cup M!SetRoles
        PROVE  LET r == M!ToModel(o, m)
               IN  /\ r \in M!Models /\ r.id = o.id /\ M!ToModel(o, r) = r
                   /\ M!ScopeTold(o, m) => M!ScopeTold(o, r)
    <2> DEFINE cl == M!Labelled(o.cluster, m.cluster)
               ro == M!Labelled(o.role, m.role)
               na == M!NameFromId(o.id, cl)
               u == M!StrategyFromSpec(o.update, m.update)
               d == M!StrategyFromSpec(o.delete, m.delete)
               k == M!ClassToModel(o.alloc, m.class)
               r == M!ToModel(o, m)
    <2>1. r = [id |-> o.id, cluster |-> cl, name |-> na, role |-> ro,
               update |-> u, delete |-> d, class |-> k, boot |-> o.boot]
      BY DEF M!ToModel
    <2>2. /\ u \in {Null} \cup Strategies /\ M!StrategyFromSpec(o.update, u) = u
          /\ d \in {Null} \cup Strategies /\ M!StrategyFromSpec(o.delete, d) = d
      BY <1>e DEF M!StrategyFromSpec
    <2>3. k \in {Null} \cup Blocks /\ M!ClassToModel(o.alloc, k) = k
      BY <1>e, <1>h, <1>i
    <2>4. /\ cl \in {Null} \cup Clusters /\ M!Labelled(o.cluster, cl) = cl
          /\ ro \in {Null} \cup M!SetRoles /\ M!Labelled(o.role, ro) = ro
      BY <1>e, <1>i DEF M!Labelled
    <2>5. na \in {M!ControlPlanes, M!Workers, M!WholeId} \cup Names
      BY <1>e DEF M!NameFromId
    <2>6. M!ScopeTold(o, m) => (cl # Null => o.cluster # Null) /\ (ro # Null => o.role # Null)
      BY DEF M!ScopeTold, M!Labelled
    <2> HIDE DEF cl, ro, na, u, d, k, r
    <2>7. r \in M!Models
      BY <1>a, <1>e, <2>1, <2>2, <2>3, <2>4, <2>5 DEF M!Models, Strategies, Blocks, Allocs
    <2>8. M!ToModel(o, r) =
            [id |-> o.id, cluster |-> M!Labelled(o.cluster, cl),
             name |-> M!NameFromId(o.id, M!Labelled(o.cluster, cl)),
             role |-> M!Labelled(o.role, ro),
             update |-> M!StrategyFromSpec(o.update, u), delete |-> M!StrategyFromSpec(o.delete, d),
             class |-> M!ClassToModel(o.alloc, k), boot |-> o.boot]
      BY <2>1 DEF M!ToModel
    <2>9. M!NameFromId(o.id, M!Labelled(o.cluster, cl)) = na
      BY <2>4 DEF na
    <2>10. r.id = o.id /\ M!ToModel(o, r) = r
      BY <2>1, <2>2, <2>3, <2>4, <2>8, <2>9
    <2>11. M!ScopeTold(o, m) => M!ScopeTold(o, r)
      BY <2>1, <2>6 DEF M!ScopeTold
    <2>12. QED
      BY <2>7, <2>10, <2>11 DEF r
  <1>j. ASSUME NEW c \in M!Configs, NEW m, m = Null \/ m \in M!Models
        PROVE  \E x \in Allocs : M!Planned(c, m) = M!PlannedWith(c, m, x)
    <2>1. Unknown \in Allocs
      BY DEF Allocs
    <2>2. CASE m = Null \/ m.class = Null
      BY <2>1, <2>2 DEF M!Planned
    <2>3. CASE ~(m = Null \/ m.class = Null)
      <3>1. m.class.alloc \in Allocs
        BY <1>c, <1>j, <2>3 DEF Blocks, M!ClassModels
      <3>2. QED
        BY <2>1, <2>3, <3>1 DEF M!Planned
    <2>4. QED
      BY <2>2, <2>3
  <1>k. ASSUME NEW c \in M!Configs, NEW m, m = Null \/ m \in M!Models, NEW x \in Allocs
        PROVE  LET p == M!PlannedWith(c, m, x)
               IN  p \in M!Models /\ p.id = IF m = Null THEN Unknown ELSE m.id
    <2> DEFINE id == IF m = Null THEN Unknown ELSE m.id
               name == IF c.name # Null THEN c.name ELSE IF m = Null THEN Unknown ELSE m.name
               k == M!WithAllocation(c.class, x)
    <2>1. M!PlannedWith(c, m, x) =
            [id |-> id, cluster |-> c.cluster, name |-> name, role |-> c.role,
             update |-> c.update, delete |-> c.delete, class |-> k, boot |-> c.boot]
      BY DEF M!PlannedWith
    <2>2. id \in {Unknown} \cup M!Ids
          /\ name \in {Null, Unknown, M!ControlPlanes, M!Workers, M!WholeId} \cup Names
      BY <1>c, <1>d, <1>k
    <2>3. k \in {Null} \cup Blocks
      BY <1>m
    <2> HIDE DEF id, name, k
    <2>4. [id |-> id, cluster |-> c.cluster, name |-> name, role |-> c.role, update |-> c.update,
           delete |-> c.delete, class |-> k, boot |-> c.boot] \in M!Models
      BY <1>a, <1>d, <2>2, <2>3 DEF M!Models, Strategies, Blocks, Allocs
    <2>5. QED
      BY <2>1, <2>4 DEF id
  <1>l. ASSUME NEW c \in M!Configs, NEW m, m = Null \/ m \in M!Models, NEW x \in Allocs,
               NEW y, y.id \in M!Ids
        PROVE  Settles(c, M!PlannedWith(c, m, x), y)
    <2> DEFINE p == M!PlannedWith(c, m, x)
               n == M!Applied(p, y)
               a == M!ToModel(n, p)
               k == M!WithAllocation(c.class, x)
               held == IF k = Null THEN Null ELSE M!Allocation(k)
               u == M!OrDefault(c.update, "Rolling")
               d == M!OrDefault(c.delete, "Unset")
               b == M!ClassToModel(held, k)
    <2>1. /\ p.cluster = c.cluster /\ p.role = c.role /\ p.update = c.update /\ p.delete = c.delete
          /\ p.class = k /\ p.boot = c.boot
      BY DEF M!PlannedWith
    <2>2. k \in {Null} \cup Blocks
      BY <1>m
    <2> HIDE DEF p
    <2>3. n = [id |-> y.id, cluster |-> c.cluster, role |-> c.role, update |-> u, delete |-> d,
               alloc |-> held, boot |-> c.boot]
      BY <2>1 DEF M!Applied
    <2>4. /\ u \in Strategies /\ M!StrategyFromSpec(u, c.update) = c.update
          /\ d \in Strategies /\ M!StrategyFromSpec(d, c.delete) = c.delete
      BY <1>b, <1>d DEF M!Types
    <2>5. held \in {Null} \cup Held
      BY <1>g, <2>2
    <2>0. c.cluster # Null /\ c.role # Null
      BY <1>d DEF MachineSetValues
    <2>6. a = [id |-> y.id, cluster |-> c.cluster, name |-> M!NameFromId(y.id, c.cluster),
               role |-> c.role, update |-> c.update, delete |-> c.delete, class |-> b,
               boot |-> c.boot]
      BY <2>1, <2>3, <2>4, <2>0 DEF M!ToModel, M!Labelled
    <2> HIDE DEF u, d, held, n
    <2>7. n \in M!Objects
      BY <1>a, <1>d, <1>l, <2>3, <2>4, <2>5 DEF M!Objects, Strategies, Held
    <2>8. a \in M!Models /\ a.id = n.id /\ M!ToModel(n, a) = a
      BY <1>d, <1>i, <2>1, <2>2, <2>7
    <2> HIDE DEF a
    <2>9. ASSUME c.name # Null => c.name = M!NameFromId(y.id, c.cluster)
          PROVE  M!Planned(c, a) = a
      <3>1. a # Null
        BY <1>c, <2>8
      <3>2. ASSUME NEW z
            PROVE  M!PlannedWith(c, a, z) = [a EXCEPT !.class = M!WithAllocation(c.class, z)]
        BY <2>6, <2>9, <3>1 DEF M!PlannedWith
      <3>3. CASE c.class = Null
        <4>1. k = Null /\ b = Null
          BY <3>3 DEF M!WithAllocation, M!ClassToModel, held
        <4>2. M!PlannedWith(c, a, Unknown) = a
          BY <2>6, <3>2, <3>3, <4>1 DEF M!WithAllocation
        <4>3. QED
          BY <2>6, <4>1, <4>2 DEF M!Planned
      <3>4. CASE c.class # Null
        <4>1. c.class \in Blocks /\ c.class.alloc \in {Null} \cup M!Allocations
          BY <1>d, <3>4
        <4>2. k = With(c.class, x) /\ k \in Blocks /\ k # Null
          BY <1>m, <3>4
        <4>3. b = [class |-> k.class, size |-> k.size, alloc |-> Type(k.alloc)]
          BY <1>g, <4>2 DEF held
        <4>4. b = [class |-> c.class.class, size |-> c.class.size, alloc |-> Type(k.alloc)]
          BY <4>2, <4>3
        <4>5. b.alloc \in Allocs /\ b.alloc = IF c.class.alloc = Null THEN b.alloc ELSE c.class.alloc
          BY <4>1, <4>2, <4>4 DEF M!Allocations, Allocs
        <4> HIDE DEF b, k
        <4>6. M!WithAllocation(c.class, b.alloc) = b
          BY <1>f, <4>1, <4>4, <4>5
        <4>7. M!PlannedWith(c, a, b.alloc) = a /\ a.class = b
          BY <2>6, <3>2, <4>6
        <4>8. b # Null
          <5>1. held \in Held /\ held # Null
            BY <1>g, <4>2 DEF held, Held, MachineSetValues
          <5>2. QED
            BY <1>h, <4>2, <5>1 DEF b
        <4>9. QED
          BY <3>1, <4>7, <4>8 DEF M!Planned
      <3>5. QED
        BY <3>3, <3>4
    <2>10. n.id = y.id
      BY <2>3
    <2>11. QED
      BY <2>7, <2>8, <2>9, <2>10 DEF p, n, a
  <1>n. ASSUME NEW c \in M!Configs, NEW m, NEW x, NEW y, NEW z
        PROVE  M!ScopeTold(M!Applied(M!PlannedWith(c, m, x), y), z)
    <2>1. c.cluster # Null /\ c.role # Null
      BY <1>d DEF MachineSetValues
    <2>2. QED
      BY <2>1 DEF M!ScopeTold, M!Applied, M!PlannedWith
  <1> HIDE DEF Settles
  <1>1. MachineSetLife!Planning(M!Kind)
    <2>1. ASSUME NEW c \in M!Configs, NEW m, m = Null \/ m \in M!Models
          PROVE  M!Planned(c, m) \in M!Models /\ (m # Null => M!Planned(c, m).id = m.id)
      <3>1. PICK x \in Allocs : M!Planned(c, m) = M!PlannedWith(c, m, x)
        BY <1>j, <2>1
      <3>2. QED
        BY <1>k, <2>1, <3>1
    <2>2. QED
      BY <1>c, <2>1 DEF MachineSetLife!Planning, M!IdIn
  <1>2. MachineSetLife!Reading(M!Kind)
    <2>1. ASSUME NEW o \in M!Objects
          PROVE  LET m == M!Blank(o.id)
                 IN  m.class = Null /\ m.cluster = Null /\ m.role = Null /\ M!ScopeTold(o, m)
      BY DEF M!Blank, M!ScopeTold
    <2>2. QED
      BY <1>c, <1>i, <2>1 DEF MachineSetLife!Reading, MachineSetLife!IsRead, M!IdIn, M!IdOf
  <1>3. MachineSetLife!Creating(M!Kind)
    <2>1. ASSUME NEW c \in M!Configs
          PROVE  LET p == M!Planned(c, Null)
                     o == M!NewObject(p)
                     a == M!Stored(p, o)
                 IN  /\ o \in M!Objects /\ a \in M!Models /\ a.id = o.id
                     /\ M!ToModel(o, a) = a /\ M!ScopeTold(o, a) /\ M!Planned(c, a) = a
      <3>1. PICK x \in Allocs : M!Planned(c, Null) = M!PlannedWith(c, Null, x)
        BY <1>j
      <3> DEFINE p == M!PlannedWith(c, Null, x)
                 y == [id |-> M!MachineSetID(p)]
      <3>2. p.cluster = c.cluster /\ p.role = c.role
            /\ p.name = IF c.name # Null THEN c.name ELSE Unknown
        BY DEF M!PlannedWith
      <3> HIDE DEF p
      <3>3. y.id \in M!Ids /\ (c.name # Null => c.name = M!NameFromId(y.id, c.cluster))
        BY <1>d, <3>2 DEF M!MachineSetID, M!NameFromId, M!Ids, M!SetRoles, MachineSetValues
      <3> HIDE DEF y
      <3>4. M!NewObject(p) = M!Applied(p, y)
        BY DEF M!NewObject, y
      <3>5. LET o == M!Applied(p, y)
                a == M!ToModel(o, p)
            IN  /\ o \in M!Objects /\ o.id = y.id /\ a \in M!Models /\ a.id = y.id
                /\ M!ToModel(o, a) = a /\ M!ScopeTold(o, a) /\ M!Planned(c, a) = a
        <4> DEFINE o == M!Applied(p, y)
                   a == M!ToModel(o, p)
        <4>1. Settles(c, p, y)
          BY <1>l, <3>3 DEF p
        <4>2. \A z : M!ScopeTold(o, z)
          BY <1>n DEF p
        <4> HIDE DEF o, a
        <4>3. QED
          BY <3>3, <4>1, <4>2 DEF Settles, o, a
      <3>6. QED
        BY <3>1, <3>4, <3>5 DEF p, M!Stored
    <2>2. QED
      BY <2>1 DEF MachineSetLife!Creating, MachineSetLife!IsRead, M!IdIn, M!IdOf
  <1>4. MachineSetLife!Updating(M!Kind)
    <2>1. ASSUME NEW c \in M!Configs, NEW m \in M!Models, NEW o \in M!Objects,
                 ~M!Replaces(M!Planned(c, m), m), m.id = o.id
          PROVE  LET p == M!Planned(c, m)
                     n == M!Applied(p, o)
                     a == M!Stored(p, n)
                 IN  /\ n \in M!Objects /\ n.id = o.id /\ a \in M!Models /\ a.id = n.id
                     /\ M!ScopeTold(n, m) /\ M!ScopeTold(n, a)
                     /\ M!ToModel(o, m) = m => M!ToModel(n, a) = a /\ M!Planned(c, a) = a
      <3>1. PICK x \in Allocs : M!Planned(c, m) = M!PlannedWith(c, m, x)
        BY <1>j
      <3>2. ASSUME M!ToModel(o, m) = m, c.name # Null
            PROVE  c.name = M!NameFromId(o.id, c.cluster)
        <4>1. m.name = M!NameFromId(o.id, m.cluster)
          BY <3>2 DEF M!ToModel
        <4>2. /\ M!PlannedWith(c, m, x).name = c.name
              /\ M!PlannedWith(c, m, x).cluster = c.cluster
          BY <3>2 DEF M!PlannedWith
        <4>3. QED
          BY <2>1, <3>1, <4>1, <4>2 DEF M!Replaces
      <3>3. o.id \in M!Ids
        BY <1>e
      <3>4. Settles(c, M!PlannedWith(c, m, x), o)
        BY <1>l, <3>3
      <3>5. QED
        BY <1>n, <3>1, <3>2, <3>4 DEF Settles, M!Stored
    <2>2. QED
      BY <2>1 DEF MachineSetLife!Updating, M!IdIn, M!IdOf
  <1>5. MachineSetLife!Editing(M!Kind)
    <2>1. \A s \in {Null} \cup Updates : M!OrDefault(s, "Rolling") \in Strategies
      BY <1>b, BlocksAssumption DEF M!Strategies, Numbers, Strategies, M!Types
    <2>2. \A s \in {Null} \cup Deletes : M!OrDefault(s, "Unset") \in Strategies
      BY <1>b, BlocksAssumption DEF M!Strategies, Numbers, Strategies, M!Types
    <2>3. \A b \in ClassBlocks : M!Allocation(b) \in Held
      BY <1>g, BlocksAssumption DEF Blocks, M!ClassModels, Numbers, Allocs
    <2>4. ASSUME NEW o \in M!Objects, NEW n \in M!Foreign(o)
          PROVE  n \in M!Objects /\ n.id = o.id
      <3> HIDE DEF Strategies, Held
      <3>1. o = [id |-> o.id, cluster |-> o.cluster, role |-> o.role, update |-> o.update,
                 delete |-> o.delete, alloc |-> o.alloc, boot |-> o.boot]
        BY DEF M!Objects
      <3>2. M!Objects = [id : M!Ids, cluster : {Null} \cup Clusters, role : {Null} \cup M!SetRoles,
                         update : Strategies, delete : Strategies,
                         alloc : {Null} \cup Held, boot : {Null} \cup Snapshots]
        BY <1>a DEF M!Objects, Strategies, Held
      <3>3. QED
        BY <2>1, <2>2, <2>3, <3>2 DEF M!Foreign
    <2>5. QED
      BY <2>4 DEF MachineSetLife!Editing, M!IdOf
  <1>6. MachineSetLife!Telling(M!Kind)
    <2>1. ASSUME NEW c \in M!Configs, NEW m \in M!Models, NEW o \in M!Objects,
                 M!ToModel(o, m) = m, M!Planned(c, m) = m, M!ScopeTold(o, m)
          PROVE  M!Meets(c, o)
      <3>1. PICK x \in Allocs : m = M!PlannedWith(c, m, x)
        BY <1>j, <2>1
      <3>2. /\ m.cluster = c.cluster /\ m.role = c.role /\ m.update = c.update
            /\ m.delete = c.delete /\ m.boot = c.boot /\ m.class = M!WithAllocation(c.class, x)
        BY <3>1 DEF M!PlannedWith
      <3>3. /\ m.cluster = o.cluster /\ m.role = o.role /\ m.boot = o.boot
            /\ m.update = M!StrategyFromSpec(o.update, m.update)
            /\ m.delete = M!StrategyFromSpec(o.delete, m.delete)
            /\ m.class = M!ClassToModel(o.alloc, m.class)
        <4>1. /\ m.cluster = M!Labelled(o.cluster, m.cluster) /\ m.role = M!Labelled(o.role, m.role)
              /\ m.boot = o.boot
              /\ m.update = M!StrategyFromSpec(o.update, m.update)
              /\ m.delete = M!StrategyFromSpec(o.delete, m.delete)
              /\ m.class = M!ClassToModel(o.alloc, m.class)
          BY <2>1 DEF M!ToModel
        <4>2. m.cluster # Null /\ m.role # Null
          BY <1>d, <3>2 DEF MachineSetValues
        <4>3. QED
          BY <2>1, <4>1, <4>2 DEF M!ScopeTold, M!Labelled
      <3>4. M!StrategyMet(c.update, o.update) /\ M!StrategyMet(c.delete, o.delete)
        BY <3>2, <3>3 DEF M!StrategyMet, M!StrategyFromSpec
      <3>5. /\ (m.class = Null <=> o.alloc = Null)
            /\ o.alloc # Null => /\ m.class.class = o.alloc.class /\ m.class.alloc = o.alloc.type
                                 /\ m.class.size \in {Null, o.alloc.count}
        BY <1>c, <1>e, <1>h, <3>3
      <3>6. c.class = Null <=> m.class = Null
        BY <1>m, <3>2
      <3>7. c.class # Null => m.class = With(c.class, x)
        BY <1>m, <3>2
      <3>8. c.class # Null => /\ o.alloc.class = c.class.class
                              /\ (c.class.alloc # Null => o.alloc.type = c.class.alloc)
                              /\ (c.class.size # Null => o.alloc.count = c.class.size)
        BY <3>5, <3>6, <3>7
      <3>9. QED
        BY <3>2, <3>3, <3>4, <3>5, <3>6, <3>8 DEF M!Meets
    <2>2. QED
      BY <2>1 DEF MachineSetLife!Telling, MachineSetLife!IsRead
  <1>7. QED
    BY <1>1, <1>2, <1>3, <1>4, <1>5, <1>6 DEF MachineSetLife!Sound

\* A machine set whose sizes fit 32 bits is read as it was applied, the computed allocation
\* type settles, and drift of the blocks that are configured shows (omni_machine_set_
\* resource.go).
THEOREM MachineSetWorks ==
  ASSUME MachineSetValues
  PROVE  MachineSetLife!Spec =>
           /\ []MachineSetLife!StateIsTrue /\ []MachineSetLife!NoSpuriousDiff
           /\ []MachineSetLife!NoHiddenDrift /\ MachineSetLife!OnlyOwnObjects
  BY MachineSetIsSound, MachineSetLife!SoundResourceWorks, MaxEventsAssumption

--------------------------------------------------------------------------------
\* omni_config_patch: an object that has lost its labels is read with the scope
\* of the state.

PatchLife == INSTANCE ResourceProofs WITH
  Kinds <- {P!Kind},
  ConfigsOf <- LAMBDA k : P!Configs, ModelsOf <- LAMBDA k : P!Models,
  ObjectsOf <- LAMBDA k : P!Objects, Imported <- LAMBDA k, id : P!Blank(id),
  PlanOf <- LAMBDA k, c, m : P!Planned(c, m),
  MustReplace <- LAMBDA k, p, m : P!Replaces(p, m),
  Converts <- LAMBDA k, p : P!Accepts(p), Created <- LAMBDA k, p : P!NewObject(p),
  Updated <- LAMBDA k, p, o : P!Applied(p, o),
  AfterApply <- LAMBDA k, p, o : P!Stored(p, o),
  ReadBack <- LAMBDA k, o, m : P!ToModel(o, m),
  ObjectId <- LAMBDA k, o : P!IdOf(o), StateId <- LAMBDA k, m : P!IdIn(m),
  EditsOf <- LAMBDA k, o : P!Foreign(o), AsConfigured <- LAMBDA k, c, o : P!Meets(c, o),
  ShowsScope <- LAMBDA k, o, m : P!ScopeTold(o, m), TearsDown <- LAMBDA k : TRUE

\* The conversions of the config patch code are sound.
LEMMA PatchIsSound == ASSUME PatchValues PROVE PatchLife!Sound(P!Kind)
  <1>a. ASSUME NEW c \in P!Configs
        PROVE  /\ c.name \in PatchNames /\ c.data \in Data \cup {P!BadData}
               /\ (IF c.weight = Null THEN P!DefaultWeight ELSE c.weight)
                    \in Weights \cup {P!DefaultWeight}
               /\ c.cluster \in {Null} \cup Clusters /\ c.selector \in {Null} \cup P!Scopes
               /\ c.selector # Null => c.selector = P!Selected(c)
               /\ P!Selected(c) \in P!Scopes
               /\ c.cluster = Null => P!Selected(c).machine # Null
    <2>1. /\ c.name \in PatchNames /\ c.data \in Data \cup {P!BadData}
          /\ c.weight \in {Null} \cup Weights /\ c.cluster \in {Null} \cup Clusters
          /\ c.selector \in {Null, P!Empty} \cup P!Selectors /\ P!Rooted(c)
      BY DEF P!Configs
    <2>2. P!Empty \in P!Scopes /\ P!Selectors \subseteq P!Scopes
      BY DEF P!Empty, P!Scopes, P!Selectors
    <2>3. c.cluster = Null => c.selector # Null /\ c.selector.machine # Null
      BY <2>1 DEF P!Rooted
    <2>4. QED
      BY <2>1, <2>2, <2>3 DEF P!Selected
  <1>b. ASSUME NEW s \in P!Scopes
        PROVE  /\ s = [machineSet |-> s.machineSet, clusterMachine |-> s.clusterMachine,
                     machine |-> s.machine]
               /\ s.machineSet \in {Null} \cup MachineSets /\ s.clusterMachine \in {Null} \cup Machines
               /\ s.machine \in {Null} \cup Machines
    BY DEF P!Scopes
  <1>c. ASSUME NEW id \in P!Ids
        PROVE  P!WeightInId(id) = id.weight /\ P!NameInId(id) = <<id.target, id.name>>
    <2>1. id.weight \in Weights \cup {P!DefaultWeight}
      BY DEF P!Ids
    <2>2. Weights \subseteq Nat
      BY DEF PatchValues
    <2>3. CASE id.weight = P!DefaultWeight
      BY <2>3 DEF P!WeightInId, P!NameInId, P!DefaultWeight
    <2>4. CASE id.weight \in Weights
      <3>1. id.weight \in Nat
        BY <2>2, <2>4
      <3>2. QED
        BY <3>1 DEF P!WeightInId, P!NameInId
    <2>5. QED
      BY <2>1, <2>3, <2>4
  <1>1. PatchLife!Planning(P!Kind)
    <2>1. ASSUME NEW c \in P!Configs
          PROVE  /\ P!Planned(c, Null) \in P!Models
                 /\ \A m \in P!Models : P!Planned(c, m) \in P!Models /\ P!Planned(c, m).id = m.id
      <3> DEFINE w == IF c.weight = Null THEN P!DefaultWeight ELSE c.weight
      <3>1. P!Planned(c, Null) = [id |-> Unknown, name |-> c.name, weight |-> w, data |-> c.data,
                                  cluster |-> c.cluster, selector |-> c.selector]
        BY DEF P!Planned
      <3>2. ASSUME NEW m \in P!Models
            PROVE  P!Planned(c, m) = [id |-> m.id, name |-> c.name, weight |-> w, data |-> c.data,
                                      cluster |-> c.cluster, selector |-> c.selector]
        BY DEF P!Planned, PatchValues
      <3>3. w \in Weights \cup {P!DefaultWeight}
        BY <1>a
      <3> HIDE DEF w
      <3>4. \A id \in {Unknown} \cup P!Ids :
              [id |-> id, name |-> c.name, weight |-> w, data |-> c.data, cluster |-> c.cluster,
               selector |-> c.selector] \in P!Models
        BY <1>a, <3>3 DEF P!Models
      <3>5. \A m \in P!Models : m.id \in {Unknown} \cup P!Ids
        BY DEF P!Models
      <3>6. QED
        BY <3>1, <3>2, <3>4, <3>5
    <2>2. QED
      BY <2>1 DEF PatchLife!Planning, P!IdIn
  <1>2. PatchLife!Reading(P!Kind)
    <2>1. ASSUME NEW o \in P!Objects, NEW m, m.selector \in {Null} \cup P!Scopes,
                 m.cluster \in {Null} \cup Clusters
          PROVE  LET r == P!ToModel(o, m)
                 IN  /\ r \in P!Models /\ r.id = o.id /\ P!ToModel(o, r) = r
                     /\ P!ScopeTold(o, m) => P!ScopeTold(o, r)
                     /\ m.selector = Null /\ m.cluster = Null => P!ScopeTold(o, r)
      <3> DEFINE r == P!ToModel(o, m)
                 name == IF o.nameAnnotation # Null THEN o.nameAnnotation ELSE P!NameInId(o.id)
                 labelled == o.machineSet # Null \/ o.clusterMachine # Null \/ o.machine # Null
                 scope == [machineSet |-> o.machineSet, clusterMachine |-> o.clusterMachine,
                           machine |-> o.machine]
                 cluster == IF o.cluster # Null THEN o.cluster ELSE m.cluster
                 selector == IF labelled THEN scope ELSE m.selector
      <3>0. o.id \in P!Ids
        BY DEF P!Objects
      <3>1. r = [id |-> o.id, name |-> name, weight |-> o.id.weight, data |-> o.data,
                 cluster |-> cluster, selector |-> selector]
        BY <1>c, <3>0 DEF P!ToModel
      <3>2. name \in PatchNames \cup (P!Targets \X PatchNames)
        <4>1. P!NameInId(o.id) \in P!Targets \X PatchNames
          BY <1>c, <3>0 DEF P!Ids
        <4>2. QED
          BY <4>1 DEF P!Objects
      <3>3. o.id \in P!Ids /\ o.id.weight \in Weights \cup {P!DefaultWeight} /\ o.data \in Data
        BY DEF P!Objects, P!Ids
      <3>4. cluster \in {Null} \cup Clusters
        BY <2>1 DEF P!Objects
      <3>5. selector \in {Null} \cup P!Scopes
        BY <2>1 DEF P!Objects, P!Scopes
      <3>6. P!ToModel(o, r) = [id |-> o.id, name |-> name, weight |-> o.id.weight, data |-> o.data,
                 cluster |-> IF o.cluster # Null THEN o.cluster ELSE r.cluster,
                 selector |-> IF labelled THEN scope ELSE r.selector]
        BY <1>c, <3>0 DEF P!ToModel
      <3>7. /\ P!ScopeTold(o, m) => P!ScopeTold(o, r)
            /\ m.selector = Null /\ m.cluster = Null => P!ScopeTold(o, r)
        BY <3>1 DEF P!ScopeTold, PatchValues
      <3> HIDE DEF r, name
      <3>8. P!ToModel(o, r) = r
        BY <3>1, <3>6
      <3> HIDE DEF cluster, selector
      <3>9. r \in P!Models
        BY <3>1, <3>2, <3>3, <3>4, <3>5 DEF P!Models
      <3>10. QED
        BY <3>1, <3>7, <3>8, <3>9 DEF r
    <2>2. \A id : P!Blank(id).selector = Null /\ P!Blank(id).cluster = Null
      BY DEF P!Blank
    <2>3. \A m \in P!Models : m.selector \in {Null} \cup P!Scopes /\ m.cluster \in {Null} \cup Clusters
      BY DEF P!Models
    <2>4. QED
      BY <2>1, <2>2, <2>3 DEF PatchLife!Reading, PatchLife!IsRead, P!IdIn, P!IdOf
  <1>3. PatchLife!Creating(P!Kind)
    <2>1. ASSUME NEW c \in P!Configs, P!Accepts(P!Planned(c, Null))
          PROVE  LET p == P!Planned(c, Null)
                     o == P!NewObject(p)
                     a == P!Stored(p, o)
                 IN  /\ o \in P!Objects /\ a \in P!Models /\ a.id = o.id /\ P!ToModel(o, a) = a
                     /\ P!ScopeTold(o, a) /\ P!Planned(c, a) = a
      <3> DEFINE p == P!Planned(c, Null)
                 o == P!NewObject(p)
                 a == P!Stored(p, o)
                 w == IF c.weight = Null THEN P!DefaultWeight ELSE c.weight
                 s == P!Selected(c)
                 id == [weight |-> w, target |-> P!TargetSuffix(p), name |-> c.name]
      <3>1. p = [id |-> Unknown, name |-> c.name, weight |-> w, data |-> c.data,
                 cluster |-> c.cluster, selector |-> c.selector]
        BY DEF P!Planned
      <3>2. w \in Weights \cup {P!DefaultWeight}
        BY <1>a
      <3> HIDE DEF p, w
      <3>3. P!Selected(p) = s
        BY <3>1 DEF P!Selected
      <3>4. P!TargetSuffix(p) \in P!Targets
        BY <1>a, <1>b, <3>1, <3>3 DEF P!TargetSuffix, P!Targets
      <3>5. o = [id |-> id, nameAnnotation |-> c.name, data |-> c.data, cluster |-> c.cluster,
                 machineSet |-> s.machineSet, clusterMachine |-> s.clusterMachine,
                               machine |-> s.machine]
        BY <3>1, <3>3 DEF P!NewObject
      <3>6. a = [id |-> id, name |-> c.name, weight |-> w, data |-> c.data,
                 cluster |-> c.cluster, selector |-> c.selector]
        BY <3>1, <3>5 DEF P!Stored
      <3>7. c.data \in Data
        BY <1>a, <2>1, <3>1 DEF P!Accepts, p
      <3>8. id \in P!Ids /\ id.weight = w
        BY <1>a, <3>2, <3>4 DEF P!Ids
      <3> HIDE DEF o, a, id
      <3>9. o \in P!Objects
        BY <1>a, <1>b, <3>5, <3>7, <3>8 DEF P!Objects
      <3>10. a \in P!Models
        BY <1>a, <3>2, <3>6, <3>7, <3>8 DEF P!Models
      <3>11. P!ToModel(o, a) = a
        <4>1. c.name # Null
          BY <1>a DEF PatchValues
        <4>2. c.selector = IF s.machineSet # Null \/ s.clusterMachine # Null \/ s.machine # Null
                           THEN [machineSet |-> s.machineSet,
                                 clusterMachine |-> s.clusterMachine, machine |-> s.machine]
                           ELSE c.selector
          BY <1>a, <1>b DEF P!Selected, P!Empty
        <4> HIDE DEF s
        <4>3. QED
          BY <1>c, <3>5, <3>6, <3>8, <4>1, <4>2 DEF P!ToModel
      <3>12. P!ScopeTold(o, a)
        <4>1. /\ o.cluster = c.cluster /\ o.machineSet = s.machineSet
              /\ o.clusterMachine = s.clusterMachine
              /\ o.machine = s.machine /\ a.cluster = c.cluster /\ a.selector = c.selector
          BY <3>5, <3>6
        <4>2. c.selector \in P!Scopes => c.selector = s
          BY <1>a DEF PatchValues
        <4>3. QED
          BY <1>b, <4>1, <4>2 DEF P!ScopeTold, P!Empty
      <3>13. P!Planned(c, a) = a
        BY <3>6, <3>10 DEF P!Planned, PatchValues, w
      <3>14. QED
        BY <3>5, <3>6, <3>9, <3>10, <3>11, <3>12, <3>13 DEF o, a, p
    <2>2. QED
      BY <2>1 DEF PatchLife!Creating, PatchLife!IsRead, P!IdIn, P!IdOf
  <1>4. PatchLife!Updating(P!Kind)
    <2>1. ASSUME NEW c \in P!Configs, NEW m \in P!Models, NEW o \in P!Objects, m.id = o.id,
                 P!Accepts(P!Planned(c, m)), ~P!Replaces(P!Planned(c, m), m)
          PROVE  LET p == P!Planned(c, m)
                     n == P!Applied(p, o)
                     a == P!Stored(p, n)
                 IN  /\ n \in P!Objects /\ n.id = o.id /\ a \in P!Models /\ a.id = n.id
                     /\ P!ScopeTold(o, m) => P!ScopeTold(n, m) /\ P!ScopeTold(n, a)
                     /\ P!ToModel(o, m) = m => P!ToModel(n, a) = a /\ P!Planned(c, a) = a
      <3> DEFINE p == P!Planned(c, m)
                 n == P!Applied(p, o)
                 a == P!Stored(p, n)
      <3>1. p = [m EXCEPT !.data = c.data]
        <4>1. p = [id |-> p.id, name |-> p.name, weight |-> p.weight, data |-> c.data,
                   cluster |-> p.cluster, selector |-> p.selector]
          BY DEF P!Planned
        <4>2. [p EXCEPT !.data = m.data] = m
          BY <2>1 DEF P!Replaces
        <4> HIDE DEF p
        <4>3. QED
          BY <4>1, <4>2
      <3>2. c.data \in Data
        BY <1>a, <2>1 DEF P!Accepts, P!Planned
      <3>3. P!Planned(c, p) = p
        <4>1. m.id = p.id
          BY <3>1 DEF P!Models
        <4>2. p # Null
          BY <3>1, <3>2 DEF P!Models, PatchValues
        <4>3. m # Null
          BY DEF PatchValues
        <4>4. QED
          BY <4>1, <4>2, <4>3 DEF P!Planned
      <3> HIDE DEF p
      <3>4. n = [o EXCEPT !.data = c.data] /\ n \in P!Objects
        BY <3>1, <3>2 DEF P!Applied, P!Objects, P!Models
      <3> HIDE DEF n
      <3>5. a = p /\ a.id = n.id /\ n.id = o.id
        BY <2>1, <3>1, <3>4 DEF P!Stored, P!Models, P!Objects
      <3> HIDE DEF a
      <3>6. p \in P!Models
        BY <3>1, <3>2 DEF P!Models
      <3>7. P!ScopeTold(o, m) => P!ScopeTold(n, m) /\ P!ScopeTold(n, p)
        BY <3>1, <3>4 DEF P!ScopeTold, P!Objects, P!Models
      <3>8. P!ToModel(o, m) = m => P!ToModel(n, p) = p
        BY <3>1, <3>4 DEF P!ToModel, P!Objects, P!Models
      <3>9. QED
        BY <3>3, <3>4, <3>5, <3>6, <3>7, <3>8 DEF p, n, a
    <2>2. QED
      BY <2>1 DEF PatchLife!Updating, P!IdIn, P!IdOf
  <1>5. PatchLife!Editing(P!Kind)
    BY DEF PatchLife!Editing, P!Objects, P!Foreign, P!IdOf
  <1>6. PatchLife!Telling(P!Kind)
    <2>1. ASSUME NEW c \in P!Configs, NEW m \in P!Models, NEW o \in P!Objects,
                 P!ToModel(o, m) = m, P!ScopeTold(o, m), P!Planned(c, m) = m
          PROVE  P!Meets(c, o)
      <3> DEFINE scope == [machineSet |-> o.machineSet, clusterMachine |-> o.clusterMachine,
                           machine |-> o.machine]
      <3>1. /\ c.data = o.data /\ c.cluster = m.cluster /\ c.selector = m.selector
            /\ m.cluster = IF o.cluster # Null THEN o.cluster ELSE m.cluster
            /\ m.selector = IF o.machineSet # Null \/ o.clusterMachine # Null \/ o.machine # Null
                            THEN scope ELSE m.selector
        BY <2>1 DEF P!ToModel, P!Planned
      <3>2. o.cluster = c.cluster
        BY <2>1, <3>1 DEF P!ScopeTold
      <3>3. scope = P!Selected(c)
        <4>1. CASE o.machineSet # Null \/ o.clusterMachine # Null \/ o.machine # Null
          <5>1. scope \in P!Scopes
            BY DEF P!Scopes, P!Objects
          <5>2. QED
            BY <3>1, <4>1, <5>1 DEF P!Selected, PatchValues
        <4>2. CASE o.machineSet = Null /\ o.clusterMachine = Null /\ o.machine = Null
          BY <1>a, <2>1, <3>1, <4>2 DEF P!Selected, P!Empty, P!ScopeTold
        <4>3. QED
          BY <4>1, <4>2
      <3>4. QED
        BY <3>1, <3>2, <3>3 DEF P!Meets
    <2>2. QED
      BY <2>1 DEF PatchLife!Telling, PatchLife!IsRead
  <1>7. QED
    BY <1>1, <1>2, <1>3, <1>4, <1>5, <1>6 DEF PatchLife!Sound

\* A config patch is read as it was applied, and drift of it shows unless others have put a
\* patch of another scope in its place (omni_config_patch_resource.go).
THEOREM PatchWorks ==
  ASSUME PatchValues
  PROVE  PatchLife!Spec =>
           /\ []PatchLife!StateIsTrue /\ []PatchLife!NoSpuriousDiff
           /\ []PatchLife!NoHiddenDrift /\ PatchLife!OnlyOwnObjects
  BY PatchIsSound, PatchLife!SoundResourceWorks, MaxEventsAssumption

--------------------------------------------------------------------------------
(* omni_machine_class: lists that are left out, provisions. *)

ClassLife == INSTANCE ResourceProofs WITH
  Kinds <- {L!Kind},
  ConfigsOf <- LAMBDA k : L!Configs, ModelsOf <- LAMBDA k : L!Models,
  ObjectsOf <- LAMBDA k : L!Objects, Imported <- LAMBDA k, id : L!Blank(id),
  PlanOf <- LAMBDA k, c, m : L!Planned(c, m),
  MustReplace <- LAMBDA k, p, m : L!Replaces(p, m),
  Converts <- LAMBDA k, p : L!Accepts(p), Created <- LAMBDA k, p : L!NewObject(p),
  Updated <- LAMBDA k, p, o : L!Applied(p, o),
  AfterApply <- LAMBDA k, p, o : L!Stored(p, o),
  ReadBack <- LAMBDA k, o, m : L!ToModel(o, m),
  ObjectId <- LAMBDA k, o : L!IdOf(o), StateId <- LAMBDA k, m : L!IdIn(m),
  EditsOf <- LAMBDA k, o : L!Foreign(o), AsConfigured <- LAMBDA k, c, o : L!Meets(c, o),
  ShowsScope <- LAMBDA k, o, m : TRUE, TearsDown <- LAMBDA k : TRUE

\* The conversions of the machine class code are sound.
LEMMA ClassIsSound == ASSUME ClassValues PROVE ClassLife!Sound(L!Kind)
  <1>a. \A l \in L!OptionalLists : L!Readable(l) =>
        L!Elements(l) \in L!StoredLists /\ L!ListOrNull(L!Elements(l)) = l
    BY DEF ClassValues, L!OptionalLists, L!Readable, L!Elements, L!StoredLists, L!ListOrNull
  <1>b. \A l \in L!StoredLists : L!ListOrNull(l) \in L!OptionalLists /\ L!Elements(L!ListOrNull(l)) = l
    BY DEF ClassValues, L!OptionalLists, L!Elements, L!StoredLists, L!ListOrNull
  <1>c. \A t \in {Null} \cup BOOLEAN : L!Mode(t) \in {"unset", "on", "off"} /\ L!Tunnel(L!Mode(t)) = t
    BY DEF ClassValues, L!Mode, L!Tunnel
  <1>d. \A s \in {"unset", "on", "off"} : L!Tunnel(s) \in {Null} \cup BOOLEAN /\ L!Mode(L!Tunnel(s)) = s
    BY DEF ClassValues, L!Mode, L!Tunnel
  <1>e. \A b \in {Null} \cup L!Provisions : (b # Null => L!Readable(b.args)) =>
          /\ L!ToProvision(b) \in {Null} \cup L!StoredProvisions
          /\ L!FromProvision(L!ToProvision(b)) = b
    BY <1>a, <1>c DEF ClassValues, L!Provisions, L!StoredProvisions, L!ToProvision,
         L!FromProvision
  <1>f. \A s \in {Null} \cup L!StoredProvisions :
          /\ L!FromProvision(s) \in {Null} \cup L!Provisions
          /\ L!ToProvision(L!FromProvision(s)) = s
    BY <1>b, <1>d DEF ClassValues, L!Provisions, L!StoredProvisions, L!ToProvision,
         L!FromProvision
  <1>g. ASSUME NEW c \in L!Configs, NEW m PROVE L!Planned(c, m) \in L!Models
    <2>1. c.labels \in L!OptionalLists /\ c.provision \in {Null} \cup L!Provisions
      BY DEF L!Configs, L!OptionalLists
    <2>2. QED
      BY <2>1 DEF L!Models, L!Planned
  <1>h. ASSUME NEW p \in L!Models, NEW o, NEW m, L!Accepts(p)
        PROVE  L!Applied(p, o) \in L!Objects /\ L!ToModel(L!Applied(p, o), m) = p
    <2>1. /\ p.labels \in L!OptionalLists /\ p.provision \in {Null} \cup L!Provisions
          /\ p = [id |-> L!Name, labels |-> p.labels, provision |-> p.provision]
      BY DEF L!Models
    <2>2. L!Readable(p.labels) /\ (p.provision # Null => L!Readable(p.provision.args))
      BY <1>h DEF L!Accepts
    <2>3. QED
      BY <1>a, <1>e, <2>1, <2>2 DEF L!Applied, L!Objects, L!ToModel
  <1>i. ASSUME NEW o \in L!Objects, NEW m
        PROVE  L!ToModel(o, m) \in L!Models /\ L!ToModel(o, m).id = L!Name
    BY <1>b, <1>f DEF L!Objects, L!Models, L!ToModel
  <1>1. ClassLife!Planning(L!Kind)
    BY <1>g DEF ClassLife!Planning, L!IdIn, L!Planned, L!Models
  <1>2. ClassLife!Reading(L!Kind)
    BY <1>i DEF ClassLife!Reading, ClassLife!IsRead, L!IdIn, L!IdOf, L!ToModel
  <1>3. ClassLife!Creating(L!Kind)
    BY <1>g, <1>h DEF ClassLife!Creating, ClassLife!IsRead, L!NewObject, L!Stored, L!Planned,
         L!IdIn, L!IdOf
  <1>4. ClassLife!Updating(L!Kind)
    BY <1>g, <1>h DEF ClassLife!Updating, L!Stored, L!Planned, L!IdIn, L!IdOf
  <1>5. ClassLife!Editing(L!Kind)
    BY DEF ClassLife!Editing, L!Foreign, L!Objects, L!IdOf
  <1>6. ClassLife!Telling(L!Kind)
    <2>1. ASSUME NEW c, NEW m, NEW o \in L!Objects, L!ToModel(o, m) = m, L!Planned(c, m) = m
          PROVE  L!Meets(c, o)
      <3>1. c.labels = L!ListOrNull(o.labels) /\ c.provision = L!FromProvision(o.provision)
        BY <2>1 DEF L!ToModel, L!Planned
      <3>2. o.labels = L!Elements(c.labels) /\ o.provision = L!ToProvision(c.provision)
        BY <1>b, <1>f, <3>1 DEF L!Objects
      <3>3. QED
        <4>1. c.provision = Null <=> o.provision = Null
          BY <3>1, <3>2 DEF L!ToProvision, L!FromProvision
        <4>2. QED
          BY <3>2, <4>1 DEF L!Meets, L!ToProvision
    <2>2. QED
      BY <2>1 DEF ClassLife!Telling, ClassLife!IsRead
  <1>7. QED
    BY <1>1, <1>2, <1>3, <1>4, <1>5, <1>6 DEF ClassLife!Sound

\* A machine class is read as it was applied, lists that are left out stay so, and drift of
\* it shows (omni_machine_class_resource.go).
THEOREM ClassWorks ==
  ASSUME ClassValues
  PROVE  ClassLife!Spec =>
           /\ []ClassLife!StateIsTrue /\ []ClassLife!NoSpuriousDiff
           /\ []ClassLife!NoHiddenDrift /\ ClassLife!OnlyOwnObjects
  BY ClassIsSound, ClassLife!SoundResourceWorks, MaxEventsAssumption

--------------------------------------------------------------------------------
\* omni_machine_extensions, which keeps its selector as config patches do.

ExtensionsLife == INSTANCE ResourceProofs WITH
  Kinds <- {X!Kind},
  ConfigsOf <- LAMBDA k : X!Configs, ModelsOf <- LAMBDA k : X!Models,
  ObjectsOf <- LAMBDA k : X!Objects, Imported <- LAMBDA k, id : X!Blank(id),
  PlanOf <- LAMBDA k, c, m : X!Planned(c, m),
  MustReplace <- LAMBDA k, p, m : X!Replaces(p, m),
  Converts <- LAMBDA k, p : X!Accepts(p), Created <- LAMBDA k, p : X!NewObject(p),
  Updated <- LAMBDA k, p, o : X!Applied(p, o),
  AfterApply <- LAMBDA k, p, o : X!Stored(p, o),
  ReadBack <- LAMBDA k, o, m : X!ToModel(o, m),
  ObjectId <- LAMBDA k, o : X!IdOf(o), StateId <- LAMBDA k, m : X!IdIn(m),
  EditsOf <- LAMBDA k, o : X!Foreign(o), AsConfigured <- LAMBDA k, c, o : X!Meets(c, o),
  ShowsScope <- LAMBDA k, o, m : X!ScopeTold(o, m), TearsDown <- LAMBDA k : TRUE

\* The conversions of the extensions code are sound.
LEMMA ExtensionsIsSound == ASSUME ExtensionsValues PROVE ExtensionsLife!Sound(X!Kind)
  <1>a. ASSUME NEW c \in X!Configs
        PROVE  /\ c = [cluster |-> c.cluster, selector |-> c.selector, extensions |-> c.extensions]
               /\ c.cluster \in Clusters /\ c.extensions \in ExtensionSets
               /\ c.selector \in {Null} \cup X!Scopes
               /\ X!Narrowed(c, "machineSet") \in {Null} \cup MachineSets
               /\ X!Narrowed(c, "clusterMachine") \in {Null} \cup Machines
               /\ c.selector # Null => c.selector = [machineSet |-> X!Narrowed(c, "machineSet"),
                                                     clusterMachine |-> X!Narrowed(c, "clusterMachine")]
    BY DEF ExtensionsValues, X!Configs, X!Selectors, X!Scopes, X!Narrowed
  <1>1. ExtensionsLife!Planning(X!Kind)
    <2>1. ASSUME NEW c \in X!Configs
          PROVE  /\ X!Planned(c, Null) \in X!Models
                 /\ \A m \in X!Models : X!Planned(c, m) \in X!Models /\ X!Planned(c, m).id = m.id
      BY <1>a DEF X!Planned, X!Models, ExtensionsValues
    <2>2. QED
      BY <2>1 DEF ExtensionsLife!Planning, X!IdIn
  <1>2. ExtensionsLife!Reading(X!Kind)
    <2>1. ASSUME NEW o \in X!Objects, NEW m, m.selector \in {Null} \cup X!Scopes,
                 m.cluster \in {Null} \cup Clusters
          PROVE  LET r == X!ToModel(o, m)
                 IN  /\ r \in X!Models /\ r.id = o.id /\ X!ToModel(o, r) = r
                     /\ X!ScopeTold(o, m) => X!ScopeTold(o, r)
                     /\ m.selector = Null /\ m.cluster = Null => X!ScopeTold(o, r)
      <3> DEFINE r == X!ToModel(o, m)
                 cluster == IF o.cluster # Null THEN o.cluster ELSE m.cluster
                 labelled == ~(o.machineSet = Null /\ o.clusterMachine = Null)
      <3>1. r = [id |-> o.id, cluster |-> cluster, extensions |-> o.extensions,
                 selector |-> IF labelled
                             THEN [machineSet |-> o.machineSet, clusterMachine |-> o.clusterMachine]
                              ELSE m.selector]
        BY DEF X!ToModel
      <3> HIDE DEF r
      <3>2. r \in X!Models
        BY <2>1, <3>1 DEF X!Objects, X!Models, X!Scopes
      <3>3. r.id = o.id /\ X!ToModel(o, r) = r
        BY <3>1 DEF X!ToModel
      <3>4. /\ X!ScopeTold(o, m) => X!ScopeTold(o, r)
            /\ m.selector = Null /\ m.cluster = Null => X!ScopeTold(o, r)
        BY <3>1 DEF X!ScopeTold, ExtensionsValues
      <3>5. QED
        BY <3>2, <3>3, <3>4 DEF r
    <2>2. \A id : X!Blank(id).selector = Null /\ X!Blank(id).cluster = Null
      BY DEF X!Blank
    <2>3. \A m \in X!Models : m.selector \in {Null} \cup X!Scopes /\ m.cluster \in {Null} \cup Clusters
      BY DEF X!Models
    <2>4. QED
      BY <2>1, <2>2, <2>3 DEF ExtensionsLife!Reading, ExtensionsLife!IsRead, X!IdIn, X!IdOf
  <1>3. ExtensionsLife!Creating(X!Kind)
    <2>1. ASSUME NEW c \in X!Configs, X!Accepts(X!Planned(c, Null))
          PROVE  LET p == X!Planned(c, Null)
                     o == X!NewObject(p)
                     a == X!Stored(p, o)
                 IN  /\ o \in X!Objects /\ a \in X!Models /\ a.id = o.id /\ X!ToModel(o, a) = a
                     /\ X!ScopeTold(o, a) /\ X!Planned(c, a) = a
      <3> DEFINE o == X!NewObject(X!Planned(c, Null))
                 a == X!Stored(X!Planned(c, Null), o)
                 id == X!TargetSuffix(X!Planned(c, Null))
      <3>1. id \in X!Ids
        BY <1>a DEF X!TargetSuffix, X!Ids, X!Narrowed, X!Planned
      <3>2. o = [id |-> id, cluster |-> c.cluster, machineSet |-> X!Narrowed(c, "machineSet"),
                 clusterMachine |-> X!Narrowed(c, "clusterMachine"), extensions |-> c.extensions]
        BY DEF X!NewObject, X!Planned, X!Narrowed
      <3>3. a = [id |-> id, cluster |-> c.cluster, selector |-> c.selector, extensions |-> c.extensions]
        BY <3>2 DEF X!Stored, X!Planned
      <3>4. Null \notin c.extensions
        BY <2>1 DEF X!Accepts, X!Planned
      <3> HIDE DEF o, a, id
      <3>5. o \in X!Objects
        BY <1>a, <3>1, <3>2, <3>4 DEF X!Objects
      <3>6. a \in X!Models /\ a # Null
        <4>1. a \in X!Models
          BY <1>a, <3>1, <3>3 DEF X!Models
        <4>2. QED
          BY <4>1 DEF ExtensionsValues
      <3>7. X!ToModel(o, a) = a
        BY <1>a, <3>2, <3>3 DEF X!ToModel, X!Narrowed
      <3>8. X!ScopeTold(o, a)
        <4>1. /\ o.machineSet = X!Narrowed(c, "machineSet")
              /\ o.clusterMachine = X!Narrowed(c, "clusterMachine")
              /\ a.selector = c.selector /\ o.cluster = a.cluster
          BY <3>2, <3>3
        <4>2. QED
          BY <1>a, <4>1 DEF X!ScopeTold, ExtensionsValues
      <3>9. X!Planned(c, a) = a
        BY <3>3, <3>6 DEF X!Planned
      <3>10. QED
        BY <3>2, <3>3, <3>5, <3>6, <3>7, <3>8, <3>9 DEF o, a
    <2>2. QED
      BY <2>1 DEF ExtensionsLife!Creating, ExtensionsLife!IsRead, X!IdIn, X!IdOf
  <1>4. ExtensionsLife!Updating(X!Kind)
    <2>1. ASSUME NEW c \in X!Configs, NEW m \in X!Models, NEW o \in X!Objects, m.id = o.id,
                 X!Accepts(X!Planned(c, m)), ~X!Replaces(X!Planned(c, m), m)
          PROVE  LET p == X!Planned(c, m)
                     n == X!Applied(p, o)
                     a == X!Stored(p, n)
                 IN  /\ n \in X!Objects /\ n.id = o.id /\ a \in X!Models /\ a.id = n.id
                     /\ X!ScopeTold(o, m) => X!ScopeTold(n, m) /\ X!ScopeTold(n, a)
                     /\ X!ToModel(o, m) = m => X!ToModel(n, a) = a /\ X!Planned(c, a) = a
      <3> DEFINE n == X!Applied(X!Planned(c, m), o)
                 a == X!Stored(X!Planned(c, m), n)
      <3>1. c.cluster = m.cluster /\ c.selector = m.selector /\ Null \notin c.extensions
        BY <2>1 DEF X!Replaces, X!Planned, X!Accepts
      <3>2. n = [o EXCEPT !.extensions = c.extensions] /\ n \in X!Objects
        BY <1>a, <3>1 DEF X!Applied, X!Planned, X!Objects
      <3>3. a = [id |-> o.id, cluster |-> m.cluster, selector |-> m.selector,
                 extensions |-> c.extensions]
        BY <3>1, <3>2 DEF X!Stored, X!Planned, X!Objects
      <3> HIDE DEF n, a
      <3>4. a \in X!Models /\ a # Null
        <4>1. m.cluster \in {Null} \cup Clusters /\ m.selector \in {Null} \cup X!Scopes
          BY DEF X!Models
        <4>2. c.extensions \in ExtensionSets /\ o.id \in X!Ids
          BY <1>a DEF X!Objects
        <4>3. a \in X!Models
          BY <3>3, <4>1, <4>2 DEF X!Models
        <4>4. QED
          BY <4>3 DEF ExtensionsValues
      <3>5. X!ScopeTold(o, m) => X!ScopeTold(n, m) /\ X!ScopeTold(n, a)
        BY <3>2, <3>3 DEF X!ScopeTold, X!Objects
      <3>6. X!ToModel(o, m) = m => X!ToModel(n, a) = a
        BY <3>2, <3>3 DEF X!ToModel, X!Objects
      <3>7. X!Planned(c, a) = a
        BY <3>1, <3>3, <3>4 DEF X!Planned
      <3>8. QED
        BY <3>2, <3>3, <3>4, <3>5, <3>6, <3>7 DEF X!Objects, n, a
    <2>2. QED
      BY <2>1 DEF ExtensionsLife!Updating, X!IdIn, X!IdOf
  <1>5. ExtensionsLife!Editing(X!Kind)
    BY DEF ExtensionsLife!Editing, X!Objects, X!Foreign, X!IdOf
  <1>6. ExtensionsLife!Telling(X!Kind)
    <2>1. ASSUME NEW c \in X!Configs, NEW m \in X!Models, NEW o \in X!Objects,
                 X!ToModel(o, m) = m, X!ScopeTold(o, m), X!Planned(c, m) = m
          PROVE  X!Meets(c, o)
      <3>1. /\ c.cluster = o.cluster /\ c.extensions = o.extensions
            /\ c.selector = IF o.machineSet = Null /\ o.clusterMachine = Null THEN m.selector
                            ELSE [machineSet |-> o.machineSet, clusterMachine |-> o.clusterMachine]
            /\ c.selector = m.selector
        <4>1. c.cluster # Null
          BY <1>a DEF ExtensionsValues
        <4>2. m.cluster = c.cluster
          BY <2>1 DEF X!Planned
        <4>3. o.cluster # Null
          BY <2>1, <4>1, <4>2 DEF X!ScopeTold
        <4>4. QED
          BY <2>1, <4>3 DEF X!ToModel, X!Planned
      <3>2. CASE c.selector = Null
        <4>1. o.machineSet = Null /\ o.clusterMachine = Null
          BY <3>1, <3>2 DEF ExtensionsValues, X!Scopes, X!Objects
        <4>2. QED
          BY <3>1, <3>2, <4>1 DEF X!Meets, X!Narrowed
      <3>3. CASE c.selector # Null
        <4>1. c.selector \in X!Scopes
          BY <1>a, <3>3
        <4>2. c.selector = [machineSet |-> o.machineSet, clusterMachine |-> o.clusterMachine]
          BY <2>1, <3>1, <4>1 DEF X!ScopeTold
        <4>3. QED
          BY <3>1, <3>3, <4>2 DEF X!Meets, X!Narrowed
      <3>4. QED
        BY <3>2, <3>3
    <2>2. QED
      BY <2>1 DEF ExtensionsLife!Telling, ExtensionsLife!IsRead
  <1>7. QED
    BY <1>1, <1>2, <1>3, <1>4, <1>5, <1>6 DEF ExtensionsLife!Sound

\* Extensions are read as they were applied, and drift of them shows unless others have put
\* a set of another scope in their place (omni_machine_extensions_resource.go).
THEOREM ExtensionsWorks ==
  ASSUME ExtensionsValues
  PROVE  ExtensionsLife!Spec =>
           /\ []ExtensionsLife!StateIsTrue /\ []ExtensionsLife!NoSpuriousDiff
           /\ []ExtensionsLife!NoHiddenDrift /\ ExtensionsLife!OnlyOwnObjects
  BY ExtensionsIsSound, ExtensionsLife!SoundResourceWorks, MaxEventsAssumption

--------------------------------------------------------------------------------
(* omni_machine_install_disk. *)

DiskLife == INSTANCE ResourceProofs WITH
  Kinds <- {D!Kind},
  ConfigsOf <- LAMBDA k : D!Configs, ModelsOf <- LAMBDA k : D!Models,
  ObjectsOf <- LAMBDA k : D!Objects, Imported <- LAMBDA k, id : D!Blank(id),
  PlanOf <- LAMBDA k, c, m : D!Planned(c, m),
  MustReplace <- LAMBDA k, p, m : D!Replaces(p, m),
  Converts <- LAMBDA k, p : D!Accepts(p), Created <- LAMBDA k, p : D!NewObject(p),
  Updated <- LAMBDA k, p, o : D!Applied(p, o),
  AfterApply <- LAMBDA k, p, o : D!Stored(p, o),
  ReadBack <- LAMBDA k, o, m : D!ToModel(o, m),
  ObjectId <- LAMBDA k, o : D!IdOf(o), StateId <- LAMBDA k, m : D!IdIn(m),
  EditsOf <- LAMBDA k, o : D!Foreign(o), AsConfigured <- LAMBDA k, c, o : D!Meets(c, o),
  ShowsScope <- LAMBDA k, o, m : TRUE, TearsDown <- LAMBDA k : TRUE

\* The conversions of the install disk code are sound.
LEMMA DiskIsSound == ASSUME DiskValues PROVE DiskLife!Sound(D!Kind)
  <1>1. DiskLife!Planning(D!Kind)
    BY DEF DiskLife!Planning, D!Planned, D!Replaces, D!Configs, D!Models, D!IdIn
  <1>2. DiskLife!Reading(D!Kind)
    BY DEF DiskLife!Reading, DiskLife!IsRead, D!Objects, D!Models, D!Blank, D!ToModel,
         D!Optional, D!Empty, D!IdIn, D!IdOf
  <1>3. DiskLife!Creating(D!Kind)
    <2>1. ASSUME NEW c \in D!Configs
          PROVE  LET o == D!NewObject(c)
                 IN  o \in D!Objects /\ o.machineId = c.machineId
                       /\ D!ToModel(o, c) = c /\ c \in D!Models
      BY DEF DiskValues, D!Configs, D!Models, D!Objects, D!NewObject, D!Applied, D!Value, D!ToModel,
           D!Optional, D!Empty
    <2>2. QED
      BY <2>1 DEF DiskLife!Creating, DiskLife!IsRead, D!Planned, D!Stored, D!IdIn, D!IdOf
  <1>4. DiskLife!Updating(D!Kind)
    <2>1. ASSUME NEW c \in D!Configs, NEW o \in D!Objects, c.machineId = o.machineId
          PROVE  LET n == D!Applied(c, o)
                 IN  n \in D!Objects /\ n.machineId = o.machineId
                       /\ D!ToModel(n, c) = c /\ c \in D!Models
      BY <2>1 DEF DiskValues, D!Configs, D!Models, D!Objects, D!Applied, D!Value, D!ToModel, D!Optional,
           D!Empty
    <2>2. QED
      BY <2>1 DEF DiskLife!Updating, D!Planned, D!Stored, D!IdIn, D!IdOf, D!Replaces
  <1>5. DiskLife!Editing(D!Kind)
    BY DEF DiskLife!Editing, D!Objects, D!Foreign, D!Empty, D!IdOf
  <1>6. DiskLife!Telling(D!Kind)
    <2>1. ASSUME NEW c, NEW o, D!ToModel(o, c) = c
          PROVE  D!Meets(c, o)
      BY <2>1 DEF D!Meets, D!ToModel
    <2>2. QED
      BY <2>1 DEF DiskLife!Telling, DiskLife!IsRead, D!Planned
  <1>7. QED
    BY <1>1, <1>2, <1>3, <1>4, <1>5, <1>6 DEF DiskLife!Sound

\* An install disk is read as it was applied, and drift of it shows (omni_machine_install_
\* disk_resource.go).
THEOREM DiskWorks ==
  ASSUME DiskValues
  PROVE  DiskLife!Spec =>
           /\ []DiskLife!StateIsTrue /\ []DiskLife!NoSpuriousDiff
           /\ []DiskLife!NoHiddenDrift /\ DiskLife!OnlyOwnObjects
  BY DiskIsSound, DiskLife!SoundResourceWorks, MaxEventsAssumption

--------------------------------------------------------------------------------
(* omni_kubernetes_manifest. *)

ManifestLife == INSTANCE ResourceProofs WITH
  Kinds <- {K!Kind},
  ConfigsOf <- LAMBDA k : K!Configs, ModelsOf <- LAMBDA k : K!Models,
  ObjectsOf <- LAMBDA k : K!Objects, Imported <- LAMBDA k, id : K!Blank(id),
  PlanOf <- LAMBDA k, c, m : K!Planned(c, m),
  MustReplace <- LAMBDA k, p, m : K!Replaces(p, m),
  Converts <- LAMBDA k, p : K!Accepts(p), Created <- LAMBDA k, p : K!NewObject(p),
  Updated <- LAMBDA k, p, o : K!Applied(p, o),
  AfterApply <- LAMBDA k, p, o : K!Stored(p, o),
  ReadBack <- LAMBDA k, o, m : K!ToModel(o, m),
  ObjectId <- LAMBDA k, o : K!IdOf(o), StateId <- LAMBDA k, m : K!IdIn(m),
  EditsOf <- LAMBDA k, o : K!Foreign(o), AsConfigured <- LAMBDA k, c, o : K!Meets(c, o),
  ShowsScope <- LAMBDA k, o, m : K!ScopeTold(o, m), TearsDown <- LAMBDA k : TRUE

\* The conversions of the manifest code are sound.
LEMMA ManifestIsSound == ASSUME ManifestValues PROVE ManifestLife!Sound(K!Kind)
  <1>a. ASSUME NEW id \in K!Ids
        PROVE  K!WeightInId(id) = id.weight /\ K!NameInId(id) = <<id.target, id.name>>
    <2>1. id.weight \in Weights \cup {K!DefaultWeight}
      BY DEF K!Ids
    <2>2. Weights \subseteq Nat
      BY DEF ManifestValues
    <2>3. CASE id.weight = K!DefaultWeight
      BY <2>3 DEF K!WeightInId, K!NameInId, K!DefaultWeight
    <2>4. CASE id.weight \in Weights
      <3>1. id.weight \in Nat
        BY <2>2, <2>4
      <3>2. QED
        BY <3>1 DEF K!WeightInId, K!NameInId
    <2>5. QED
      BY <2>1, <2>3, <2>4
  <1>1. ManifestLife!Planning(K!Kind)
    BY DEF ManifestLife!Planning, K!Planned, K!Replaces, K!Configs, K!Models, K!IdIn
  <1>2. ManifestLife!Reading(K!Kind)
    <2>1. ASSUME NEW o \in K!Objects, NEW m, m.cluster \in {Null} \cup Clusters
          PROVE  LET r == K!ToModel(o, m)
                 IN  /\ r \in K!Models /\ r.id = o.id /\ K!ToModel(o, r) = r
                     /\ K!ScopeTold(o, m) => K!ScopeTold(o, r)
      <3> DEFINE r == K!ToModel(o, m)
                 name == IF o.nameAnnotation # Null THEN o.nameAnnotation
                         ELSE <<o.id.target, o.id.name>>
                 cluster == IF o.cluster # Null THEN o.cluster ELSE m.cluster
      <3>1. o.id \in K!Ids /\ o.mode \in K!Modes /\ o.data \in Data
            /\ o.nameAnnotation \in {Null} \cup PatchNames
        BY DEF K!Objects
      <3>2. r = [id |-> o.id, name |-> name, weight |-> o.id.weight, mode |-> o.mode,
                 data |-> o.data, cluster |-> cluster]
        BY <1>a, <3>1 DEF K!ToModel
      <3>3. name \in PatchNames \cup (Clusters \X PatchNames)
            /\ o.id.weight \in Weights \cup {K!DefaultWeight}
        BY <3>1 DEF K!Ids
      <3>4. cluster \in {Null} \cup Clusters
        BY <2>1 DEF K!Objects
      <3>5. K!ToModel(o, r) =
              [id |-> o.id, name |-> name, weight |-> o.id.weight, mode |-> o.mode,
               data |-> o.data, cluster |-> IF o.cluster # Null THEN o.cluster ELSE r.cluster]
        BY <1>a, <3>1 DEF K!ToModel
      <3>6. K!ScopeTold(o, m) => K!ScopeTold(o, r)
        BY <3>2 DEF K!ScopeTold
      <3> HIDE DEF r, name
      <3>7. K!ToModel(o, r) = r
        BY <3>2, <3>5
      <3> HIDE DEF cluster
      <3>8. r \in K!Models
        BY <3>1, <3>2, <3>3, <3>4 DEF K!Models
      <3>9. QED
        BY <3>2, <3>6, <3>7, <3>8 DEF r
    <2>2. \A id : K!Blank(id).cluster = Null
      BY DEF K!Blank
    <2>3. \A o, id : K!ScopeTold(o, K!Blank(id))
      BY <2>2 DEF K!ScopeTold
    <2>4. \A m \in K!Models : m.cluster \in {Null} \cup Clusters
      BY DEF K!Models
    <2>5. QED
      BY <2>1, <2>2, <2>3, <2>4 DEF ManifestLife!Reading, ManifestLife!IsRead, K!IdIn, K!IdOf
  <1>3. ManifestLife!Creating(K!Kind)
    <2>1. ASSUME NEW c \in K!Configs
          PROVE  LET p == K!Planned(c, Null)
                     o == K!NewObject(p)
                     a == K!Stored(p, o)
                 IN  /\ o \in K!Objects /\ a \in K!Models /\ a.id = o.id
                     /\ K!ToModel(o, a) = a /\ K!ScopeTold(o, a) /\ K!Planned(c, a) = a
      <3> DEFINE w == IF c.weight = Null THEN K!DefaultWeight ELSE c.weight
                 id == [weight |-> w, target |-> c.cluster, name |-> c.name]
      <3>1. /\ c.name \in PatchNames /\ c.mode \in K!Modes /\ c.data \in Data /\ c.cluster \in Clusters
            /\ w \in Weights \cup {K!DefaultWeight}
        BY DEF K!Configs
      <3> HIDE DEF w
      <3>2. K!NewObject(K!Planned(c, Null)) =
              [id |-> id, nameAnnotation |-> c.name, mode |-> c.mode, data |-> c.data,
               cluster |-> c.cluster]
        BY DEF K!NewObject, K!Planned, w
      <3>3. K!Stored(K!Planned(c, Null), K!NewObject(K!Planned(c, Null))) =
              [id |-> id, name |-> c.name, weight |-> w, mode |-> c.mode,
               data |-> c.data, cluster |-> c.cluster]
        BY <3>2 DEF K!Stored, K!Planned, w
      <3>4. c.name # Null
        BY <3>1 DEF ManifestValues
      <3>5. id \in K!Ids
        BY <3>1 DEF K!Ids
      <3> HIDE DEF id
      <3>6. K!NewObject(K!Planned(c, Null)) \in K!Objects
        BY <3>1, <3>2, <3>5 DEF K!Objects
      <3>7. K!Stored(K!Planned(c, Null), K!NewObject(K!Planned(c, Null))) \in K!Models
        BY <3>1, <3>3, <3>5 DEF K!Models
      <3>8. K!ToModel(K!NewObject(K!Planned(c, Null)),
                      K!Stored(K!Planned(c, Null), K!NewObject(K!Planned(c, Null))))
              = K!Stored(K!Planned(c, Null), K!NewObject(K!Planned(c, Null)))
        BY <1>a, <3>2, <3>3, <3>4, <3>5 DEF K!ToModel, id
      <3>9. K!Planned(c, K!Stored(K!Planned(c, Null), K!NewObject(K!Planned(c, Null))))
              = K!Stored(K!Planned(c, Null), K!NewObject(K!Planned(c, Null)))
        BY <3>3, <3>7 DEF K!Planned, w, ManifestValues
      <3>10. K!ScopeTold(K!NewObject(K!Planned(c, Null)),
                          K!Stored(K!Planned(c, Null), K!NewObject(K!Planned(c, Null))))
        BY <3>2, <3>3 DEF K!ScopeTold
      <3>11. QED
        BY <3>2, <3>3, <3>6, <3>7, <3>8, <3>9, <3>10
    <2>2. QED
      BY <2>1 DEF ManifestLife!Creating, ManifestLife!IsRead, K!IdIn, K!IdOf
  <1>4. ManifestLife!Updating(K!Kind)
    <2>1. ASSUME NEW c \in K!Configs, NEW m \in K!Models, NEW o \in K!Objects,
                 ~K!Replaces(K!Planned(c, m), m), m.id = o.id
          PROVE  LET p == K!Planned(c, m)
                     n == K!Applied(p, o)
                     a == K!Stored(p, n)
                 IN  /\ n \in K!Objects /\ n.id = o.id /\ a \in K!Models /\ a.id = n.id
                     /\ K!ScopeTold(o, m) => K!ScopeTold(n, m) /\ K!ScopeTold(n, a)
                     /\ K!ToModel(o, m) = m => K!ToModel(n, a) = a /\ K!Planned(c, a) = a
      <3> DEFINE p == K!Planned(c, m)
                 n == K!Applied(p, o)
      <3>1. p \in K!Models /\ p.id = m.id /\ m # Null /\ p # Null
        BY DEF ManifestValues, K!Planned, K!Configs, K!Models
      <3>2. n \in K!Objects /\ n = [o EXCEPT !.mode = p.mode, !.data = p.data]
        BY DEF K!Planned, K!Configs, K!Objects, K!Applied
      <3>3. K!Stored(p, n) = p
        BY <2>1, <3>1, <3>2 DEF K!Stored, K!Models, K!Objects
      <3>4. p = [m EXCEPT !.mode = p.mode, !.data = p.data]
        BY <2>1, <3>1 DEF K!Replaces, K!Models
      <3>5. K!ToModel(o, m) = m => K!ToModel(n, p) = p
        <4> SUFFICES ASSUME K!ToModel(o, m) = m PROVE K!ToModel(n, p) = p
          OBVIOUS
        <4>0. o.id \in K!Ids
          BY DEF K!Objects
        <4>1. /\ m.id = o.id /\ m.weight = o.id.weight
              /\ m.cluster = IF o.cluster # Null THEN o.cluster ELSE m.cluster
              /\ m.name = IF o.nameAnnotation # Null THEN o.nameAnnotation
                         ELSE <<o.id.target, o.id.name>>
          BY <1>a, <4>0 DEF K!ToModel
        <4>2. p = [id |-> m.id, name |-> m.name, weight |-> m.weight, mode |-> p.mode,
                   data |-> p.data, cluster |-> m.cluster]
          BY <3>1, <3>4 DEF K!Models
        <4>3. /\ n.id = o.id /\ n.nameAnnotation = o.nameAnnotation /\ n.mode = p.mode
              /\ n.data = p.data /\ n.cluster = o.cluster
          BY <3>2 DEF K!Objects
        <4> HIDE DEF n, p
        <4>4. QED
          BY <1>a, <4>0, <4>1, <4>2, <4>3 DEF K!ToModel
      <3>6. K!Planned(c, p) = p
        BY <3>1 DEF K!Planned, ManifestValues
      <3>7. n.cluster = o.cluster /\ p.cluster = m.cluster
        BY <3>1, <3>2, <3>4 DEF K!Objects, K!Models
      <3>8. K!ScopeTold(o, m) => K!ScopeTold(n, m) /\ K!ScopeTold(n, p)
        BY <3>7 DEF K!ScopeTold
      <3>9. QED
        BY <2>1, <3>1, <3>2, <3>3, <3>5, <3>6, <3>8 DEF K!Objects
    <2>2. QED
      BY <2>1 DEF ManifestLife!Updating, K!IdIn, K!IdOf
  <1>5. ManifestLife!Editing(K!Kind)
    BY DEF ManifestLife!Editing, K!Objects, K!Foreign, K!IdOf
  <1>6. ManifestLife!Telling(K!Kind)
    <2>1. ASSUME NEW c \in K!Configs, NEW m, NEW o, K!ToModel(o, m) = m, K!Planned(c, m) = m,
                 K!ScopeTold(o, m)
          PROVE  K!Meets(c, o)
      <3>1. m.cluster = c.cluster /\ c.cluster # Null
        BY <2>1 DEF K!Planned, K!Configs, ManifestValues
      <3>2. o.cluster # Null
        BY <2>1, <3>1 DEF K!ScopeTold
      <3>3. QED
        BY <2>1, <3>2 DEF K!Meets, K!ToModel, K!Planned
    <2>2. QED
      BY <2>1 DEF ManifestLife!Telling, ManifestLife!IsRead
  <1>7. QED
    BY <1>1, <1>2, <1>3, <1>4, <1>5, <1>6 DEF ManifestLife!Sound

\* A manifest is read as it was applied, and drift of it shows (omni_kubernetes_manifest_
\* resource.go).
THEOREM ManifestWorks ==
  ASSUME ManifestValues
  PROVE  ManifestLife!Spec =>
           /\ []ManifestLife!StateIsTrue /\ []ManifestLife!NoSpuriousDiff
           /\ []ManifestLife!NoHiddenDrift /\ ManifestLife!OnlyOwnObjects
  BY ManifestIsSound, ManifestLife!SoundResourceWorks, MaxEventsAssumption

--------------------------------------------------------------------------------
(* omni_kubernetes_healthcheck: its interval keeps the form of the text. *)

HealthCheckLife == INSTANCE ResourceProofs WITH
  Kinds <- {H!Kind},
  ConfigsOf <- LAMBDA k : H!Configs, ModelsOf <- LAMBDA k : H!Models,
  ObjectsOf <- LAMBDA k : H!Objects, Imported <- LAMBDA k, id : H!Blank(id),
  PlanOf <- LAMBDA k, c, m : H!Planned(c, m),
  MustReplace <- LAMBDA k, p, m : H!Replaces(p, m),
  Converts <- LAMBDA k, p : H!Accepts(p), Created <- LAMBDA k, p : H!NewObject(p),
  Updated <- LAMBDA k, p, o : H!Applied(p, o),
  AfterApply <- LAMBDA k, p, o : H!Stored(p, o),
  ReadBack <- LAMBDA k, o, m : H!ToModel(o, m),
  ObjectId <- LAMBDA k, o : H!IdOf(o), StateId <- LAMBDA k, m : H!IdIn(m),
  EditsOf <- LAMBDA k, o : H!Foreign(o), AsConfigured <- LAMBDA k, c, o : H!Meets(c, o),
  ShowsScope <- LAMBDA k, o, m : H!ScopeTold(o, m), TearsDown <- LAMBDA k : TRUE

\* The conversions of the healthcheck code are sound.
LEMMA HealthCheckIsSound == ASSUME HealthCheckValues PROVE HealthCheckLife!Sound(H!Kind)
  <1>a. ASSUME NEW t \in Intervals
        PROVE  t.dur \in Nat \ {0} /\ t.dur # Null /\ t # Null
    BY DEF HealthCheckValues
  <1>b. ASSUME NEW existing \in {Null} \cup Intervals \cup {H!Text(t.dur) : t \in Intervals},
               NEW d \in {t.dur : t \in Intervals}
        PROVE  LET r == H!ReconcileDuration(existing, d)
               IN  /\ r \in Intervals \cup {H!Text(t.dur) : t \in Intervals}
                   /\ r.dur = d /\ H!ReconcileDuration(r, d) = r
    <2>1. d # 0 /\ H!Text(d) \in {H!Text(t.dur) : t \in Intervals} /\ H!Text(d).dur = d
      BY DEF HealthCheckValues, H!Text
    <2>2. CASE existing # Null /\ H!ParsesAsDuration(existing) /\ existing.dur = d
      BY <2>1, <2>2 DEF H!ReconcileDuration
    <2>3. CASE ~(existing # Null /\ H!ParsesAsDuration(existing) /\ existing.dur = d)
      <3>1. H!ReconcileDuration(existing, d) = H!Text(d)
        BY <2>1, <2>3 DEF H!ReconcileDuration
      <3>2. H!ReconcileDuration(H!Text(d), d) = H!Text(d)
        BY <2>1 DEF H!ReconcileDuration
      <3>3. QED
        BY <2>1, <3>1, <3>2
    <2>4. QED
      BY <2>2, <2>3
  <1>c. ASSUME NEW t \in Intervals, H!ParsesAsDuration(t)
        PROVE  H!Interval(t) = t.dur /\ H!ReconcileDuration(t, t.dur) = t
    BY <1>a, <1>c DEF H!Interval, H!ReconcileDuration
  <1>d. ASSUME NEW i \in {Null} \cup {t.dur : t \in Intervals}
        PROVE  i # Null => i \in {t.dur : t \in Intervals} /\ i # 0
    BY DEF HealthCheckValues
  <1>1. HealthCheckLife!Planning(H!Kind)
    BY DEF HealthCheckLife!Planning, H!Planned, H!Configs, H!Models, H!IdIn
  <1>2. HealthCheckLife!Reading(H!Kind)
    <2>1. ASSUME NEW o \in H!Objects, NEW m, m.cluster \in {Null} \cup Clusters,
                 m.interval \in {Null} \cup Intervals \cup {H!Text(t.dur) : t \in Intervals}
          PROVE  LET r == H!ToModel(o, m)
                 IN  /\ r \in H!Models /\ r.name = H!Name /\ H!ToModel(o, r) = r
                     /\ H!ScopeTold(o, m) => H!ScopeTold(o, r)
      <3> DEFINE d == IF o.interval = Null THEN 0 ELSE o.interval
                 i == IF m.interval = Null THEN Null ELSE H!ReconcileDuration(m.interval, d)
                 cl == IF o.cluster # Null THEN o.cluster ELSE m.cluster
      <3>1. H!ToModel(o, m) = [name |-> H!Name, cluster |-> cl, job |-> o.job, interval |-> i]
        BY DEF H!ToModel
      <3>2. cl \in {Null} \cup Clusters /\ o.job \in Data
            /\ o.interval \in {Null} \cup {t.dur : t \in Intervals}
        BY <2>1 DEF H!Objects
      <3>6. H!ScopeTold(o, m) => H!ScopeTold(o, H!ToModel(o, m))
        BY <3>1 DEF H!ScopeTold
      <3>3. /\ i \in {Null} \cup Intervals \cup {H!Text(t.dur) : t \in Intervals}
            /\ i = IF i = Null THEN Null ELSE H!ReconcileDuration(i, d)
        <4>1. CASE o.interval = Null
          BY <4>1 DEF H!ReconcileDuration
        <4>2. CASE o.interval # Null
          BY <1>b, <2>1, <3>2, <4>2
        <4>3. QED
          BY <4>1, <4>2
      <3>4. H!ToModel(o, H!ToModel(o, m)) =
              [name |-> H!Name, cluster |-> cl, job |-> o.job,
               interval |-> IF i = Null THEN Null ELSE H!ReconcileDuration(i, d)]
        BY <3>1 DEF H!ToModel
      <3> HIDE DEF i, d, cl
      <3>5. QED
        BY <3>1, <3>2, <3>3, <3>4, <3>6 DEF H!Models
    <2>2. /\ \A id : H!Blank(id).interval = Null /\ H!Blank(id).cluster = Null
          /\ \A o, id : H!ScopeTold(o, H!Blank(id))
      BY DEF H!Blank, H!ScopeTold
    <2>3. \A m \in H!Models :
            /\ m.interval \in {Null} \cup Intervals \cup {H!Text(t.dur) : t \in Intervals}
            /\ m.cluster \in {Null} \cup Clusters
      BY DEF H!Models
    <2>4. QED
      BY <2>1, <2>2, <2>3 DEF HealthCheckLife!Reading, HealthCheckLife!IsRead, H!IdIn, H!IdOf
  <1> DEFINE Model(c) == [name |-> H!Name, cluster |-> c.cluster, job |-> c.job,
                          interval |-> c.interval]
             Object(c, cl) == [cluster |-> cl, job |-> c.job, interval |-> H!Interval(c.interval)]
             Sent(c, cl) == Object(c, cl) \in H!Objects /\ H!ToModel(Object(c, cl), Model(c)) = Model(c)
  <1>f. ASSUME NEW c \in H!Configs
        PROVE  /\ Model(c) \in H!Models /\ \A m : H!Planned(c, m) = Model(c)
               /\ H!Accepts(Model(c)) => \A cl \in {Null, c.cluster} : Sent(c, cl)
    <2> DEFINE p == Model(c)
    <2>1. c.cluster \in Clusters /\ c.job \in Data /\ c.interval \in {Null} \cup Intervals
      BY DEF H!Configs
    <2>2. ASSUME NEW cl \in {Null, c.cluster}, H!Accepts(p)
          PROVE  Sent(c, cl)
      <3>1. CASE c.interval = Null
        BY <2>1, <2>2, <3>1 DEF H!Objects, H!Interval, H!ToModel
      <3>2. CASE c.interval # Null
        <4>1. c.interval \in Intervals /\ H!ParsesAsDuration(c.interval)
          BY <2>1, <2>2, <3>2 DEF H!Accepts
        <4>2. H!Interval(c.interval) = c.interval.dur /\ c.interval.dur # Null
          BY <1>a, <1>c, <4>1
        <4>3. QED
          BY <1>c, <2>1, <2>2, <3>2, <4>1, <4>2 DEF H!Objects, H!ToModel
      <3>3. QED
        BY <3>1, <3>2
    <2>3. QED
      BY <2>1, <2>2 DEF H!Models, H!Planned
  <1>3. HealthCheckLife!Creating(H!Kind)
    <2>1. ASSUME NEW p
          PROVE H!NewObject(p) = [cluster |-> p.cluster, job |-> p.job, interval |-> H!Interval(p.interval)]
      BY DEF H!NewObject, H!Applied
    <2>2. ASSUME NEW c \in H!Configs, H!Accepts(H!Planned(c, Null))
          PROVE  LET p == H!Planned(c, Null)
                     o == H!NewObject(p)
                 IN  /\ o \in H!Objects /\ p \in H!Models /\ p.name = H!Name
                     /\ H!ToModel(o, p) = p /\ H!ScopeTold(o, p)
      <3>1. H!Planned(c, Null) = Model(c)
        BY <1>f
      <3>2. H!NewObject(Model(c)) = Object(c, c.cluster)
        BY <2>1
      <3>3. H!ScopeTold(Object(c, c.cluster), Model(c)) /\ Model(c).name = H!Name
        BY DEF H!ScopeTold
      <3> HIDE DEF Model, Object
      <3>4. Model(c) \in H!Models /\ Sent(c, c.cluster)
        BY <1>f, <2>2, <3>1
      <3>5. QED
        BY <3>1, <3>2, <3>3, <3>4
    <2>3. QED
      BY <2>2 DEF HealthCheckLife!Creating, HealthCheckLife!IsRead, H!Stored, H!IdIn, H!IdOf,
           H!Planned
  <1>4. HealthCheckLife!Updating(H!Kind)
    <2>1. ASSUME NEW c \in H!Configs, NEW m \in H!Models, NEW o \in H!Objects,
                 ~H!Replaces(H!Planned(c, m), m), H!Accepts(H!Planned(c, m))
          PROVE  LET p == H!Planned(c, m)
                     n == H!Applied(p, o)
                 IN  /\ n \in H!Objects /\ p \in H!Models /\ p.name = H!Name
                     /\ H!ScopeTold(o, m) => H!ScopeTold(n, m) /\ H!ScopeTold(n, p)
                     /\ H!ToModel(o, m) = m => H!ToModel(n, p) = p
      <3> DEFINE p == H!Planned(c, m)
                 n == H!Applied(p, o)
      <3>1. p = Model(c)
        BY DEF H!Planned
      <3>2. n = Object(c, o.cluster)
        BY DEF H!Applied, H!Planned, H!Objects
      <3>3. H!Interval(c.interval) \in {Null} \cup {t.dur : t \in Intervals} /\ c.job \in Data
        <4>1. c.interval \in {Null} \cup Intervals /\ c.job \in Data
          BY DEF H!Configs
        <4>2. QED
          BY <4>1 DEF H!Interval
      <3>4. n \in H!Objects
        BY <3>2, <3>3 DEF H!Objects
      <3>5. H!ToModel(o, m) = m => o.cluster \in {Null, c.cluster}
        BY <2>1 DEF H!ToModel, H!Replaces, H!Planned
      <3>6. H!ScopeTold(o, m) => H!ScopeTold(n, m) /\ H!ScopeTold(n, p)
        BY <2>1, <3>1, <3>2 DEF H!ScopeTold, H!Replaces
      <3>7. p.name = H!Name
        BY <3>1
      <3> HIDE DEF Model, Object
      <3>8. /\ Model(c) \in H!Models
            /\ H!ToModel(o, m) = m => Sent(c, o.cluster)
        BY <1>f, <2>1, <3>1, <3>5
      <3>9. QED
        BY <3>1, <3>2, <3>4, <3>6, <3>7, <3>8
    <2>2. QED
      BY <2>1 DEF HealthCheckLife!Updating, H!Stored, H!IdIn, H!IdOf, H!Planned
  <1>5. HealthCheckLife!Editing(H!Kind)
    <2>1. \A t \in {Null} \cup Intervals : H!Interval(t) \in {Null} \cup {u.dur : u \in Intervals}
      BY DEF H!Interval
    <2>2. QED
      BY <2>1 DEF HealthCheckLife!Editing, H!Objects, H!Foreign, H!IdOf
  <1>6. HealthCheckLife!Telling(H!Kind)
    <2>1. ASSUME NEW c \in H!Configs, NEW m \in H!Models, NEW o \in H!Objects,
                 H!ToModel(o, m) = m, H!Planned(c, m) = m, H!ScopeTold(o, m)
          PROVE  H!Meets(c, o)
      <3>1. o.cluster = c.cluster /\ o.job = c.job /\ m.interval = c.interval
        <4>1. m.cluster = c.cluster /\ c.cluster # Null
          BY <2>1 DEF H!Planned, H!Configs, HealthCheckValues
        <4>2. o.cluster # Null
          BY <2>1, <4>1 DEF H!ScopeTold
        <4>3. QED
          BY <2>1, <4>2 DEF H!ToModel, H!Planned
      <3>2. ASSUME c.interval # Null PROVE o.interval = H!Interval(c.interval)
        <4>1. c.interval = H!ReconcileDuration(c.interval, IF o.interval = Null THEN 0 ELSE o.interval)
          BY <2>1, <3>1, <3>2 DEF H!ToModel
        <4>2. c.interval \in Intervals /\ o.interval \in {Null} \cup {t.dur : t \in Intervals}
          BY <3>2 DEF H!Configs, H!Objects
        <4>3. o.interval # Null
          BY <3>2, <4>1 DEF H!ReconcileDuration
        <4>4. c.interval.dur = o.interval
          BY <1>b, <4>1, <4>2, <4>3
        <4>5. c.interval.dur \in Nat \ {0}
          BY <1>a, <4>2
        <4>6. QED
          BY <3>2, <4>4, <4>5 DEF H!Interval
      <3>3. QED
        BY <3>1, <3>2 DEF H!Meets
    <2>2. QED
      BY <2>1 DEF HealthCheckLife!Telling, HealthCheckLife!IsRead
  <1>7. QED
    BY <1>1, <1>2, <1>3, <1>4, <1>5, <1>6 DEF HealthCheckLife!Sound

\* A healthcheck with a positive interval, or none, is read as it was applied, in the form
\* it was written in, and drift of it shows (omni_kubernetes_healthcheck_resource.go).
THEOREM HealthCheckWorks ==
  ASSUME HealthCheckValues
  PROVE  HealthCheckLife!Spec =>
           /\ []HealthCheckLife!StateIsTrue /\ []HealthCheckLife!NoSpuriousDiff
           /\ []HealthCheckLife!NoHiddenDrift /\ HealthCheckLife!OnlyOwnObjects
  BY HealthCheckIsSound, HealthCheckLife!SoundResourceWorks, MaxEventsAssumption

--------------------------------------------------------------------------------
(* omni_etcd_backup_s3_config. *)

S3Life == INSTANCE ResourceProofs WITH
  Kinds <- {B!Kind},
  ConfigsOf <- LAMBDA k : B!Configs, ModelsOf <- LAMBDA k : B!Models,
  ObjectsOf <- LAMBDA k : B!Objects, Imported <- LAMBDA k, id : B!Blank(id),
  PlanOf <- LAMBDA k, c, m : B!Planned(c, m),
  MustReplace <- LAMBDA k, p, m : B!Replaces(p, m),
  Converts <- LAMBDA k, p : B!Accepts(p), Created <- LAMBDA k, p : B!NewObject(p),
  Updated <- LAMBDA k, p, o : B!Applied(p, o),
  AfterApply <- LAMBDA k, p, o : B!Stored(p, o),
  ReadBack <- LAMBDA k, o, m : B!ToModel(o, m),
  ObjectId <- LAMBDA k, o : B!IdOf(o), StateId <- LAMBDA k, m : B!IdIn(m),
  EditsOf <- LAMBDA k, o : B!Foreign(o), AsConfigured <- LAMBDA k, c, o : B!Meets(c, o),
  ShowsScope <- LAMBDA k, o, m : TRUE, TearsDown <- LAMBDA k : TRUE

\* The conversions of the backup configuration code are sound.
LEMMA S3IsSound == ASSUME S3Values PROVE S3Life!Sound(B!Kind)
  <1> DEFINE Half == {Null} \cup Keys \cup Tokens
  <1>a. \A x \in Half : B!Optional(B!Value(x)) = x
    BY DEF B!Optional, B!Value, B!Empty, S3Values
  <1>b. \A y \in {""} \cup Keys \cup Tokens : B!Value(B!Optional(y)) = y
    BY DEF B!Optional, B!Value, B!Empty, S3Values
  <1>c. ASSUME NEW s \in B!Credentials
        PROVE  B!Written(s) \in B!StoredCredentials /\ B!AsRead(B!Written(s)) = s
    <2> DEFINE w == B!Written(s)
    <2>1. s = [keyId |-> s.keyId, secret |-> s.secret, token |-> s.token]
      BY DEF B!Credentials
    <2>2. s.keyId \in Half /\ s.secret \in Half /\ s.token \in Half
      BY DEF B!Credentials
    <2>3. w = [keyId |-> B!Value(s.keyId), secret |-> B!Value(s.secret), token |-> B!Value(s.token)]
      BY DEF B!Written
    <2>4. w \in B!StoredCredentials
      <3>1. CASE s.keyId = Null
        <4>1. s.secret = Null /\ s.token = Null
          BY <3>1 DEF B!Credentials, S3Values
        <4>2. QED
          BY <2>3, <3>1, <4>1 DEF B!StoredCredentials, B!NoCredentials, B!Value
      <3>2. CASE s.keyId # Null
        <4>1. s.keyId \in Keys /\ s.secret \in Keys /\ s.token \in {Null} \cup Tokens
          BY <3>2 DEF B!Credentials
        <4>2. /\ B!Value(s.keyId) = s.keyId /\ B!Value(s.secret) = s.secret
              /\ B!Value(s.token) \in {B!Empty} \cup Tokens
          BY <4>1 DEF B!Value, S3Values
        <4> HIDE DEF w
        <4>3. QED
          BY <2>3, <4>1, <4>2 DEF B!StoredCredentials
      <3>3. QED
        BY <3>1, <3>2
    <2> HIDE DEF w
    <2>5. B!AsRead(w) = [keyId |-> s.keyId, secret |-> s.secret, token |-> s.token]
      BY <1>a, <2>2, <2>3 DEF B!AsRead
    <2>6. QED
      BY <2>1, <2>4, <2>5 DEF w
  <1>d. ASSUME NEW v \in B!StoredCredentials
        PROVE  B!AsRead(v) \in B!Credentials /\ B!Written(B!AsRead(v)) = v
    <2> DEFINE r == B!AsRead(v)
    <2>1. v = [keyId |-> v.keyId, secret |-> v.secret, token |-> v.token]
      BY DEF B!StoredCredentials, B!NoCredentials
    <2>2. /\ v.keyId \in {""} \cup Keys \cup Tokens /\ v.secret \in {""} \cup Keys \cup Tokens
          /\ v.token \in {""} \cup Keys \cup Tokens
      <3>1. CASE v = B!NoCredentials
        BY <3>1 DEF B!NoCredentials, B!Empty
      <3>2. CASE v # B!NoCredentials
        BY <3>2 DEF B!StoredCredentials, B!Empty
      <3>3. QED
        BY <3>1, <3>2
    <2>3. r = [keyId |-> B!Optional(v.keyId), secret |-> B!Optional(v.secret),
               token |-> B!Optional(v.token)]
      BY DEF B!AsRead
    <2>4. r \in B!Credentials
      <3>1. CASE v = B!NoCredentials
        <4>1. v.keyId = "" /\ v.secret = "" /\ v.token = ""
          BY <3>1 DEF B!NoCredentials, B!Empty
        <4>2. B!Optional("") = Null
          BY DEF B!Optional, B!Empty
        <4> HIDE DEF r
        <4>3. r = [keyId |-> Null, secret |-> Null, token |-> Null]
          BY <2>3, <4>1, <4>2
        <4>4. QED
          BY <4>3 DEF B!Credentials
      <3>2. CASE v # B!NoCredentials
        <4>1. v.keyId \in Keys /\ v.secret \in Keys /\ v.token \in {""} \cup Tokens
          BY <3>2 DEF B!StoredCredentials, B!Empty
        <4>2. /\ B!Optional(v.keyId) = v.keyId /\ B!Optional(v.secret) = v.secret
              /\ B!Optional(v.token) \in {Null} \cup Tokens
          BY <4>1 DEF B!Optional, B!Empty, S3Values
        <4> HIDE DEF r
        <4>3. QED
          BY <2>3, <4>1, <4>2 DEF B!Credentials
      <3>3. QED
        BY <3>1, <3>2
    <2> HIDE DEF r
    <2>5. B!Written(r) = [keyId |-> v.keyId, secret |-> v.secret, token |-> v.token]
      BY <1>b, <2>2, <2>3 DEF B!Written
    <2>6. QED
      BY <2>1, <2>4, <2>5 DEF r
  <1>e. ASSUME NEW c \in B!Configs
        PROVE  /\ c.bucket \in Buckets /\ c.region \in {Null} \cup Regions
               /\ c.credentials \in B!Credentials
    BY DEF B!Configs
  <1>f. ASSUME NEW o \in B!Objects
        PROVE  /\ o.bucket \in {b.text : b \in Buckets} /\ o.credentials \in B!StoredCredentials
               /\ o.region \in {""} \cup {r.text : r \in Regions}
    BY DEF B!Objects, B!Empty
  <1>g. \A o, m : B!ToModel(o, m) = [id |-> B!Id, bucket |-> B!Plain(o.bucket),
                                     region |-> IF o.region = "" THEN Null ELSE B!Plain(o.region),
                                     credentials |-> B!AsRead(o.credentials)]
    BY DEF B!ToModel, B!Empty
  <1>h. ASSUME NEW c \in B!Configs, NEW id \in {B!Id, Unknown}
        PROVE  [id |-> id, bucket |-> c.bucket, region |-> c.region,
                credentials |-> c.credentials] \in B!Models
    BY <1>e DEF B!Models
  <1>i. ASSUME NEW c \in B!Configs, c.bucket.text # ""
        PROVE  LET o == [bucket |-> c.bucket.text,
                         region |-> IF c.region = Null THEN "" ELSE c.region.text,
                         credentials |-> B!Written(c.credentials)]
               IN  /\ o \in B!Objects
                   /\ \A m : B!ToModel(o, m) = [id |-> B!Id, bucket |-> c.bucket, region |-> c.region,
                                                credentials |-> c.credentials]
    <2> DEFINE r == IF c.region = Null THEN "" ELSE c.region.text
               w == B!Written(c.credentials)
               o == [bucket |-> c.bucket.text, region |-> r, credentials |-> w]
    <2>1. w \in B!StoredCredentials /\ B!AsRead(w) = c.credentials
      BY <1>c, <1>e
    <2>2. r \in {""} \cup {s.text : s \in Regions} /\ c.bucket.text \in {b.text : b \in Buckets}
      BY <1>e
    <2>3. c.region = IF r = "" THEN Null ELSE B!Plain(r)
      BY <1>e DEF S3Values
    <2>4. B!Plain(c.bucket.text) = c.bucket
      BY <1>e, <1>i DEF S3Values
    <2> HIDE DEF r, w
    <2>5. o \in B!Objects
      BY <2>1, <2>2 DEF B!Objects, B!Empty
    <2>6. ASSUME NEW m
          PROVE  B!ToModel(o, m) = [id |-> B!Id, bucket |-> c.bucket, region |-> c.region,
                                    credentials |-> c.credentials]
      BY <1>g, <2>1, <2>3, <2>4
    <2>7. QED
      BY <2>5, <2>6 DEF r, w
  <1>j. ASSUME NEW c \in B!Configs, NEW m, m = Null \/ m \in B!Models, NEW x
        PROVE  LET p == B!Planned(c, m)
                   o == B!Applied(p, x)
                   a == B!Stored(p, o)
               IN  /\ p \in B!Models
                   /\ B!Accepts(p) =>
                        /\ o \in B!Objects /\ a \in B!Models
                        /\ \A n : B!ToModel(o, n) = a
                        /\ B!Planned(c, a) = a
    <2> DEFINE p == B!Planned(c, m)
               o == B!Applied(p, x)
               a == B!Stored(p, o)
               id == IF m = Null THEN Unknown ELSE m.id
               k == [id |-> B!Id, bucket |-> c.bucket, region |-> c.region,
                     credentials |-> c.credentials]
    <2>1. p = [id |-> id, bucket |-> c.bucket, region |-> c.region, credentials |-> c.credentials]
      BY DEF B!Planned
    <2>2. id \in {B!Id, Unknown}
      BY <1>j DEF B!Models
    <2> HIDE DEF p, id
    <2>3. p \in B!Models /\ k \in B!Models
      BY <1>h, <2>1, <2>2
    <2>4. a = k
      BY <2>1 DEF B!Stored
    <2>5. o = [bucket |-> c.bucket.text, region |-> IF c.region = Null THEN "" ELSE c.region.text,
               credentials |-> B!Written(c.credentials)]
      BY <2>1 DEF B!Applied, B!Empty
    <2>6. B!Planned(c, k) = k
      <3>1. k # Null
        BY <2>3 DEF S3Values
      <3>2. QED
        BY <3>1 DEF B!Planned
    <2> HIDE DEF o, a
    <2>7. ASSUME B!Accepts(p)
          PROVE  o \in B!Objects /\ \A n : B!ToModel(o, n) = k
      <3>1. c.bucket.text # ""
        BY <2>1, <2>7 DEF B!Accepts, B!Empty
      <3>2. QED
        BY <1>i, <2>5, <3>1
    <2> HIDE DEF k
    <2>8. QED
      BY <2>3, <2>4, <2>6, <2>7 DEF p, o, a
  <1>1. S3Life!Planning(B!Kind)
    BY <1>j DEF S3Life!Planning, B!IdIn
  <1>2. S3Life!Reading(B!Kind)
    <2>1. ASSUME NEW o \in B!Objects, NEW m
          PROVE  B!ToModel(o, m) \in B!Models /\ \A n : B!ToModel(o, n) = B!ToModel(o, m)
      <3>1. B!Plain(o.bucket) \in {B!Plain(b.text) : b \in Buckets}
        BY <1>f
      <3>2. (IF o.region = "" THEN Null ELSE B!Plain(o.region))
              \in {Null} \cup {B!Plain(r.text) : r \in Regions}
        BY <1>f
      <3>3. B!AsRead(o.credentials) \in B!Credentials
        BY <1>d, <1>f
      <3>4. QED
        BY <1>g, <3>1, <3>2, <3>3 DEF B!Models
    <2>2. QED
      BY <2>1 DEF S3Life!Reading, S3Life!IsRead, B!IdIn, B!IdOf
  <1>3. S3Life!Creating(B!Kind)
    BY <1>j DEF S3Life!Creating, S3Life!IsRead, B!NewObject, B!IdIn, B!IdOf
  <1>4. S3Life!Updating(B!Kind)
    BY <1>j DEF S3Life!Updating, B!IdIn, B!IdOf
  <1>5. S3Life!Editing(B!Kind)
    <2>1. ASSUME NEW o \in B!Objects, NEW n \in B!Foreign(o)
          PROVE  n \in B!Objects
      BY DEF B!Objects, B!Foreign
    <2>2. QED
      BY <2>1 DEF S3Life!Editing, B!IdOf
  <1>6. S3Life!Telling(B!Kind)
    <2>1. ASSUME NEW c \in B!Configs, NEW m \in B!Models, NEW o \in B!Objects,
                 B!ToModel(o, m) = m, B!Planned(c, m) = m
          PROVE  B!Meets(c, o)
      <3>1. /\ m.bucket = c.bucket /\ m.region = c.region /\ m.credentials = c.credentials
        BY <2>1 DEF B!Planned
      <3>2. /\ m.bucket = B!Plain(o.bucket) /\ m.credentials = B!AsRead(o.credentials)
            /\ m.region = IF o.region = "" THEN Null ELSE B!Plain(o.region)
        BY <2>1 DEF B!ToModel, B!Empty
      <3>3. o.bucket = c.bucket.text
        <4>1. c.bucket = [text |-> o.bucket, padded |-> FALSE]
          BY <3>1, <3>2 DEF B!Plain
        <4>2. QED
          BY <4>1
      <3>4. o.region = IF c.region = Null THEN "" ELSE c.region.text
        <4>1. c.region = IF o.region = "" THEN Null ELSE B!Plain(o.region)
          BY <3>1, <3>2
        <4>2. o.region # "" => B!Plain(o.region) # Null /\ B!Plain(o.region).text = o.region
          BY <1>f DEF S3Values, B!Plain
        <4>3. QED
          BY <4>1, <4>2
      <3>5. o.credentials = B!Written(c.credentials)
        BY <1>d, <1>f, <3>1, <3>2
      <3>6. QED
        BY <3>3, <3>4, <3>5 DEF B!Meets, B!Empty
    <2>2. QED
      BY <2>1 DEF S3Life!Telling, S3Life!IsRead
  <1>7. QED
    BY <1>1, <1>2, <1>3, <1>4, <1>5, <1>6 DEF S3Life!Sound

\* The backup configuration, whose region and endpoint have no white space around them, is
\* read as it was applied, and drift of it shows (omni_etcd_backup_s3_config_resource.go).
THEOREM S3Works ==
  ASSUME S3Values
  PROVE  S3Life!Spec =>
           /\ []S3Life!StateIsTrue /\ []S3Life!NoSpuriousDiff
           /\ []S3Life!NoHiddenDrift /\ S3Life!OnlyOwnObjects
  BY S3IsSound, S3Life!SoundResourceWorks, MaxEventsAssumption

--------------------------------------------------------------------------------
(* omni_user: the address and the account. *)

UserLife == INSTANCE ResourceProofs WITH
  Kinds <- {U!Kind},
  ConfigsOf <- LAMBDA k : U!Configs, ModelsOf <- LAMBDA k : U!Models,
  ObjectsOf <- LAMBDA k : U!Objects, Imported <- LAMBDA k, id : U!Blank(id),
  PlanOf <- LAMBDA k, c, m : U!Planned(c, m),
  MustReplace <- LAMBDA k, p, m : U!Replaces(p, m),
  Converts <- LAMBDA k, p : U!Accepts(p), Created <- LAMBDA k, p : U!NewObject(p),
  Updated <- LAMBDA k, p, o : U!Applied(p, o),
  AfterApply <- LAMBDA k, p, o : U!Stored(p, o),
  ReadBack <- LAMBDA k, o, m : U!ToModel(o, m),
  ObjectId <- LAMBDA k, o : U!IdOf(o), StateId <- LAMBDA k, m : U!IdIn(m),
  EditsOf <- LAMBDA k, o : U!Foreign(o), AsConfigured <- LAMBDA k, c, o : U!Meets(c, o),
  ShowsScope <- LAMBDA k, o, m : TRUE, TearsDown <- LAMBDA k : FALSE

\* The conversions of the user code are sound.
LEMMA UserIsSound == ASSUME UserValues PROVE UserLife!Sound(U!Kind)
  <1>a. \A c \in U!Configs : c.email \in Emails /\ U!Lower(c.email) = c.email /\ c.role \in Roles
    BY DEF U!Configs, UserValues
  <1>b. \A m \in U!Models : /\ m.email \in Emails /\ U!Lower(m.email) = m.email
                            /\ m.id \in {Null, Unknown} \cup U!UserIds /\ m # Null
    BY DEF U!Models, UserValues
  <1>c. \A o \in U!Objects : /\ o.email \in Emails /\ U!Lower(o.email) = o.email
                             /\ o.userId \in U!UserIds /\ o.role \in {Null} \cup Roles
    BY DEF U!Objects, UserValues
  <1>d. \A id \in {Null, Unknown} \cup U!UserIds, e \in Emails, r \in {Null} \cup Roles :
          [id |-> id, email |-> e, role |-> r] \in U!Models
    BY DEF U!Models
  <1>e. \A id \in U!UserIds, e \in Emails, r \in {Null} \cup Roles :
          [email |-> e, userId |-> id, role |-> r] \in U!Objects
    BY DEF U!Objects, UserValues
  <1>1. UserLife!Planning(U!Kind)
    <2>1. ASSUME NEW c \in U!Configs, NEW m, m = Null \/ m \in U!Models
          PROVE  U!Planned(c, m) \in U!Models
      BY <1>a, <1>b, <1>d, <2>1 DEF U!Planned
    <2>2. QED
      BY <2>1 DEF UserLife!Planning, U!Replaces, U!IdIn
  <1>2. UserLife!Reading(U!Kind)
    <2>1. ASSUME NEW o \in U!Objects, NEW m, U!Lower(m.email) = o.email, U!ToModel(o, m) # Null
          PROVE  LET r == U!ToModel(o, m)
                 IN  r \in U!Models /\ U!Lower(r.email) = o.email /\ U!ToModel(o, r) = r
      <3>1. U!ToModel(o, m) = [id |-> o.userId, email |-> o.email, role |-> o.role] /\ o.role # Null
        BY <2>1 DEF U!ToModel
      <3>2. QED
        BY <1>c, <1>d, <3>1 DEF U!ToModel
    <2>2. \A id : U!Blank(id).email = id
      BY DEF U!Blank
    <2>3. QED
      BY <1>c, <2>1, <2>2 DEF UserLife!Reading, UserLife!IsRead, U!IdIn, U!IdOf
  <1>3. UserLife!Creating(U!Kind)
    <2>1. ASSUME NEW c \in U!Configs
          PROVE  LET p == U!Planned(c, Null)
                     o == U!NewObject(p)
                     a == U!Stored(p, o)
                 IN  /\ o \in U!Objects /\ a \in U!Models /\ U!Lower(a.email) = o.email
                     /\ U!ToModel(o, a) = a /\ U!Planned(c, a) = a
      <3> DEFINE p == U!Planned(c, Null)
                 o == U!NewObject(p)
                 a == U!Stored(p, o)
      <3>1. p = [id |-> Unknown, email |-> c.email, role |-> c.role]
        BY DEF U!Planned
      <3> HIDE DEF p
      <3>2. o = [email |-> c.email, userId |-> "ours", role |-> c.role]
        BY <1>a, <3>1 DEF U!NewObject
      <3>3. a = [id |-> "ours", email |-> c.email, role |-> c.role]
        BY <1>a, <3>1, <3>2 DEF U!Stored
      <3> HIDE DEF o, a
      <3>4. "ours" \in U!UserIds
        BY DEF U!UserIds
      <3>5. o \in U!Objects /\ a \in U!Models
        BY <1>a, <1>d, <1>e, <3>2, <3>3, <3>4
      <3>6. c.role # Null /\ a # Null
        BY <1>a, <1>b, <3>5 DEF UserValues
      <3>7. QED
        BY <1>a, <3>2, <3>3, <3>5, <3>6 DEF p, o, a, U!ToModel, U!Planned
    <2>2. QED
      BY <2>1 DEF UserLife!Creating, UserLife!IsRead, U!IdIn, U!IdOf
  <1>4. UserLife!Updating(U!Kind)
    <2>1. ASSUME NEW c \in U!Configs, NEW m \in U!Models, NEW o \in U!Objects,
                 ~U!Replaces(U!Planned(c, m), m), U!Lower(m.email) = o.email
          PROVE  LET p == U!Planned(c, m)
                     n == U!Applied(p, o)
                     a == U!Stored(p, n)
                 IN  /\ n \in U!Objects /\ n.email = o.email
                     /\ a \in U!Models /\ U!Lower(a.email) = n.email
                     /\ U!ToModel(o, m) = m => U!ToModel(n, a) = a /\ U!Planned(c, a) = a
      <3> DEFINE p == U!Planned(c, m)
                 n == U!Applied(p, o)
                 a == U!Stored(p, n)
                 id == IF m.id = Unknown THEN o.userId ELSE m.id
      <3>1. p = [id |-> m.id, email |-> c.email, role |-> c.role]
        BY <1>b DEF U!Planned
      <3>2. c.email = o.email
        BY <1>a, <1>b, <2>1, <3>1 DEF U!Replaces
      <3> HIDE DEF p
      <3>3. n = [email |-> o.email, userId |-> o.userId,
                 role |-> IF o.role = Null THEN Null ELSE c.role]
        BY <3>1 DEF U!Applied, U!Objects
      <3>4. a = [id |-> id, email |-> c.email, role |-> c.role]
        BY <1>a, <3>1, <3>3 DEF U!Stored
      <3>5. id \in {Null, Unknown} \cup U!UserIds
        BY <1>b, <1>c
      <3> HIDE DEF n, a
      <3>6. n \in U!Objects /\ a \in U!Models
        BY <1>a, <1>c, <1>d, <1>e, <3>3, <3>4, <3>5
      <3>7. ASSUME U!ToModel(o, m) = m
            PROVE  U!ToModel(n, a) = a /\ U!Planned(c, a) = a
        <4>1. o.role # Null /\ m.id = o.userId
          BY <1>b, <3>7 DEF U!ToModel
        <4>2. c.role # Null /\ a # Null
          BY <1>a, <1>b, <3>6 DEF UserValues
        <4>3. QED
          BY <1>a, <3>3, <3>4, <4>1, <4>2 DEF U!ToModel, U!Planned
      <3>8. QED
        BY <1>a, <3>2, <3>3, <3>4, <3>6, <3>7 DEF p, n, a
    <2>2. QED
      BY <2>1 DEF UserLife!Updating, U!IdIn, U!IdOf
  <1>5. UserLife!Editing(U!Kind)
    <2>1. "theirs" \in U!UserIds
      BY DEF U!UserIds
    <2>2. ASSUME NEW o \in U!Objects, NEW n \in U!Foreign(o)
          PROVE  n \in U!Objects /\ n.email = o.email
      <3>1. o = [email |-> o.email, userId |-> o.userId, role |-> o.role]
        BY DEF U!Objects
      <3>2. \/ \E r \in {Null} \cup Roles : n = [o EXCEPT !.role = r]
            \/ \E r \in Roles : n = [o EXCEPT !.userId = "theirs", !.role = r]
        BY DEF U!Foreign
      <3>3. QED
        BY <2>1, <3>2 DEF U!Objects
    <2>3. QED
      BY <2>2 DEF UserLife!Editing, U!IdOf
  <1>6. UserLife!Telling(U!Kind)
    <2>1. ASSUME NEW c \in U!Configs, NEW m \in U!Models, NEW o \in U!Objects,
                 U!Lower(m.email) = o.email,
                 U!ToModel(o, m) = m, U!Planned(c, m) = m
          PROVE  U!Meets(c, o)
      <3>1. m.role = o.role
        BY <1>b, <2>1 DEF U!ToModel
      <3>2. m.role = c.role /\ m.email = c.email
        BY <2>1 DEF U!Planned
      <3>3. QED
        BY <2>1, <3>1, <3>2 DEF U!Meets
    <2>2. QED
      BY <2>1 DEF UserLife!Telling, UserLife!IsRead, U!IdIn, U!IdOf
  <1>7. QED
    BY <1>1, <1>2, <1>3, <1>4, <1>5, <1>6 DEF UserLife!Sound

\* A user with an address in lower case is read as it was applied, and drift of the role
\* shows, that of an account put in its place, too (omni_user_resource.go).
THEOREM UserWorks ==
  ASSUME UserValues
  PROVE  UserLife!Spec =>
           /\ []UserLife!StateIsTrue /\ []UserLife!NoSpuriousDiff
           /\ []UserLife!NoHiddenDrift /\ UserLife!OnlyOwnObjects
  BY UserIsSound, UserLife!SoundResourceWorks, MaxEventsAssumption

--------------------------------------------------------------------------------
(* omni_installation_media_preset. *)

\* A set of natural numbers has a least one: a statement about all numbers is proved by way of
\* the least that it does not hold of.
LEMMA LeastNumber ==
  ASSUME NEW T \in SUBSET Nat, T # {}
  PROVE  \E x \in T : \A y \in T : x <= y
  <1>1. PICK n \in T : TRUE
    OBVIOUS
  <1> DEFINE S == 0 .. n
             Ranges == {0 .. k : k \in T \cap S}
  <1>2. IsFiniteSet(S)
    BY FS_Interval
  <1>3. IsWellFoundedOn(StrictSubsetOrdering(S), FiniteSubsetsOf(S))
    BY FS_StrictSubsetOrderingWellFounded
  <1>4. Ranges \subseteq SUBSET S /\ Ranges # {}
    <2>1. \A k \in T \cap S : 0 .. k \subseteq S
      OBVIOUS
    <2>2. n \in T \cap S
      OBVIOUS
    <2>3. QED
      BY <2>1, <2>2
  <1>5. Ranges \subseteq FiniteSubsetsOf(S)
    BY <1>2, <1>4, FS_Subset DEF FiniteSubsetsOf
  <1>6. PICK s \in Ranges : \A t \in Ranges : ~(<<t, s>> \in StrictSubsetOrdering(S))
    <2> HIDE DEF Ranges, S
    <2> QED
      BY <1>3, <1>4, <1>5, WFMin
  <1>7. PICK x \in T \cap S : s = 0 .. x
    BY <1>6
  <1>8. \A y \in T : x <= y
    <2> SUFFICES ASSUME NEW y \in T, y < x PROVE FALSE
      BY <1>7
    <2>1. y \in T \cap S /\ 0 .. y \in Ranges
      BY <1>7
    <2>2. 0 .. y \subseteq 0 .. x /\ 0 .. y # 0 .. x /\ 0 .. x \in SUBSET S /\ 0 .. y \in SUBSET S
      <3>1. x \in 0 .. x /\ x \notin 0 .. y
        BY <1>7
      <3>2. QED
        BY <3>1, <1>7
    <2>3. <<0 .. y, s>> \in StrictSubsetOrdering(S)
      BY <1>7, <2>2 DEF StrictSubsetOrdering
    <2>4. QED
      BY <2>1, <2>3, <1>6
  <1>9. QED
    BY <1>7, <1>8

\* The joined words, as FlattenSeq joins them.
Joins(f, s) == f = [i \in 1 .. Len(s) |-> IF i = 1 THEN s[i] ELSE f[i - 1] \o s[i]]

\* A function on 1 .. n is a sequence of n elements.
LEMMA FunctionIsSeq ==
  ASSUME NEW S, NEW n \in Nat, NEW f \in [1 .. n -> S]
  PROVE  f \in Seq(S) /\ Len(f) = n
  <1>1. f \in Seq(S)
    OBVIOUS
  <1>2. DOMAIN f = 1 .. Len(f) /\ Len(f) \in Nat /\ DOMAIN f = 1 .. n
    BY <1>1
  <1>3. QED
    BY <1>1, <1>2

\* Joining texts of one word each yields the words.
LEMMA OneWordEach ==
  ASSUME NEW S, NEW s \in Seq(Seq(S)), \A i \in 1 .. Len(s) : Len(s[i]) = 1
  PROVE  I!FlattenSeq(s) = [i \in 1 .. Len(s) |-> s[i][1]]
  <1> DEFINE Words(n) == [i \in 1 .. n |-> s[i][1]]
             g == [n \in 1 .. Len(s) |-> Words(n)]
  <1>1. Len(s) \in Nat
    OBVIOUS
  <1>2. \A n \in 1 .. Len(s) : s[n] = <<s[n][1]>> /\ s[n][1] \in S
    OBVIOUS
  <1>3. ASSUME NEW n \in 1 .. Len(s), n # 1
        PROVE  Words(n) = Words(n - 1) \o s[n]
    <2>1. /\ n - 1 \in Nat /\ n - 1 + 1 = n /\ n \in Nat
      BY <1>1, <1>3
    <2>2. Words(n - 1) \in Seq(S) /\ Len(Words(n - 1)) = n - 1
      <3>1. \A i \in 1 .. (n - 1) : s[i][1] \in S
        BY <1>1, <1>2, <2>1
      <3>2. Words(n - 1) \in [1 .. (n - 1) -> S]
        BY <3>1
      <3> HIDE DEF Words
      <3>3. QED
        BY <2>1, <3>2, FunctionIsSeq
    <2>3. Words(n) \in Seq(S) /\ Len(Words(n)) = n
      <3>1. \A i \in 1 .. n : s[i][1] \in S
        BY <1>1, <1>2, <2>1
      <3>2. Words(n) \in [1 .. n -> S]
        BY <3>1
      <3> HIDE DEF Words
      <3>3. QED
        BY <2>1, <3>2, FunctionIsSeq
    <2> DEFINE w == Words(n - 1)
    <2>4. \A i \in 1 .. (n - 1) : w[i] = s[i][1]
      BY <2>1
    <2>5. \A i \in 1 .. n : Words(n)[i] = s[i][1]
      BY <2>1
    <2> HIDE DEF w, Words
    <2>6. w \o s[n] = Append(w, s[n][1])
      <3>1. w \in Seq(S) /\ s[n][1] \in S
        BY <1>2, <2>2 DEF w
      <3>2. Append(w, s[n][1]) = w \o <<s[n][1]>>
        BY <3>1, AppendIsConcat
      <3>3. QED
        BY <1>2, <3>2
    <2>7. /\ Append(w, s[n][1]) \in Seq(S) /\ Len(Append(w, s[n][1])) = n
          /\ Append(w, s[n][1])[n] = s[n][1]
          /\ \A i \in 1 .. (n - 1) : Append(w, s[n][1])[i] = w[i]
      BY <1>2, <2>1, <2>2 DEF w
    <2>8. \A i \in 1 .. n : Words(n)[i] = Append(w, s[n][1])[i]
      BY <2>1, <2>4, <2>5, <2>7
    <2>9. Words(n) = Append(w, s[n][1])
      BY <2>3, <2>7, <2>8, SeqEqual
    <2>10. QED
      BY <2>6, <2>9 DEF w
  <1>4. Joins(g, s)
    <2>1. ASSUME NEW n \in 1 .. Len(s)
          PROVE  g[n] = IF n = 1 THEN s[1] ELSE g[n - 1] \o s[n]
      <3>1. CASE n = 1
        <4>1. Words(1) = <<s[1][1]>>
          OBVIOUS
        <4>2. QED
          BY <1>2, <3>1, <4>1
      <3>2. CASE n # 1
        <4>1. n - 1 \in 1 .. Len(s)
          BY <1>1, <3>2
        <4> HIDE DEF Words
        <4>2. g[n] = Words(n) /\ g[n - 1] = Words(n - 1)
          BY <4>1
        <4>3. QED
          BY <1>3, <3>2, <4>2
      <3>3. QED
        BY <3>1, <3>2
    <2> HIDE DEF Words
    <2>2. QED
      BY <2>1 DEF Joins
  <1>5. ASSUME NEW f, Joins(f, s)
        PROVE  \A n \in 1 .. Len(s) : f[n] = Words(n)
    <2> DEFINE Bad == {n \in 1 .. Len(s) : f[n] # Words(n)}
    <2> SUFFICES ASSUME Bad # {} PROVE FALSE
      OBVIOUS
    <2>1. Bad \in SUBSET Nat
      OBVIOUS
    <2>2. PICK n \in Bad : \A k \in Bad : n <= k
      <3> HIDE DEF Bad
      <3> QED
        BY <2>1, LeastNumber
    <2>3. n \in 1 .. Len(s) /\ f[n] # Words(n)
      OBVIOUS
    <2>4. n # 1 => f[n - 1] = Words(n - 1)
      <3>1. n # 1 => n - 1 \in 1 .. Len(s) /\ ~(n <= n - 1)
        BY <1>1, <2>3
      <3> HIDE DEF Words
      <3>2. QED
        BY <2>2, <3>1
    <2> HIDE DEF Bad
    <2>5. f[n] = IF n = 1 THEN s[1] ELSE f[n - 1] \o s[n]
      BY <1>5, <2>3 DEF Joins
    <2>6. n = 1 => Words(1) = s[1]
      <3>1. Words(1) = <<s[1][1]>>
        OBVIOUS
      <3>2. QED
        BY <1>2, <2>3, <3>1
    <2> HIDE DEF Words
    <2>7. QED
      BY <1>3, <2>3, <2>4, <2>5, <2>6
  <1> HIDE DEF g
  <1> DEFINE flatten == CHOOSE f : Joins(f, s)
  <1>6. Joins(flatten, s)
    BY <1>4
  <1>7. CASE Len(s) = 0
    <2>1. s = <<>> /\ Words(0) = <<>>
      BY <1>7
    <2>2. QED
      BY <1>7, <2>1 DEF I!FlattenSeq
  <1>8. CASE Len(s) # 0
    <2>1. I!FlattenSeq(s) = flatten[Len(s)]
      BY <1>8 DEF I!FlattenSeq, Joins
    <2>2. Len(s) \in 1 .. Len(s)
      BY <1>1, <1>8
    <2> HIDE DEF flatten, Words
    <2>3. flatten[Len(s)] = Words(Len(s))
      BY <1>5, <1>6, <2>2
    <2>4. QED
      BY <2>1, <2>3 DEF Words
  <1>9. QED
    BY <1>7, <1>8

\* Arguments of one word each are read as they were written.
LEMMA FieldsOfWords ==
  ASSUME PresetValues, NEW l \in {<<>>} \cup ArgLists, I!ValidArgs(l)
  PROVE  I!Fields(l) = l
  <1>1. l \in Seq(I!Arguments)
    <2>1. ArgLists \subseteq Seq(I!Arguments)
      BY BlocksAssumption, Zenon
    <2>2. <<>> \in Seq(I!Arguments)
      OBVIOUS
    <2>3. QED
      BY <2>1, <2>2, Zenon
  <1>2. ASSUME NEW i \in 1 .. Len(l)
        PROVE  /\ l[i].words \in Seq(STRING) /\ Len(l[i].words) = 1
               /\ l[i] = I!OneWord(l[i].words[1])
    <2>1. /\ l[i] \in [words : Seq(STRING), space : {"none", "ascii", "unicode"}]
          /\ (l[i].space = "none") = (Len(l[i].words) = 1)
      BY <1>1 DEF I!Arguments
    <2>2. l[i].space # "ascii" /\ l[i].space # "unicode"
      BY <1>1, <1>2 DEF I!ValidArgs, PresetValues
    <2>3. l[i].space = "none" /\ Len(l[i].words) = 1 /\ l[i].words \in Seq(STRING)
      BY <2>1, <2>2
    <2>4. l[i].words = <<l[i].words[1]>>
      BY <2>3
    <2>5. l[i] = [words |-> l[i].words, space |-> l[i].space]
      BY <2>1
    <2>6. QED
      BY <2>3, <2>4, <2>5 DEF I!OneWord
  <1> DEFINE s == [j \in DOMAIN l |-> l[j].words]
  <1>3. DOMAIN l = 1 .. Len(l) /\ Len(l) \in Nat /\ l = [i \in 1 .. Len(l) |-> l[i]]
    BY <1>1
  <1>4. s \in Seq(Seq(STRING)) /\ Len(s) = Len(l) /\ \A i \in 1 .. Len(l) : s[i] = l[i].words
    BY <1>2, <1>3
  <1> HIDE DEF s
  <1>5. I!FlattenSeq(s) = [i \in 1 .. Len(l) |-> s[i][1]]
    <2>1. \A i \in 1 .. Len(s) : Len(s[i]) = 1
      BY <1>2, <1>4
    <2>2. I!FlattenSeq(s) = [i \in 1 .. Len(s) |-> s[i][1]]
      BY <1>4, <2>1, OneWordEach
    <2>3. QED
      BY <1>4, <2>2
  <1> DEFINE f == I!FlattenSeq(s)
  <1>6. DOMAIN f = 1 .. Len(l) /\ \A i \in 1 .. Len(l) : f[i] = l[i].words[1]
    BY <1>4, <1>5
  <1>7. I!Fields(l) = [i \in DOMAIN f |-> I!OneWord(f[i])]
    BY DEF I!Fields, s
  <1> HIDE DEF f
  <1>8. I!Fields(l) = [i \in 1 .. Len(l) |-> l[i]]
    BY <1>2, <1>6, <1>7
  <1>9. QED
    BY <1>3, <1>8

PresetLife == INSTANCE ResourceProofs WITH
  Kinds <- {I!Kind},
  ConfigsOf <- LAMBDA k : I!Configs, ModelsOf <- LAMBDA k : I!Models,
  ObjectsOf <- LAMBDA k : I!Objects, Imported <- LAMBDA k, id : I!Blank(id),
  PlanOf <- LAMBDA k, c, m : I!Planned(c, m),
  MustReplace <- LAMBDA k, p, m : I!Replaces(p, m),
  Converts <- LAMBDA k, p : I!Accepts(p), Created <- LAMBDA k, p : I!NewObject(p),
  Updated <- LAMBDA k, p, o : I!Applied(p, o),
  AfterApply <- LAMBDA k, p, o : I!Stored(p, o),
  ReadBack <- LAMBDA k, o, m : I!ToModel(o, m),
  ObjectId <- LAMBDA k, o : I!IdOf(o), StateId <- LAMBDA k, m : I!IdIn(m),
  EditsOf <- LAMBDA k, o : I!Foreign(o), AsConfigured <- LAMBDA k, c, o : I!Meets(c, o),
  ShowsScope <- LAMBDA k, o, m : TRUE, TearsDown <- LAMBDA k : TRUE

\* What ToModel makes of a version and of an sbc block, and Applied of the latter.
VersionRead(v) == IF v = I!Empty THEN Null ELSE [v |-> v, prefix |-> FALSE]
SbcRead(s) == IF s = Null THEN Null ELSE [s EXCEPT !.options = I!Optional(@, I!Empty)]
SbcWritten(s) == IF s = Null THEN Null ELSE [s EXCEPT !.options = I!OrDefault(@, I!Empty)]
ArgsRead(l) == I!Optional(I!Fields(l), <<>>)

\* The conversions of the single attributes.
LEMMA VersionComesBack ==
  ASSUME PresetValues
  PROVE  /\ \A v \in {Null} \cup I!VersionTexts : (v # Null => v.prefix = FALSE) =>
              I!Normalized(v) \in {I!Empty} \cup MediaVersions /\ VersionRead(I!Normalized(v)) = v
         /\ \A v \in {I!Empty} \cup MediaVersions :
              VersionRead(v) \in {Null} \cup I!VersionTexts /\ I!Normalized(VersionRead(v)) = v
  <1>1. ASSUME NEW v \in {Null} \cup I!VersionTexts, v # Null => v.prefix = FALSE
        PROVE  I!Normalized(v) \in {I!Empty} \cup MediaVersions /\ VersionRead(I!Normalized(v)) = v
    <2>1. CASE v = Null
      BY <2>1 DEF I!Normalized, VersionRead
    <2>2. CASE v # Null
      <3>1. v = [v |-> v.v, prefix |-> FALSE] /\ v.v \in MediaVersions
        BY <1>1, <2>2 DEF I!VersionTexts
      <3>2. QED
        BY <2>2, <3>1 DEF I!Normalized, VersionRead, PresetValues
    <2>3. QED
      BY <2>1, <2>2
  <1>2. ASSUME NEW v \in {I!Empty} \cup MediaVersions
        PROVE  VersionRead(v) \in {Null} \cup I!VersionTexts /\ I!Normalized(VersionRead(v)) = v
    <2>1. CASE v = I!Empty
      BY <2>1 DEF I!Normalized, VersionRead
    <2>2. CASE v # I!Empty
      <3>1. VersionRead(v) = [v |-> v, prefix |-> FALSE]
        BY <2>2 DEF VersionRead
      <3>2. VersionRead(v) \in I!VersionTexts
        BY <2>2, <3>1 DEF I!VersionTexts
      <3>3. VersionRead(v) # Null
        BY <3>2 DEF PresetValues
      <3>4. QED
        BY <3>1, <3>2, <3>3 DEF I!Normalized
    <2>3. QED
      BY <2>1, <2>2
  <1>3. QED
    BY <1>1, <1>2

LEMMA TunnelComesBack ==
  ASSUME PresetValues
  PROVE  /\ \A t \in {Null} \cup BOOLEAN : I!Mode(t) \in {"unset", "on", "off"} /\ I!Tunnel(I!Mode(t)) = t
         /\ \A y \in {"unset", "on", "off"} : I!Tunnel(y) \in {Null} \cup BOOLEAN /\ I!Mode(I!Tunnel(y)) = y
  <1>1. Null # TRUE /\ Null # FALSE
    BY DEF PresetValues
  <1>2. I!Mode(Null) = "unset" /\ I!Mode(TRUE) = "on" /\ I!Mode(FALSE) = "off"
    BY <1>1 DEF I!Mode
  <1>3. I!Tunnel("unset") = Null /\ I!Tunnel("on") = TRUE /\ I!Tunnel("off") = FALSE
    BY DEF I!Tunnel
  <1>4. QED
    BY <1>2, <1>3

LEMMA SbcComesBack ==
  ASSUME PresetValues
  PROVE  /\ \A s \in {Null} \cup I!SbcBlocks :
              SbcWritten(s) \in {Null} \cup I!StoredSbcs /\ SbcRead(SbcWritten(s)) = s
         /\ \A s \in {Null} \cup I!StoredSbcs :
              SbcRead(s) \in {Null} \cup I!SbcBlocks /\ SbcWritten(SbcRead(s)) = s
  <1>1. Null \notin I!SbcBlocks /\ Null \notin I!StoredSbcs /\ I!Empty # Null
    BY DEF PresetValues
  <1>2. \A x \in {Null} \cup Options : /\ I!OrDefault(x, I!Empty) \in {I!Empty} \cup Options
                                       /\ I!Optional(I!OrDefault(x, I!Empty), I!Empty) = x
    BY DEF I!OrDefault, I!Optional, PresetValues
  <1>3. \A x \in {I!Empty} \cup Options : /\ I!Optional(x, I!Empty) \in {Null} \cup Options
                                          /\ I!OrDefault(I!Optional(x, I!Empty), I!Empty) = x
    BY DEF I!OrDefault, I!Optional, PresetValues
  <1>4. ASSUME NEW s \in I!SbcBlocks
        PROVE  SbcWritten(s) \in I!StoredSbcs /\ SbcRead(SbcWritten(s)) = s
    <2> DEFINE w == [overlay |-> s.overlay, options |-> I!OrDefault(s.options, I!Empty)]
    <2>1. s = [overlay |-> s.overlay, options |-> s.options] /\ s.overlay \in Overlays
          /\ s.options \in {Null} \cup Options
      BY DEF I!SbcBlocks
    <2>2. w \in I!StoredSbcs
      BY <1>2, <2>1 DEF I!StoredSbcs
    <2>3. SbcWritten(s) = w
      BY <1>1, <2>1 DEF SbcWritten
    <2>4. SbcRead(w) = [overlay |-> s.overlay, options |-> I!Optional(w.options, I!Empty)]
      BY <1>1, <2>2 DEF SbcRead
    <2>5. I!Optional(w.options, I!Empty) = s.options
      BY <1>2, <2>1
    <2> HIDE DEF w
    <2>6. QED
      BY <2>1, <2>2, <2>3, <2>4, <2>5
  <1>5. ASSUME NEW s \in I!StoredSbcs
        PROVE  SbcRead(s) \in I!SbcBlocks /\ SbcWritten(SbcRead(s)) = s
    <2> DEFINE r == [overlay |-> s.overlay, options |-> I!Optional(s.options, I!Empty)]
    <2>1. s = [overlay |-> s.overlay, options |-> s.options] /\ s.overlay \in Overlays
          /\ s.options \in {I!Empty} \cup Options
      BY DEF I!StoredSbcs
    <2>2. r \in I!SbcBlocks
      BY <1>3, <2>1 DEF I!SbcBlocks
    <2>3. SbcRead(s) = r
      BY <1>1, <2>1 DEF SbcRead
    <2>4. SbcWritten(r) = [overlay |-> s.overlay, options |-> I!OrDefault(r.options, I!Empty)]
      BY <1>1, <2>2 DEF SbcWritten
    <2>5. I!OrDefault(r.options, I!Empty) = s.options
      BY <1>3, <2>1
    <2> HIDE DEF r
    <2>6. QED
      BY <2>1, <2>2, <2>3, <2>4, <2>5
  <1>6. SbcWritten(Null) = Null /\ SbcRead(Null) = Null
    BY DEF SbcWritten, SbcRead
  <1>7. QED
    BY <1>4, <1>5, <1>6

LEMMA ArgsComeBack ==
  ASSUME PresetValues
  PROVE  /\ \A l \in {Null} \cup ArgLists : l # <<>> /\ (l # Null => I!ValidArgs(l)) =>
              LET w == I!OrDefault(l, <<>>)
              IN  w \in {<<>>} \cup {a \in ArgLists : I!ValidArgs(a)} /\ ArgsRead(w) = l
         /\ \A l \in {<<>>} \cup {a \in ArgLists : I!ValidArgs(a)} :
              ArgsRead(l) \in {Null} \cup ArgLists /\ I!OrDefault(ArgsRead(l), <<>>) = l
  <1>1. I!ValidArgs(<<>>)
    BY DEF I!ValidArgs
  <1>2. \A l \in {<<>>} \cup {a \in ArgLists : I!ValidArgs(a)} : I!Fields(l) = l
    BY <1>1, FieldsOfWords
  <1>3. Null # <<>> /\ Null \notin ArgLists
    BY DEF PresetValues
  <1>4. QED
    BY <1>2, <1>3 DEF ArgsRead, I!OrDefault, I!Optional

\* The conversions of the media preset code are sound.
LEMMA PresetIsSound == ASSUME PresetValues PROVE PresetLife!Sound(I!Kind)
  <1> DEFINE Known == {"primary", "secondary"}
             Architecture(c) == I!OrDefault(c.architecture, I!DefaultArchitecture)
             Model(c, f) == [name |-> I!Name, imageFactory |-> f, architecture |-> Architecture(c),
                             version |-> c.version, token |-> c.token, tunnel |-> c.tunnel,
                             cloud |-> c.cloud, sbc |-> c.sbc, extensions |-> c.extensions,
                             args |-> c.args]
  <1>a. ASSUME NEW c \in I!Configs
        PROVE  /\ Architecture(c) \in {I!DefaultArchitecture} \cup Architectures
               /\ c.version \in {Null} \cup I!VersionTexts /\ (c.version # Null => c.version.prefix = FALSE)
               /\ c.token \in {Null} \cup JoinTokens /\ c.tunnel \in {Null} \cup BOOLEAN
               /\ c.cloud \in {Null} \cup Platforms /\ c.sbc \in {Null} \cup I!SbcBlocks
               /\ c.extensions \in {Null} \cup ExtensionSets /\ c.extensions # {}
               /\ c.args \in {Null} \cup ArgLists /\ c.args # <<>>
    <2>1. c \in Presets
      BY DEF I!Configs
    <2>2. c \in I!Attributes
      <3>1. Presets \subseteq I!Attributes
        BY BlocksAssumption, Zenon
      <3>2. QED
        BY <2>1, <3>1
    <2>3. (c.version # Null => c.version.prefix = FALSE) /\ c.extensions # {} /\ c.args # <<>>
      BY <2>1 DEF PresetValues
    <2>4. QED
      BY <2>2, <2>3 DEF I!Attributes, I!OrDefault
  <1>b. ASSUME NEW o \in I!Objects
        PROVE  /\ o.imageFactory \in Known /\ o.architecture \in {I!DefaultArchitecture} \cup Architectures
               /\ o.version \in {I!Empty} \cup MediaVersions /\ o.token \in {I!Empty} \cup JoinTokens
               /\ o.tunnel \in {"unset", "on", "off"}
               /\ o.cloud \in {Null} \cup Platforms /\ o.sbc \in {Null} \cup I!StoredSbcs
               /\ o.extensions \in {{}} \cup ExtensionSets
               /\ o.args \in {<<>>} \cup {l \in ArgLists : I!ValidArgs(l)}
    BY DEF I!Objects
  <1>c. \A t \in {Null} \cup JoinTokens : /\ I!OrDefault(t, I!Empty) \in {I!Empty} \cup JoinTokens
                                          /\ I!Optional(I!OrDefault(t, I!Empty), I!Empty) = t
    BY DEF I!OrDefault, I!Optional, PresetValues
  <1>d. \A t \in {I!Empty} \cup JoinTokens : /\ I!Optional(t, I!Empty) \in {Null} \cup JoinTokens
                                             /\ I!OrDefault(I!Optional(t, I!Empty), I!Empty) = t
    BY DEF I!OrDefault, I!Optional, PresetValues
  <1>e. \A e \in {Null} \cup ExtensionSets :
          e # {} => /\ I!OrDefault(e, {}) \in {{}} \cup ExtensionSets
                    /\ I!Optional(I!OrDefault(e, {}), {}) = e
    BY DEF I!OrDefault, I!Optional, PresetValues
  <1>f. \A e \in {{}} \cup ExtensionSets : /\ I!Optional(e, {}) \in {Null} \cup ExtensionSets
                                          /\ I!OrDefault(I!Optional(e, {}), {}) = e
    BY DEF I!OrDefault, I!Optional, PresetValues
  <1>g. \A o, m : I!ToModel(o, m) =
          [name |-> I!Name, imageFactory |-> o.imageFactory, architecture |-> o.architecture,
           version |-> VersionRead(o.version), token |-> I!Optional(o.token, I!Empty),
           tunnel |-> I!Tunnel(o.tunnel), cloud |-> o.cloud, sbc |-> SbcRead(o.sbc),
           extensions |-> I!Optional(o.extensions, {}), args |-> ArgsRead(o.args)]
    BY DEF I!ToModel, VersionRead, SbcRead, ArgsRead
  <1>h. ASSUME NEW c \in I!Configs, NEW f \in {Null, Unknown} \cup Known
        PROVE  Model(c, f) \in I!Models
    <2> DEFINE A == Architecture(c)
    <2>1. A \in {I!DefaultArchitecture} \cup Architectures
      BY <1>a
    <2> HIDE DEF A
    <2>2. [name |-> I!Name, imageFactory |-> f, architecture |-> A,
           version |-> c.version, token |-> c.token, tunnel |-> c.tunnel,
           cloud |-> c.cloud, sbc |-> c.sbc, extensions |-> c.extensions, args |-> c.args] \in I!Models
      BY <1>a, <2>1 DEF I!Models
    <2>3. QED
      BY <2>2 DEF A
  \* A plan is what is configured, with some factory.
  <1>i. ASSUME NEW c \in I!Configs, NEW m, m = Null \/ m \in I!Models
        PROVE  /\ \E f \in {Null, Unknown} \cup Known : I!Planned(c, m) = Model(c, f)
               /\ \A f \in Known : I!Planned(c, Model(c, f)) = Model(c, f)
    <2> HIDE DEF Architecture
    <2>1. ASSUME NEW n, n = Null \/ n \in I!Models
          PROVE  LET f == IF n = Null THEN Unknown ELSE n.imageFactory
                 IN  I!Planned(c, n) = IF Model(c, f) = n THEN Model(c, f) ELSE Model(c, Unknown)
      BY DEF I!Planned, Architecture
    <2>2. ASSUME NEW n \in I!Models PROVE n.imageFactory \in {Null, Unknown} \cup Known
      BY DEF I!Models
    <2> HIDE DEF Model
    <2>3. \E f \in {Null, Unknown} \cup Known : I!Planned(c, m) = Model(c, f)
      BY <1>i, <2>1, <2>2
    <2>4. ASSUME NEW f \in Known PROVE I!Planned(c, Model(c, f)) = Model(c, f)
      <3>1. Model(c, f) \in I!Models /\ Model(c, f) # Null
        BY <1>h DEF PresetValues
      <3>2. Model(c, f).imageFactory = f
        BY DEF Model
      <3>3. QED
        BY <2>1, <3>1, <3>2
    <2>5. QED
      BY <2>3, <2>4
  \* The object of a preset, and what is read from it.
  <1>j. ASSUME NEW c \in I!Configs, c.args # Null => I!ValidArgs(c.args), NEW F \in Known
        PROVE  LET o == [imageFactory |-> F, architecture |-> Architecture(c),
                         version |-> I!Normalized(c.version), token |-> I!OrDefault(c.token, I!Empty),
                         tunnel |-> I!Mode(c.tunnel), cloud |-> c.cloud, sbc |-> SbcWritten(c.sbc),
                         extensions |-> I!OrDefault(c.extensions, {}),
                         args |-> I!OrDefault(c.args, <<>>)]
               IN  o \in I!Objects /\ \A m : I!ToModel(o, m) = Model(c, F)
    <2> DEFINE A == Architecture(c)
               V == I!Normalized(c.version)
               T == I!OrDefault(c.token, I!Empty)
               G == I!Mode(c.tunnel)
               S == SbcWritten(c.sbc)
               E == I!OrDefault(c.extensions, {})
               R == I!OrDefault(c.args, <<>>)
               o == [imageFactory |-> F, architecture |-> A, version |-> V, token |-> T, tunnel |-> G,
                     cloud |-> c.cloud, sbc |-> S, extensions |-> E, args |-> R]
    <2>1. A \in {I!DefaultArchitecture} \cup Architectures /\ c.cloud \in {Null} \cup Platforms
      BY <1>a
    <2>2. V \in {I!Empty} \cup MediaVersions /\ VersionRead(V) = c.version
      BY <1>a, VersionComesBack
    <2>3. T \in {I!Empty} \cup JoinTokens /\ I!Optional(T, I!Empty) = c.token
      BY <1>a, <1>c
    <2>4. G \in {"unset", "on", "off"} /\ I!Tunnel(G) = c.tunnel
      BY <1>a, TunnelComesBack
    <2>5. S \in {Null} \cup I!StoredSbcs /\ SbcRead(S) = c.sbc
      BY <1>a, SbcComesBack
    <2>6. E \in {{}} \cup ExtensionSets /\ I!Optional(E, {}) = c.extensions
      BY <1>a, <1>e
    <2>7. R \in {<<>>} \cup {l \in ArgLists : I!ValidArgs(l)} /\ ArgsRead(R) = c.args
      BY <1>a, <1>j, ArgsComeBack
    <2> HIDE DEF A, V, T, G, S, E, R
    <2>8. o \in I!Objects
      BY <2>1, <2>2, <2>3, <2>4, <2>5, <2>6, <2>7 DEF I!Objects
    <2>9. ASSUME NEW m
          PROVE  I!ToModel(o, m) =
                   [name |-> I!Name, imageFactory |-> F, architecture |-> A, version |-> c.version,
                    token |-> c.token, tunnel |-> c.tunnel, cloud |-> c.cloud, sbc |-> c.sbc,
                    extensions |-> c.extensions, args |-> c.args]
      BY <1>g, <2>2, <2>3, <2>4, <2>5, <2>6, <2>7
    <2>10. QED
      BY <2>8, <2>9 DEF A, V, T, G, S, E, R
  <1>k. ASSUME NEW c \in I!Configs, NEW m, m = Null \/ m \in I!Models, NEW x
        PROVE  LET p == I!Planned(c, m)
                   o == I!Applied(p, x)
                   a == I!Stored(p, o)
               IN  /\ p \in I!Models
                   /\ I!Accepts(p) => /\ o \in I!Objects /\ a \in I!Models
                                      /\ \A n : I!ToModel(o, n) = a
                                      /\ I!Planned(c, a) = a
    <2> DEFINE p == I!Planned(c, m)
               o == I!Applied(p, x)
               a == I!Stored(p, o)
               F == I!Factory(I!Normalized(c.version))
    <2> HIDE DEF Architecture, Model
    <2>1. PICK f \in {Null, Unknown} \cup Known : p = Model(c, f)
      BY <1>i, <1>k
    <2> HIDE DEF p
    <2>2. p \in I!Models
      BY <1>h, <2>1
    <2>3. F \in Known
      BY DEF I!Factory
    <2>4. o = [imageFactory |-> F, architecture |-> Architecture(c),
               version |-> I!Normalized(c.version), token |-> I!OrDefault(c.token, I!Empty),
               tunnel |-> I!Mode(c.tunnel), cloud |-> c.cloud, sbc |-> SbcWritten(c.sbc),
               extensions |-> I!OrDefault(c.extensions, {}), args |-> I!OrDefault(c.args, <<>>)]
      BY <2>1 DEF I!Applied, SbcWritten, Model
    <2> HIDE DEF F
    <2>5. a = Model(c, F)
      <3>1. o.imageFactory = F
        BY <2>4
      <3> HIDE DEF o
      <3>2. QED
        BY <2>1, <3>1 DEF I!Stored, Model
    <2> HIDE DEF o, a
    <2>6. ASSUME I!Accepts(p)
          PROVE  o \in I!Objects /\ \A n : I!ToModel(o, n) = Model(c, F)
      <3>1. p.args = c.args
        BY <2>1 DEF Model
      <3>2. c.args # Null => I!ValidArgs(c.args)
        BY <2>6, <3>1 DEF I!Accepts
      <3>3. QED
        BY <1>j, <2>3, <2>4, <3>2
    <2>7. Model(c, F) \in I!Models /\ I!Planned(c, Model(c, F)) = Model(c, F)
      BY <1>h, <1>i, <2>3
    <2>8. QED
      BY <2>2, <2>5, <2>6, <2>7 DEF p, o, a
  <1>n. I!Name = "preset" /\ \A m \in I!Models : m.name = I!Name
    BY DEF I!Name, I!Models
  <1>1. PresetLife!Planning(I!Kind)
    <2>1. ASSUME NEW c \in I!Configs, NEW m, m = Null \/ m \in I!Models
          PROVE  I!Planned(c, m) \in I!Models
      BY <1>k, <2>1
    <2>2. QED
      BY <1>n, <2>1 DEF PresetLife!Planning, I!IdIn
  <1>2. PresetLife!Reading(I!Kind)
    <2>1. ASSUME NEW o \in I!Objects, NEW m
          PROVE  I!ToModel(o, m) \in I!Models /\ \A n : I!ToModel(o, n) = I!ToModel(o, m)
      <3> DEFINE V == VersionRead(o.version)
                 T == I!Optional(o.token, I!Empty)
                 G == I!Tunnel(o.tunnel)
                 S == SbcRead(o.sbc)
                 E == I!Optional(o.extensions, {})
                 R == ArgsRead(o.args)
      <3>1. V \in {Null} \cup I!VersionTexts
        BY <1>b, VersionComesBack
      <3>2. T \in {Null} \cup JoinTokens /\ E \in {Null} \cup ExtensionSets
        BY <1>b, <1>d, <1>f
      <3>3. G \in {Null} \cup BOOLEAN
        BY <1>b, TunnelComesBack
      <3>4. S \in {Null} \cup I!SbcBlocks
        BY <1>b, SbcComesBack
      <3>5. R \in {Null} \cup ArgLists
        BY <1>b, ArgsComeBack
      <3> HIDE DEF V, T, G, S, E, R
      <3>6. [name |-> I!Name, imageFactory |-> o.imageFactory, architecture |-> o.architecture,
             version |-> V, token |-> T, tunnel |-> G, cloud |-> o.cloud, sbc |-> S,
             extensions |-> E, args |-> R] \in I!Models
        BY <1>b, <3>1, <3>2, <3>3, <3>4, <3>5 DEF I!Models
      <3>7. QED
        BY <1>g, <3>6 DEF V, T, G, S, E, R
    <2>2. QED
      BY <1>n, <2>1 DEF PresetLife!Reading, PresetLife!IsRead, I!IdIn, I!IdOf
  <1>3. PresetLife!Creating(I!Kind)
    BY <1>k, <1>n DEF PresetLife!Creating, PresetLife!IsRead, I!NewObject, I!IdIn, I!IdOf
  <1>4. PresetLife!Updating(I!Kind)
    BY <1>k, <1>n DEF PresetLife!Updating, I!IdIn, I!IdOf
  <1>5. PresetLife!Editing(I!Kind)
    <2>1. ASSUME NEW o \in I!Objects, NEW n \in I!Foreign(o)
          PROVE  n \in I!Objects
      <3>1. ASSUME NEW p \in {Null} \cup Platforms PROVE [o EXCEPT !.cloud = p, !.sbc = Null] \in I!Objects
        BY DEF I!Objects
      <3>2. ASSUME NEW s \in I!StoredSbcs PROVE [o EXCEPT !.sbc = s, !.cloud = Null] \in I!Objects
        BY DEF I!Objects
      <3>3. ASSUME NEW v \in {I!Empty} \cup MediaVersions PROVE [o EXCEPT !.version = v] \in I!Objects
        BY DEF I!Objects
      <3>4. ASSUME NEW t \in {"unset", "on", "off"} PROVE [o EXCEPT !.tunnel = t] \in I!Objects
        BY DEF I!Objects
      <3>5. ASSUME NEW a \in Architectures PROVE [o EXCEPT !.architecture = a] \in I!Objects
        BY DEF I!Objects
      <3>6. /\ [o EXCEPT !.imageFactory = "secondary"] \in I!Objects
            /\ [o EXCEPT !.args = <<>>] \in I!Objects /\ [o EXCEPT !.extensions = {}] \in I!Objects
        BY DEF I!Objects
      <3>7. QED
        BY <3>1, <3>2, <3>3, <3>4, <3>5, <3>6, ZenonT(40) DEF I!Foreign
    <2>2. QED
      BY <2>1 DEF PresetLife!Editing, I!IdOf
  <1>6. PresetLife!Telling(I!Kind)
    <2>1. ASSUME NEW c \in I!Configs, NEW m \in I!Models, NEW o \in I!Objects,
                 I!ToModel(o, m) = m, I!Planned(c, m) = m
          PROVE  I!Meets(c, o)
      <3> HIDE DEF Architecture
      <3>1. PICK f \in {Null, Unknown} \cup Known : m = Model(c, f)
        <4> HIDE DEF Model, Known
        <4> QED
          BY <1>i, <2>1
      <3>2. /\ o.architecture = Architecture(c) /\ o.cloud = c.cloud
            /\ VersionRead(o.version) = c.version /\ I!Optional(o.token, I!Empty) = c.token
            /\ I!Tunnel(o.tunnel) = c.tunnel /\ SbcRead(o.sbc) = c.sbc
            /\ I!Optional(o.extensions, {}) = c.extensions /\ ArgsRead(o.args) = c.args
        BY <1>g, <2>1, <3>1
      <3>3. o.version = I!Normalized(c.version)
        BY <1>b, <3>2, VersionComesBack
      <3>4. o.token = I!OrDefault(c.token, I!Empty) /\ o.extensions = I!OrDefault(c.extensions, {})
        BY <1>b, <1>d, <1>f, <3>2
      <3>5. o.tunnel = I!Mode(c.tunnel)
        BY <1>b, <3>2, TunnelComesBack
      <3>6. o.args = I!OrDefault(c.args, <<>>)
        BY <1>b, <3>2, ArgsComeBack
      <3>7. /\ (o.sbc = Null) = (c.sbc = Null)
            /\ c.sbc # Null => /\ o.sbc.overlay = c.sbc.overlay
                               /\ o.sbc.options = I!OrDefault(c.sbc.options, I!Empty)
        <4>1. SbcWritten(c.sbc) = o.sbc
          BY <1>b, <3>2, SbcComesBack
        <4>2. c.sbc = Null => SbcWritten(c.sbc) = Null
          BY DEF SbcWritten
        <4>3. ASSUME c.sbc # Null
              PROVE  /\ o.sbc # Null /\ o.sbc.overlay = c.sbc.overlay
                     /\ o.sbc.options = I!OrDefault(c.sbc.options, I!Empty)
          <5>1. c.sbc \in I!SbcBlocks
            BY <1>a, <4>3
          <5>2. SbcWritten(c.sbc) \in I!StoredSbcs
            BY <1>b, <4>1, <4>3, <3>2 DEF SbcRead
          <5>3. SbcWritten(c.sbc) = [c.sbc EXCEPT !.options = I!OrDefault(@, I!Empty)]
            BY <4>3 DEF SbcWritten
          <5>4. QED
            BY <4>1, <5>1, <5>2, <5>3 DEF I!SbcBlocks, PresetValues
        <4>4. QED
          BY <4>1, <4>2, <4>3
      <3>8. QED
        BY <3>2, <3>3, <3>4, <3>5, <3>6, <3>7 DEF I!Meets, Architecture
    <2>2. QED
      BY <2>1 DEF PresetLife!Telling, PresetLife!IsRead
  <1>7. QED
    BY <1>1, <1>2, <1>3, <1>4, <1>5, <1>6 DEF PresetLife!Sound

\* A preset, whose version is written without a "v" and whose lists are not empty, is read as it
\* was applied, and drift of it shows (omni_installation_media_preset_resource.go).
THEOREM PresetWorks ==
  ASSUME PresetValues
  PROVE  PresetLife!Spec =>
           /\ []PresetLife!StateIsTrue /\ []PresetLife!NoSpuriousDiff
           /\ []PresetLife!NoHiddenDrift /\ PresetLife!OnlyOwnObjects
  BY PresetIsSound, PresetLife!SoundResourceWorks, MaxEventsAssumption

================================================================================

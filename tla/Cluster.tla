-------------------------------- MODULE Cluster --------------------------------
(***************************************************************************)
(* The omni_cluster resource (omni_cluster_resource.go): how a plan is     *)
(* written into a Cluster object and read back.  One version stands for    *)
(* kubernetes_version and talos_version, which are treated alike.          *)
(***************************************************************************)
EXTENDS Durations

CONSTANTS Versions,    \* versions of kubernetes and talos
          Flags,       \* disk_encryption, enable_workload_proxy, ...
          Intervals,   \* texts of backup_interval that may be configured
          Prefixes,    \* whether a version may be written with a leading "v"
          Refused      \* versions and features that Omni's ClusterValidator does not let through

Kind == "cluster"
Name == "cluster"   \* of the one cluster there is here

Configs == [version : [v : Versions, prefix : Prefixes],
            features : {Null} \cup SUBSET Flags,
            interval : {Null} \cup Intervals]

Models == [id : {Name}, version : {Null} \cup [v : Versions, prefix : BOOLEAN],
           features : {Null} \cup SUBSET Flags,
           interval : {Null} \cup Intervals \cup {Text(t.dur) : t \in Intervals}]

Backups == {Null} \cup [dur : {t.dur : t \in Intervals}, enabled : BOOLEAN]

Objects == [version : Versions, features : SUBSET Flags, backup : Backups]

IdOf(o) == Name
IdIn(m) == m.id
Blank(id) == [id |-> id, version |-> Null, features |-> Null, interval |-> Null]

\* Every attribute but the name is the user's; flags left out of the block default to false.
Planned(c, m) ==
  [id |-> Name, version |-> c.version, features |-> c.features, interval |-> c.interval]

Replaces(p, m) == FALSE

Enabled(p) == IF p.features = Null THEN {} ELSE p.features

\* The errors of applyClusterModel: what the validator refuses (a text that is no version, disk
\* encryption with a version too old for it), an interval that does not parse.
Accepts(p) == /\ <<p.version.v, Enabled(p)>> \notin Refused
              /\ p.interval # Null => ParsesAsDuration(p.interval)

Backup(interval) ==
  IF interval = Null \/ interval.dur <= 0 THEN Null ELSE [dur |-> interval.dur, enabled |-> TRUE]

\* The backup left as it was when the interval is dropped from the configuration.
AppliedKeepsBackup(p, o) ==
  [version |-> p.version.v,
   features |-> Enabled(p),
   backup |-> IF p.interval = Null /\ o # Null THEN o.backup ELSE Backup(p.interval)]

\* applyClusterModel sets every field it knows; no features block means no feature.
Applied(p, o) == [version |-> p.version.v,
                  features |-> Enabled(p),
                  backup |-> Backup(p.interval)]

NewObject(p) == Applied(p, Null)

\* clusterToModel: a features block without features stays null unless there was one.
ToModel(o, m) ==
  [id |-> Name,
   version |-> [v |-> o.version, prefix |-> FALSE],
   features |-> IF o.features # {} \/ m.features # Null THEN o.features ELSE Null,
   interval |-> ReconcileDuration(m.interval, IF o.backup # Null /\ o.backup.enabled
                                               THEN o.backup.dur ELSE 0)]

Stored(p, o) == p

\* What a configuration means: the schema's descriptions.
Meets(c, o) ==
  /\ o.version = c.version.v
  /\ o.features = Enabled(c)
  /\ IF c.interval = Null \/ c.interval.dur <= 0
       THEN o.backup = Null \/ ~o.backup.enabled \/ o.backup.dur = 0
       ELSE o.backup # Null /\ o.backup.enabled /\ o.backup.dur = c.interval.dur

\* Others upgrade, switch a feature, or change the backups.
Foreign(o) == {[o EXCEPT !.version = v] : v \in Versions}
                \cup {[o EXCEPT !.features = f] : f \in SUBSET Flags}
                \cup {[o EXCEPT !.backup = b] : b \in Backups}

================================================================================

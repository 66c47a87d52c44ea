------------------------- MODULE KubernetesHealthCheck -------------------------
(***************************************************************************)
(* The omni_kubernetes_healthcheck resource (omni_kubernetes_healthcheck_  *)
(* resource.go): a job that gates upgrades.  Its interval, when it is left *)
(* out, is Omni's, and is not read into the state.                         *)
(***************************************************************************)
EXTENDS Durations

CONSTANTS Clusters, Data, Intervals

Kind == "kubernetes_healthcheck"
Name == "check"   \* of the one check there is here

Configs == [cluster : Clusters, job : Data, interval : {Null} \cup Intervals]

Models == [name : {Name}, cluster : {Null} \cup Clusters, job : {Null} \cup Data,
           interval : {Null} \cup Intervals \cup {Text(t.dur) : t \in Intervals}]

Objects == [cluster : {Null} \cup Clusters, job : Data,
            interval : {Null} \cup {t.dur : t \in Intervals}]

IdOf(o) == Name
IdIn(m) == m.name
Blank(id) == [name |-> id, cluster |-> Null, job |-> Null, interval |-> Null]

Planned(c, m) == [name |-> Name, cluster |-> c.cluster, job |-> c.job, interval |-> c.interval]

Replaces(p, m) == p.cluster # m.cluster

\* The error of applyHealthCheckModel: an interval that does not parse.
Accepts(p) == p.interval # Null => ParsesAsDuration(p.interval)

\* applyHealthCheckModel: without a positive interval Omni takes its own.
Interval(text) == IF text = Null \/ text.dur <= 0 THEN Null ELSE text.dur

Applied(p, o) == [cluster |-> o.cluster, job |-> p.job, interval |-> Interval(p.interval)]

\* The cluster's label is set at the creation only.
NewObject(p) == Applied(p, [cluster |-> p.cluster, job |-> p.job, interval |-> Null])

Stored(p, o) == p

\* Read: the interval is looked at only when the state has one; a cluster label that is missing
\* leaves the cluster as it is in the state.
ToModel(o, m) ==
  [name |-> Name, job |-> o.job, cluster |-> IF o.cluster # Null THEN o.cluster ELSE m.cluster,
   interval |-> IF m.interval = Null THEN Null
                ELSE ReconcileDuration(m.interval, IF o.interval = Null THEN 0
                                                             ELSE o.interval)]

\* What a configuration means: an interval that is left out may be anything.
Meets(c, o) == /\ o.cluster = c.cluster /\ o.job = c.job
               /\ c.interval # Null => o.interval = Interval(c.interval)

\* Whether the label tells the cluster that a state has.
ScopeTold(o, m) == m.cluster # Null => o.cluster # Null

\* Others edit job and interval, and change and remove the label.
Foreign(o) == {[o EXCEPT !.job = j] : j \in Data}
                \cup {[o EXCEPT !.interval = Interval(t)] : t \in {Null} \cup Intervals}
                \cup {[o EXCEPT !.cluster = c] : c \in {Null} \cup Clusters}

================================================================================

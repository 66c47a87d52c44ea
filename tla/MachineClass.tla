----------------------------- MODULE MachineClass -----------------------------
(***************************************************************************)
(* The omni_machine_class resource (omni_machine_class_resource.go): a     *)
(* class matches machines by labels or has a provider make them.  Omni     *)
(* stores no difference between a list that is left out and an empty one,  *)
(* terraform does.  kernel_args stands for provider_data and meta_values,  *)
(* too, which are treated alike.                                           *)
(***************************************************************************)
EXTENDS Sequences

CONSTANTS Null,
          Lists,       \* lists that may be configured; an element may be Null
          Providers

Kind == "machine_class"
Name == "class"   \* of the one class there is here

HasNull(l) == \E i \in DOMAIN l : l[i] = Null

\* SizeAtLeast(1): a list is left out rather than empty.
OptionalLists == {Null} \cup {l \in Lists : l # <<>>}

Provisions == [provider : Providers, args : OptionalLists, tunnel : {Null} \cup BOOLEAN]

\* resourcevalidator.Conflicting and AtLeastOneOf: exactly one of the two.
Configs == [labels : OptionalLists \ {Null}, provision : {Null}]
             \cup [labels : {Null}, provision : Provisions]

Models == [id : {Name}, labels : OptionalLists, provision : {Null} \cup Provisions]

StoredLists == {<<>>} \cup {l \in Lists : ~HasNull(l)}
StoredProvisions == [provider : Providers, args : StoredLists, tunnel : {"unset", "on", "off"}]

Objects == [labels : StoredLists, provision : {Null} \cup StoredProvisions]

IdOf(o) == Name
IdIn(m) == m.id
Blank(id) == [id |-> id, labels |-> Null, provision |-> Null]

Planned(c, m) == [id |-> Name, labels |-> c.labels, provision |-> c.provision]

Replaces(p, m) == FALSE

Readable(l) == l # Null => ~HasNull(l)

\* The errors of applySpec: ElementsAs refuses a list with a null element.
Accepts(p) == Readable(p.labels) /\ (p.provision # Null => Readable(p.provision.args))

Elements(l) == IF l = Null THEN <<>> ELSE l

\* grpcTunnelMode
Mode(tunnel) == IF tunnel = Null THEN "unset" ELSE IF tunnel THEN "on" ELSE "off"

ToProvision(b) == IF b = Null THEN Null
                  ELSE [provider |-> b.provider, args |-> Elements(b.args), tunnel |-> Mode(b.tunnel)]

\* applySpec sets both halves: the one that is left out is cleared.
Applied(p, o) == [labels |-> Elements(p.labels), provision |-> ToProvision(p.provision)]

NewObject(p) == Applied(p, Null)

Stored(p, o) == p

ListOrNull(l) == IF l = <<>> THEN Null ELSE l

Tunnel(mode) == IF mode = "unset" THEN Null ELSE mode = "on"

FromProvision(s) ==
  IF s = Null THEN Null
  ELSE [provider |-> s.provider, args |-> ListOrNull(s.args), tunnel |-> Tunnel(s.tunnel)]

\* specToModel: nothing of the state before survives.
ToModel(o, m) == [id |-> Name, labels |-> ListOrNull(o.labels),
                  provision |-> FromProvision(o.provision)]

\* What a configuration means.
Meets(c, o) ==
  /\ o.labels = Elements(c.labels)
  /\ (c.provision = Null) = (o.provision = Null)
  /\ c.provision # Null => /\ o.provision.provider = c.provision.provider
                           /\ o.provision.args = Elements(c.provision.args)
                           /\ o.provision.tunnel = Mode(c.provision.tunnel)

\* Others may also fill in both halves, which the provider refuses to configure.
Foreign(o) == {[o EXCEPT !.labels = l] : l \in StoredLists}
                \cup {[o EXCEPT !.provision = s] : s \in {Null} \cup StoredProvisions}

================================================================================

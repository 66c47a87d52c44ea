------------------------------ MODULE MediaPreset ------------------------------
(***************************************************************************)
(* The omni_installation_media_preset resource (omni_installation_media_   *)
(* preset_resource.go): a named choice of what installation media contain. *)
(* architecture stands for bootloader and secure_boot, attributes with a   *)
(* default; token for embedded_machine_config, a text that may be left     *)
(* out; extensions for machine_labels.  Which factory serves a version is  *)
(* fixed here; InstallationMedia has it change.                            *)
(***************************************************************************)
EXTENDS SequencesExt

CONSTANTS Null, Unknown,
          Presets,      \* configurations, with attributes from the sets below
          MediaVersions, JoinTokens, Architectures, ExtensionSets, Platforms, Overlays, Options,
          ArgLists,     \* lists of Arguments
          OwnFactory    \* versions that are served by a factory of their own

Kind == "installation_media_preset"
Name == "preset"      \* of the one preset there is here
DefaultArchitecture == "amd64"
Empty == ""

\* A version may be written with a leading "v".
VersionTexts == [v : MediaVersions, prefix : BOOLEAN]

\* An argument: one word, or words with white space between them.
Arguments == {a \in [words : Seq(STRING), space : {"none", "ascii", "unicode"}] :
                (a.space = "none") = (Len(a.words) = 1)}

SbcBlocks == [overlay : Overlays, options : {Null} \cup Options]

Attributes == [architecture : {Null} \cup Architectures,
               version : {Null} \cup VersionTexts, token : {Null} \cup JoinTokens,
               tunnel : {Null} \cup BOOLEAN,
               cloud : {Null} \cup Platforms, sbc : {Null} \cup SbcBlocks,
               extensions : {Null} \cup ExtensionSets, args : {Null} \cup ArgLists]

\* resourcevalidator.Conflicting: bare metal, cloud or sbc.
Configs == {c \in Presets : c.cloud = Null \/ c.sbc = Null}

\* resolveImageFactoryURL, while the factories stay what they are.
Factory(version) == IF version \in OwnFactory THEN "secondary" ELSE "primary"

--------------------------------------------------------------------------------
(* Kernel arguments: one text, joined with spaces *)

OneWord(w) == [words |-> <<w>>, space |-> "none"]

\* strings.Fields of the joined text splits at every white space of Unicode.
Fields(list) == [i \in DOMAIN FlattenSeq([j \in DOMAIN list |-> list[j].words]) |->
                   OneWord(FlattenSeq([j \in DOMAIN list |-> list[j].words])[i])]

\* kernelArgPattern knows the white space of ASCII.
ValidArgs(list) == \A i \in DOMAIN list : list[i].space # "ascii"

--------------------------------------------------------------------------------
Models == [name : {Name}, imageFactory : {Null, Unknown, "primary", "secondary"},
           architecture : {Null, DefaultArchitecture} \cup Architectures,
           version : {Null} \cup VersionTexts, token : {Null} \cup JoinTokens,
           tunnel : {Null} \cup BOOLEAN,
           cloud : {Null} \cup Platforms, sbc : {Null} \cup SbcBlocks,
           extensions : {Null} \cup ExtensionSets,
           args : {Null} \cup ArgLists \cup {Fields(l) : l \in ArgLists}]

StoredSbcs == [overlay : Overlays, options : {Empty} \cup Options]

Objects == [imageFactory : {"primary", "secondary"},
            architecture : {DefaultArchitecture} \cup Architectures,
            version : {Empty} \cup MediaVersions, token : {Empty} \cup JoinTokens,
            tunnel : {"unset", "on", "off"},
            cloud : {Null} \cup Platforms, sbc : {Null} \cup StoredSbcs,
            extensions : {{}} \cup ExtensionSets,
            args : {<<>>} \cup {l \in ArgLists : ValidArgs(l)}]

IdOf(o) == Name
IdIn(m) == m.name
Blank(id) == [name |-> id, imageFactory |-> Null, architecture |-> Null, version |-> Null,
              token |-> Null, tunnel |-> Null, cloud |-> Null, sbc |-> Null,
              extensions |-> Null, args |-> Null]

\* The default of an attribute that is left out.
OrDefault(value, default) == IF value = Null THEN default ELSE value

\* The factory is Omni's to tell: it stays as it is unless something else changes.
Planned(c, m) ==
  LET p == [name |-> Name, imageFactory |-> IF m = Null THEN Unknown ELSE m.imageFactory,
            architecture |-> OrDefault(c.architecture, DefaultArchitecture),
            version |-> c.version, token |-> c.token, tunnel |-> c.tunnel,
            cloud |-> c.cloud, sbc |-> c.sbc, extensions |-> c.extensions, args |-> c.args]
  IN  IF p = m THEN p ELSE [p EXCEPT !.imageFactory = Unknown]

Replaces(p, m) == FALSE

\* The errors of applyInstallationMediaPresetModel: what the validators refuse, too, of values
\* that they do not know yet, and null elements.
Accepts(p) == /\ p.cloud = Null \/ p.sbc = Null
              /\ p.extensions # Null => Null \notin p.extensions
              /\ p.args # Null => ValidArgs(p.args)

\* normalizeTalosVersion
Normalized(version) == IF version = Null THEN Empty ELSE version.v

\* grpcTunnelMode
Mode(tunnel) == IF tunnel = Null THEN "unset" ELSE IF tunnel THEN "on" ELSE "off"

\* applyInstallationMediaPresetModel sets every field.
Applied(p, o) ==
  [imageFactory |-> Factory(Normalized(p.version)),
   architecture |-> p.architecture, version |-> Normalized(p.version),
   token |-> OrDefault(p.token, Empty), tunnel |-> Mode(p.tunnel), cloud |-> p.cloud,
   sbc |-> IF p.sbc = Null THEN Null ELSE [p.sbc EXCEPT !.options = OrDefault(@, Empty)],
   extensions |-> OrDefault(p.extensions, {}), args |-> OrDefault(p.args, <<>>)]

NewObject(p) == Applied(p, Null)

Stored(p, o) == [p EXCEPT !.imageFactory = o.imageFactory]

\* optionalString, optionalSet, optionalList
Optional(value, zero) == IF value = zero THEN Null ELSE value

Tunnel(mode) == IF mode = "unset" THEN Null ELSE mode = "on"

\* installationMediaPresetToModel: nothing of the state before survives.
ToModel(o, m) ==
  [name |-> Name, imageFactory |-> o.imageFactory, architecture |-> o.architecture,
   version |-> IF o.version = Empty THEN Null ELSE [v |-> o.version, prefix |-> FALSE],
   token |-> Optional(o.token, Empty), tunnel |-> Tunnel(o.tunnel), cloud |-> o.cloud,
   sbc |-> IF o.sbc = Null THEN Null ELSE [o.sbc EXCEPT !.options = Optional(@, Empty)],
   extensions |-> Optional(o.extensions, {}), args |-> Optional(Fields(o.args), <<>>)]

\* What a configuration means: what the descriptions of the schema say.
Meets(c, o) ==
  /\ o.architecture = OrDefault(c.architecture, DefaultArchitecture)
  /\ o.version = Normalized(c.version) /\ o.token = OrDefault(c.token, Empty)
  /\ o.tunnel = Mode(c.tunnel) /\ o.cloud = c.cloud
  /\ (o.sbc = Null) = (c.sbc = Null)
  /\ c.sbc # Null => /\ o.sbc.overlay = c.sbc.overlay
                     /\ o.sbc.options = OrDefault(c.sbc.options, Empty)
  /\ o.extensions = OrDefault(c.extensions, {}) /\ o.args = OrDefault(c.args, <<>>)

\* Others turn the preset into another target, pin another factory, fill in or clear what is
\* optional.
Foreign(o) == {[o EXCEPT !.cloud = p, !.sbc = Null] : p \in {Null} \cup Platforms}
                \cup {[o EXCEPT !.sbc = s, !.cloud = Null] : s \in StoredSbcs}
                \cup {[o EXCEPT !.version = v] : v \in {Empty} \cup MediaVersions}
                \cup {[o EXCEPT !.imageFactory = "secondary"]}
                \cup {[o EXCEPT !.tunnel = t] : t \in {"unset", "on", "off"}}
                \cup {[o EXCEPT !.architecture = a] : a \in Architectures}
                \cup {[o EXCEPT !.args = <<>>], [o EXCEPT !.extensions = {}]}

================================================================================

------------------------------ MODULE MCResources ------------------------------
(* Small sets of configurations for each resource. *)
EXTENDS Resources

CONSTANTS n1, n2, d1, d2

MCIntervals == {[dur |-> 1, form |-> "short"], [dur |-> 1, form |-> "canonical"],
                [dur |-> 2, form |-> "short"], [dur |-> 1, form |-> "junk"]}
MCRefused == {<<1, {"disk_encryption"}>>}
MCUpdates == {[type |-> "Rolling", par |-> 1]}
MCDeletes == {}
MCClassBlocks == {[class |-> "c", size |-> 1, alloc |-> Null],
                  [class |-> "c", size |-> 0, alloc |-> "Static"],
                  [class |-> "c", size |-> Null, alloc |-> "Unlimited"],
                  [class |-> "c", size |-> Null, alloc |-> Null]}
MCLists == {<<"a">>, <<Null>>}
MCExtensionSets == {{}, {"tools"}, {Null}}
MCBuckets == {[text |-> "b", padded |-> FALSE], [text |-> "", padded |-> TRUE]}
MCRegions == {[text |-> "r", padded |-> FALSE]}
MCEmails == {[name |-> "a", capitals |-> FALSE], [name |-> "b", capitals |-> FALSE]}

Plain == [words |-> <<"a">>, space |-> "none"]
MCArgLists == {<<>>, <<Plain>>, <<Plain, Plain>>, <<[words |-> <<"a", "b">>, space |-> "ascii"]>>}

Metal == [architecture |-> Null, version |-> Null, token |-> Null, tunnel |-> Null,
          cloud |-> Null, sbc |-> Null, extensions |-> Null, args |-> Null]
Version(prefix) == [v |-> "1.13", prefix |-> prefix]
MCPresets ==
  {[Metal EXCEPT !.version = v, !.args = l] :
     v \in {Null, Version(FALSE)},
     l \in {Null, <<Plain, Plain>>, <<[words |-> <<"a", "b">>, space |-> "ascii"]>>}}
  \cup {[Metal EXCEPT !.tunnel = t, !.cloud = "aws"] : t \in BOOLEAN}
  \cup {[Metal EXCEPT !.sbc = [overlay |-> "rpi", options |-> o], !.token = "t",
                      !.extensions = e] : o \in {Null, "o"}, e \in {Null, {"tools"}, {Null}}}
  \cup {[Metal EXCEPT !.architecture = "arm64"]}

MCZeroInterval == {[dur |-> 0, form |-> "short"]}
MCPrefixed == {[Metal EXCEPT !.version = Version(TRUE)]}

\* The values of MCResources.cfg are as the proofs want them.
ASSUME ValuesAssumption ==
  Intervals = MCIntervals =>
    /\ ClusterValues /\ MachineSetValues /\ PatchValues /\ ClassValues /\ ExtensionsValues
    /\ DiskValues /\ ManifestValues /\ HealthCheckValues /\ S3Values /\ UserValues /\ PresetValues
================================================================================

------------------------------ MODULE InstallDisk ------------------------------
(***************************************************************************)
(* The omni_machine_install_disk resource (omni_machine_install_disk_      *)
(* resource.go): a machine's install disk, by path or by an expression.    *)
(***************************************************************************)
CONSTANTS Null, Machines, Disks, DiskSelectors

Kind == "machine_install_disk"

\* resourcevalidator.ExactlyOneOf
Configs == [machineId : Machines, disk : Disks, diskSelector : {Null}]
             \cup [machineId : Machines, disk : {Null}, diskSelector : DiskSelectors]

Models == [machineId : Machines, disk : {Null} \cup Disks, diskSelector : {Null} \cup DiskSelectors]

Empty == ""

Objects == [machineId : Machines, disk : {Empty} \cup Disks,
            diskSelector : {Empty} \cup DiskSelectors]

IdOf(o) == o.machineId
IdIn(m) == m.machineId
Blank(id) == [machineId |-> id, disk |-> Null, diskSelector |-> Null]

Planned(c, m) == c

Replaces(p, m) == p.machineId # m.machineId

Accepts(p) == TRUE

\* ValueString
Value(s) == IF s = Null THEN Empty ELSE s

\* applySpec: both forms are written, so that the other one is cleared.
Applied(p, o) == [o EXCEPT !.disk = Value(p.disk), !.diskSelector = Value(p.diskSelector)]

NewObject(p) == Applied(p, [machineId |-> p.machineId, disk |-> Empty, diskSelector |-> Empty])

Stored(p, o) == p

\* optionalString
Optional(s) == IF s = Empty THEN Null ELSE s

\* specToModel
ToModel(o, m) == [machineId |-> o.machineId, disk |-> Optional(o.disk),
                  diskSelector |-> Optional(o.diskSelector)]

Meets(c, o) == Optional(o.disk) = c.disk /\ Optional(o.diskSelector) = c.diskSelector

\* Others choose another disk; Omni stores exactly one of the forms.
Foreign(o) == {[o EXCEPT !.disk = d, !.diskSelector = Empty] : d \in Disks}
                \cup {[o EXCEPT !.disk = Empty, !.diskSelector = s] : s \in DiskSelectors}

================================================================================

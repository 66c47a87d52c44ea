------------------------------ MODULE EtcdBackupS3 ------------------------------
(***************************************************************************)
(* The omni_etcd_backup_s3_config resource (omni_etcd_backup_s3_config_    *)
(* resource.go): where Omni keeps backups, one object for the instance.    *)
(* region stands for endpoint, too, which is treated alike.                *)
(***************************************************************************)
CONSTANTS Null, Unknown,
          Buckets, Regions,   \* texts: [text |-> , padded |-> whether white space surrounds it]
          Keys, Tokens

Kind == "etcd_backup_s3_config"
Id == "etcd-backup-s3-conf"
Empty == ""

\* The validators: a key has two halves, a session token belongs to a key.
Credentials == [keyId : {Null}, secret : {Null}, token : {Null}]
                 \cup [keyId : Keys, secret : Keys, token : {Null} \cup Tokens]

Configs == [bucket : Buckets, region : {Null} \cup Regions, credentials : Credentials]

Plain(text) == [text |-> text, padded |-> FALSE]

Models == [id : {Id, Unknown},
           bucket : {Null} \cup Buckets \cup {Plain(b.text) : b \in Buckets},
           region : {Null} \cup Regions \cup {Plain(r.text) : r \in Regions},
           credentials : Credentials]

NoCredentials == [keyId |-> Empty, secret |-> Empty, token |-> Empty]

StoredCredentials == {NoCredentials}
                       \cup [keyId : Keys, secret : Keys, token : {Empty} \cup Tokens]

Objects == [bucket : {b.text : b \in Buckets}, region : {Empty} \cup {r.text : r \in Regions},
            credentials : StoredCredentials]

IdOf(o) == Id
IdIn(m) == Id

\* ImportState ignores the ID it is given.
Blank(id) == [id |-> Id, bucket |-> Null, region |-> Null,
              credentials |-> [keyId |-> Null, secret |-> Null, token |-> Null]]

Planned(c, m) == [id |-> IF m = Null THEN Unknown ELSE m.id, bucket |-> c.bucket,
                  region |-> c.region, credentials |-> c.credentials]

Replaces(p, m) == FALSE

\* The errors of applyEtcdBackupConfigModel: what the validators refuse, too, and a bucket
\* that is all white space.
Accepts(p) == /\ p.bucket.text # Empty
              /\ (p.credentials.keyId = Null) = (p.credentials.secret = Null)
              /\ p.credentials.token # Null => p.credentials.keyId # Null

\* ValueString
Value(s) == IF s = Null THEN Empty ELSE s

Written(s) == [keyId |-> Value(s.keyId), secret |-> Value(s.secret), token |-> Value(s.token)]

\* The text is stored without the white space around it.
Applied(p, o) == [bucket |-> p.bucket.text,
                  region |-> IF p.region = Null THEN Empty ELSE p.region.text,
                  credentials |-> Written(p.credentials)]

NewObject(p) == Applied(p, Null)

Stored(p, o) == [p EXCEPT !.id = Id]

\* optionalString
Optional(s) == IF s = Empty THEN Null ELSE s

AsRead(s) == [keyId |-> Optional(s.keyId), secret |-> Optional(s.secret), token |-> Optional(s.token)]

\* etcdBackupS3ConfigToModel
ToModel(o, m) == [id |-> Id, bucket |-> Plain(o.bucket),
                  region |-> IF o.region = Empty THEN Null ELSE Plain(o.region),
                  credentials |-> AsRead(o.credentials)]

Meets(c, o) == /\ o.bucket = c.bucket.text
               /\ o.region = IF c.region = Null THEN Empty ELSE c.region.text
               /\ o.credentials = Written(c.credentials)

\* Omni rejects half a pair.
Foreign(o) == {[o EXCEPT !.bucket = b.text] : b \in {d \in Buckets : d.text # Empty}}
                \cup {[o EXCEPT !.region = r] : r \in {Empty} \cup {s.text : s \in Regions}}
                \cup {[o EXCEPT !.credentials = s] : s \in StoredCredentials}

================================================================================

-------------------------- MODULE DataDirProperties -------------------------
(***************************************************************************)
(* What the shared files promise, stated over DataDir.                     *)
(***************************************************************************)
EXTENDS DataDir

\* Every variable holds values of its kind.
TypeOK ==
  /\ idFile \in Process \cup {Absent, Empty}
  /\ cfgFile \in Config \cup {Absent, Empty}
  /\ keyFile \in Key \cup {Absent, Empty} /\ keyring \in Key \cup {Absent}
  /\ locked \in BOOLEAN
  /\ job \in [Process -> Job]
  /\ pc \in [Process -> {"idle", "serve", "done", "readId", "openId", "writeId",
                         "loadKey", "setKey", "removeKey", "openKey", "writeKey",
                         "loadConfig", "openConfig", "writeConfig"}]
  /\ id \in [Process -> Process \cup {Absent}]
  /\ cfg \in [Process -> Config]
  /\ key \in [Process -> Key \cup {Absent}]
  /\ shown \subseteq Key
  /\ bucket \subseteq Process \X Key
  /\ setting \in Settings

\* An install has one identity, whatever dies half-way: every process that was
\* given an id was given the same one, which is what lets the sync engine find
\* the events every one of them recorded.  Not so when the first two commands
\* overlap, or when the file cannot be read for a moment.
OneIdentity ==
  setting \cap {"overlap", "read"} = {} =>
    \A p, q \in Process : id[p] # Absent /\ id[q] # Absent => id[p] = id[q]

\* The file has an id, and no process is past the test that found none.
Settled ==
  /\ "read" \notin setting /\ idFile \in Process
  /\ \A p \in Process : pc[p] \notin {"openId", "writeId"}

\* Also when the first commands overlap, the identity settles: from then on no
\* process makes another, whatever starts, stops or dies (paths.go, DeviceID).
IdentitySettles == [][Settled => Settled' /\ idFile' = idFile]_vars

\* What this machine uploads stays legible: everything in the bucket is sealed
\* with a key whose phrase the user was shown, and it is one key, since `key
\* init' and `key import' do not replace one.  Not so when two of them overlap
\* or one of them meets a locked keychain.
OneKeyInBucket ==
  setting \cap {"overlap", "lock", "crash"} = {} =>
    \A u, v \in bucket : u[2] = v[2] /\ u[2] \in shown

\* Sync that is enabled, or has a backend to be asked for by hand, has a key to
\* seal with, in the keychain or in the file: the dashboard may only switch on
\* what `sync enable' has set up, which asks for a key first.  (No command removes
\* a key; one that is being written to the file over another is the exception,
\* and a death there.)
EnabledHasKey ==
  ~({"overlap", "crash"} \subseteq setting) /\ cfgFile \in Config /\ (cfgFile.enabled \/ cfgFile.backend)
    => keyring # Absent \/ keyFile \in Key \/ \E p \in Process : pc[p] = "writeKey"

\* The configuration is only ever unreadable while somebody is writing it,
\* unless a writer died.
ConfigHeals ==
  "crash" \notin setting /\ cfgFile = Empty =>
    \E p \in Process : pc[p] = "writeConfig"

\* Whatever commands follow each other, an install has one identity, sync that
\* runs one key, and a configuration that loads.
InstallIsWhole == OneIdentity /\ OneKeyInBucket /\ EnabledHasKey /\ ConfigHeals

=============================================================================

------------------------------- MODULE DataDir ------------------------------
(***************************************************************************)
(* The small files every process of an install shares: the device id       *)
(* (internal/paths/paths.go), the configuration (internal/config), the     *)
(* encryption key (internal/crypto/keystore.go) - and the commands that    *)
(* read them, decide and write them again (cmd/shcr/main.go, the           *)
(* dashboard's settings in internal/web/api.go).                           *)
(*                                                                         *)
(* os.WriteFile truncates and then writes, so a file passes through Empty. *)
(* A process does one job.  Ids and keys are named after the process that  *)
(* made them; Phrase is the key of another machine.                        *)
(***************************************************************************)
EXTENDS Naturals

CONSTANTS
  Process,
  Absent, Empty,  \* no such file; a file with nothing in it
  Phrase,         \* the key `key import' is given
  Settings        \* the sets of conditions a behaviour may be subject to

Job == {"work", "enable", "patch", "init", "import"}

\* "overlap": jobs run at the same time.  "lock": the keyring is locked and
\* unlocked.  "crash": a process dies between two steps.  "read": reading the
\* id file fails although it is there.
Condition == {"overlap", "lock", "crash", "read"}

Key == Process \cup {Phrase}
Config == [enabled : BOOLEAN, backend : BOOLEAN, hide : BOOLEAN]

ASSUME DataDirConstants ==
  /\ Settings \subseteq SUBSET Condition
  /\ Absent \notin Process \cup {Phrase, Empty}
  /\ Empty \notin Process \cup {Phrase}
  /\ Phrase \notin Process
  /\ Absent \notin Config /\ Empty \notin Config

VARIABLES
  idFile,    \* data/device_id
  cfgFile,   \* data/config.json, of which the sync section
  keyFile,   \* data/key
  keyring,   \* the entry in the OS keychain
  locked,    \* keychain calls fail
  job, pc,   \* per process: what it does, and where it is
  id,        \* per process: the device id DeviceID returned, or Absent
  cfg,       \* per process: the configuration it loaded and changes
  key,       \* per process: the key it made, or the engine's cached Key
  shown,     \* keys whose phrase was printed or typed in: what the user has
  bucket,    \* uploads: the id they are under and the key they are sealed with
  setting

files  == <<idFile, cfgFile, keyFile, keyring>>
locals == <<id, cfg, key>>
vars   == <<files, locked, job, pc, locals, shown, bucket, setting>>

At(p, state) == pc[p] = state
Goto(p, state) == pc' = [pc EXCEPT ![p] = state]

\* Between the first read and the last write of a job.
Busy(p) == pc[p] \notin {"idle", "serve", "done"}

----------------------------------------------------------------------------
Begin(p) ==
  /\ At(p, "idle")
  /\ "overlap" \notin setting => \A q \in Process : ~Busy(q)
  /\ \E j \in Job :
       /\ job' = [job EXCEPT ![p] = j]
       /\ Goto(p, CASE j = "work" -> "readId"
                    [] j = "patch" -> "loadConfig"
                    [] OTHER -> "loadKey")
  /\ UNCHANGED <<files, locked, locals, shown, bucket, setting>>

(* DeviceID.                                                               *)

\* Wrong: a file that is being written has an id too.
ReadIdAsItIs(p) ==
  /\ At(p, "readId")
  /\ \/ /\ idFile # Absent
        /\ id' = [id EXCEPT ![p] = idFile]
        /\ Goto(p, "serve")
     \/ /\ idFile = Absent \/ "read" \in setting
        /\ Goto(p, "openId")
        /\ UNCHANGED id
  /\ UNCHANGED <<files, locked, job, cfg, key, shown, bucket, setting>>

\* Wrong: every process makes its own.
ReadNoId(p) ==
  /\ At(p, "readId")
  /\ Goto(p, "openId")
  /\ UNCHANGED <<files, locked, job, locals, shown, bucket, setting>>

ReadId(p) ==
  /\ At(p, "readId")
  /\ \/ /\ idFile \notin {Absent, Empty}
        /\ id' = [id EXCEPT ![p] = idFile]
        /\ Goto(p, "serve")
     \/ /\ idFile \in {Absent, Empty} \/ "read" \in setting
        /\ Goto(p, "openId")
        /\ UNCHANGED id
  /\ UNCHANGED <<files, locked, job, cfg, key, shown, bucket, setting>>

OpenId(p) ==
  /\ At(p, "openId")
  /\ idFile' = Empty
  /\ Goto(p, "writeId")
  /\ UNCHANGED <<cfgFile, keyFile, keyring, locked, job, locals, shown, bucket, setting>>

WriteId(p) ==
  /\ At(p, "writeId")
  /\ idFile' = p
  /\ id' = [id EXCEPT ![p] = p]
  /\ Goto(p, "serve")
  /\ UNCHANGED <<cfgFile, keyFile, keyring, locked, job, cfg, key, shown, bucket, setting>>

(* The keystore.                                                           *)

Unsealed(file) == file \in Key

\* Keystore.Load: the keychain's key when it answers, else the file's, else
\* (no file, or one that does not decode) no key.
Stored ==
  IF ~locked /\ keyring # Absent THEN keyring
  ELSE IF Unsealed(keyFile) THEN keyFile
  ELSE Absent

\* Wrong: `key init' and `key import' replace a key.
LoadKeyToReplace(p) ==
  /\ At(p, "loadKey")
  /\ IF job[p] = "enable"
       THEN Goto(p, IF Stored = Absent THEN "done" ELSE "loadConfig") /\ UNCHANGED key
       ELSE /\ key' = [key EXCEPT ![p] = IF job[p] = "init" THEN p ELSE Phrase]
            /\ Goto(p, "setKey")
  /\ UNCHANGED <<files, locked, job, id, cfg, shown, bucket, setting>>

\* `key init' and `key import' refuse when a key loads; `sync enable' refuses
\* when none does.
LoadKey(p) ==
  /\ At(p, "loadKey")
  /\ IF job[p] = "enable"
       THEN Goto(p, IF Stored = Absent THEN "done" ELSE "loadConfig") /\ UNCHANGED key
       ELSE IF Stored # Absent
       THEN Goto(p, "done") /\ UNCHANGED key
       ELSE /\ key' = [key EXCEPT ![p] = IF job[p] = "init" THEN p ELSE Phrase]
            /\ Goto(p, "setKey")
  /\ UNCHANGED <<files, locked, job, id, cfg, shown, bucket, setting>>

\* Keystore.Save: the keychain first.
SetKey(p) ==
  /\ At(p, "setKey")
  /\ IF locked
       THEN Goto(p, "openKey") /\ UNCHANGED keyring
       ELSE keyring' = key[p] /\ Goto(p, "removeKey")
  /\ UNCHANGED <<idFile, cfgFile, keyFile, locked, job, locals, shown, bucket, setting>>

\* The phrase is printed once Save has returned.
Show(p) == shown' = shown \cup {key[p]}

RemoveKey(p) ==
  /\ At(p, "removeKey")
  /\ keyFile' = Absent
  /\ Show(p) /\ Goto(p, "done")
  /\ UNCHANGED <<idFile, cfgFile, keyring, locked, job, locals, bucket, setting>>

OpenKey(p) ==
  /\ At(p, "openKey")
  /\ keyFile' = Empty
  /\ Goto(p, "writeKey")
  /\ UNCHANGED <<idFile, cfgFile, keyring, locked, job, locals, shown, bucket, setting>>

WriteKey(p) ==
  /\ At(p, "writeKey")
  /\ keyFile' = key[p]
  /\ Show(p) /\ Goto(p, "done")
  /\ UNCHANGED <<idFile, cfgFile, keyring, locked, job, locals, bucket, setting>>

(* The configuration.                                                      *)

DefaultConfig == [enabled |-> FALSE, backend |-> FALSE, hide |-> FALSE]

\* config.Load: defaults for a missing file, an error for an empty one.
Loads(c) ==
  /\ cfgFile # Empty
  /\ c = IF cfgFile = Absent THEN DefaultConfig ELSE cfgFile

\* The jobs' changes: `sync enable' replaces the section, the dashboard sets
\* one of two switches and cannot enable sync without a backend.
Changed(p, c) ==
  IF job[p] = "enable"
  THEN {[enabled |-> TRUE, backend |-> TRUE, hide |-> h] : h \in BOOLEAN}
  ELSE {[c EXCEPT !.enabled = b] : b \in {x \in BOOLEAN : x => c.backend}}
         \cup {[c EXCEPT !.hide = h] : h \in BOOLEAN}

LoadConfig(p) ==
  /\ At(p, "loadConfig")
  /\ IF cfgFile = Empty
       THEN Goto(p, "done") /\ UNCHANGED cfg
       ELSE \E c \in Config : /\ Loads(c)
                              /\ \E d \in Changed(p, c) : cfg' = [cfg EXCEPT ![p] = d]
                              /\ Goto(p, "openConfig")
  /\ UNCHANGED <<files, locked, job, id, key, shown, bucket, setting>>

OpenConfig(p) ==
  /\ At(p, "openConfig")
  /\ cfgFile' = Empty
  /\ Goto(p, "writeConfig")
  /\ UNCHANGED <<idFile, keyFile, keyring, locked, job, locals, shown, bucket, setting>>

WriteConfig(p) ==
  /\ At(p, "writeConfig")
  /\ cfgFile' = cfg[p]
  /\ Goto(p, "done")
  /\ UNCHANGED <<idFile, keyFile, keyring, locked, job, locals, shown, bucket, setting>>

(* A daemon or dashboard at work, with the id it started with.             *)

\* ensureKey resolves the key once.  The loop runs a cycle while sync is enabled,
\* `sync now' and the dashboard whenever a backend is set.
Upload(p) ==
  /\ At(p, "serve")
  /\ \E c \in Config : Loads(c) /\ c.backend
  /\ LET k == IF key[p] # Absent THEN key[p] ELSE Stored
     IN  /\ k # Absent
         /\ key' = [key EXCEPT ![p] = k]
         /\ bucket' = bucket \cup {<<id[p], k>>}
  /\ UNCHANGED <<files, locked, job, pc, id, cfg, shown, setting>>

Stop(p) ==
  /\ \/ At(p, "serve")
     \/ Busy(p) /\ "crash" \in setting
  /\ Goto(p, "done")
  /\ UNCHANGED <<files, locked, job, locals, shown, bucket, setting>>

Lock ==
  /\ "lock" \in setting
  /\ locked' = ~locked
  /\ UNCHANGED <<files, job, pc, locals, shown, bucket, setting>>

----------------------------------------------------------------------------
Init ==
  /\ idFile = Absent /\ cfgFile = Absent /\ keyFile = Absent /\ keyring = Absent
  /\ locked \in BOOLEAN
  /\ job = [p \in Process |-> "work"] /\ pc = [p \in Process |-> "idle"]
  /\ id = [p \in Process |-> Absent]
  /\ cfg = [p \in Process |-> DefaultConfig]
  /\ key = [p \in Process |-> Absent]
  /\ shown = {} /\ bucket = {}
  /\ setting \in Settings

Next ==
  \/ \E p \in Process :
       \/ Begin(p) \/ ReadId(p) \/ OpenId(p) \/ WriteId(p)
       \/ LoadKey(p) \/ SetKey(p) \/ RemoveKey(p) \/ OpenKey(p) \/ WriteKey(p)
       \/ LoadConfig(p) \/ OpenConfig(p) \/ WriteConfig(p)
       \/ Upload(p) \/ Stop(p)
  \/ Lock

Spec == Init /\ [][Next]_vars

=============================================================================

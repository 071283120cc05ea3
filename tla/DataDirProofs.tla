---------------------------- MODULE DataDirProofs ---------------------------
(***************************************************************************)
(* Proofs about DataDir, for any number of processes: its types, that the  *)
(* identity settles, and that an install stays whole.                      *)
(***************************************************************************)
EXTENDS DataDirProperties, TLAPS

\* A job that stores a key has one, a process at work has an id, and what has
\* not begun to upload has no key.
HandsInv ==
  \A p \in Process :
    /\ pc[p] \in {"setKey", "removeKey", "openKey", "writeKey"} => key[p] \in Key
    /\ pc[p] = "serve" => id[p] \in Process
    /\ pc[p] \in {"idle", "readId", "openId", "writeId"} => key[p] = Absent

\* Sync is only enabled with a backend.
Sound(c) == c.enabled => c.backend

SoundInv ==
  /\ cfgFile \in Config => Sound(cfgFile)
  /\ \A p \in Process : Sound(cfg[p])

\* Jobs that do not overlap are in progress one at a time.
OneBusy ==
  "overlap" \notin setting => \A p, q \in Process : Busy(p) /\ Busy(q) => p = q

BaseInv == TypeOK /\ HandsInv /\ SoundInv /\ OneBusy

----------------------------------------------------------------------------
(* What the operators return.                                              *)

LEMMA StoredFacts ==
  ASSUME TypeOK
  PROVE  /\ Stored \in Key \cup {Absent} /\ Absent \notin Key /\ Empty \notin Key
         /\ Stored # Absent => keyring # Absent \/ keyFile \in Key
BY DataDirConstants DEF TypeOK, Stored, Unsealed, Key

\* A change keeps a configuration one, and sound; a backend comes from `sync
\* enable' or was there.
LEMMA ChangedFacts ==
  ASSUME NEW p \in Process, NEW c \in Config, Sound(c), NEW d \in Changed(p, c)
  PROVE  /\ d \in Config /\ Sound(d)
         /\ d.backend => job[p] = "enable" \/ c.backend
<1>1. CASE job[p] = "enable"
  <2>1. PICK h \in BOOLEAN : d = [enabled |-> TRUE, backend |-> TRUE, hide |-> h]
    BY <1>1, Zenon DEF Changed
  <2>2. d \in Config
    BY <2>1 DEF Config
  <2>3. d.backend
    BY <2>1
  <2> QED BY <1>1, <2>2, <2>3 DEF Sound
<1>2. CASE job[p] # "enable"
  <2>1. CASE \E b \in BOOLEAN : (b => c.backend) /\ d = [c EXCEPT !.enabled = b]
    <3>1. PICK b \in BOOLEAN : (b => c.backend) /\ d = [c EXCEPT !.enabled = b]
      BY <2>1
    <3>2. d \in Config /\ d.backend = c.backend /\ d.enabled = b
      BY <3>1 DEF Config
    <3> QED BY <3>1, <3>2 DEF Sound
  <2>2. CASE \E h \in BOOLEAN : d = [c EXCEPT !.hide = h]
    <3>1. PICK h \in BOOLEAN : d = [c EXCEPT !.hide = h]
      BY <2>2
    <3>2. d \in Config /\ d.backend = c.backend /\ d.enabled = c.enabled
      BY <3>1 DEF Config
    <3> QED BY <3>2 DEF Sound
  <2> QED BY <1>2, <2>1, <2>2 DEF Changed
<1> QED BY <1>1, <1>2

LEMMA LoadsFacts ==
  ASSUME TypeOK, SoundInv, NEW c, Loads(c)
  PROVE  /\ c \in Config /\ Sound(c)
         /\ c.backend => cfgFile \in Config /\ cfgFile.backend
<1>1. DefaultConfig \in Config /\ Sound(DefaultConfig) /\ ~DefaultConfig.backend
  BY DEF DefaultConfig, Config, Sound
<1> QED BY <1>1 DEF TypeOK, SoundInv, Loads

\* What loading the configuration does: nothing is changed, or one switch is.
LEMMA LoadConfigFacts ==
  ASSUME BaseInv, NEW p \in Process, LoadConfig(p)
  PROVE  /\ cfg' \in [Process -> Config]
         /\ \A q \in Process : q # p => cfg'[q] = cfg[q]
         /\ Sound(cfg'[p])
         /\ pc' \in {[pc EXCEPT ![p] = "done"], [pc EXCEPT ![p] = "openConfig"]}
         /\ pc'[p] = "openConfig" /\ cfg'[p].backend =>
              job[p] = "enable" \/ (cfgFile \in Config /\ cfgFile.backend)
<1>1. TypeOK /\ SoundInv
  BY DEF BaseInv
<1>2. CASE cfgFile = Empty
  BY <1>1, <1>2 DEF LoadConfig, Goto, TypeOK, SoundInv
<1>3. CASE cfgFile # Empty
  <2>0. PICK c \in Config :
          /\ Loads(c) /\ pc' = [pc EXCEPT ![p] = "openConfig"]
          /\ \E d \in Changed(p, c) : cfg' = [cfg EXCEPT ![p] = d]
    BY <1>3 DEF LoadConfig, Goto
  <2>1. PICK d \in Changed(p, c) : cfg' = [cfg EXCEPT ![p] = d]
    BY <2>0
  <2>2. /\ Sound(c)
        /\ c.backend => cfgFile \in Config /\ cfgFile.backend
    BY <1>1, <2>0, LoadsFacts
  <2>3. /\ d \in Config /\ Sound(d)
        /\ d.backend => job[p] = "enable" \/ c.backend
    BY <2>2, ChangedFacts
  <2>4. cfg'[p] = d
    BY <1>1, <2>1 DEF TypeOK
  <2> QED BY <1>1, <2>0, <2>1, <2>2, <2>3, <2>4 DEF TypeOK
<1> QED BY <1>2, <1>3

----------------------------------------------------------------------------
(* Types, what is in hand, and jobs that do not overlap.                   *)

LEMMA InitBase == Init => BaseInv
<1> SUFFICES ASSUME Init PROVE BaseInv
  OBVIOUS
<1> USE DataDirConstants DEF Init
<1>1. TypeOK
  BY DEF TypeOK, Job, DefaultConfig, Config
<1>2. HandsInv
  BY DEF HandsInv
<1>3. SoundInv
  BY DEF SoundInv, Sound, DefaultConfig
<1>4. OneBusy
  BY DEF OneBusy, Busy
<1> QED BY <1>1, <1>2, <1>3, <1>4 DEF BaseInv

\* A step of one process that is busy, or stops or begins being so.
LEMMA BaseStep ==
  ASSUME BaseInv, NEW p \in Process,
         \/ Begin(p) \/ ReadId(p) \/ OpenId(p) \/ WriteId(p)
         \/ LoadKey(p) \/ SetKey(p) \/ RemoveKey(p) \/ OpenKey(p) \/ WriteKey(p)
         \/ LoadConfig(p) \/ OpenConfig(p) \/ WriteConfig(p)
         \/ Upload(p) \/ Stop(p)
  PROVE  BaseInv'
<1> USE DataDirConstants DEF BaseInv, HandsInv, SoundInv, OneBusy, Busy, At, Goto, files, locals
<1>1. CASE Begin(p)
  BY <1>1 DEF Begin, TypeOK, Job
<1>2. CASE ReadId(p)
  BY <1>2 DEF ReadId, TypeOK
<1>3. CASE OpenId(p)
  BY <1>3 DEF OpenId, TypeOK
<1>4. CASE WriteId(p)
  BY <1>4 DEF WriteId, TypeOK
<1>5. CASE LoadKey(p)
  BY <1>5 DEF LoadKey, TypeOK, Key
<1>6. CASE SetKey(p)
  BY <1>6 DEF SetKey, TypeOK
<1>7. CASE RemoveKey(p)
  BY <1>7 DEF RemoveKey, Show, TypeOK
<1>8. CASE OpenKey(p)
  BY <1>8 DEF OpenKey, TypeOK
<1>9. CASE WriteKey(p)
  BY <1>9 DEF WriteKey, Show, TypeOK
<1>10. CASE LoadConfig(p)
  <2>1. UNCHANGED <<files, locked, job, id, key, shown, bucket, setting>> /\ pc[p] = "loadConfig"
    BY <1>10 DEF LoadConfig
  <2> QED BY <1>10, <2>1, LoadConfigFacts DEF TypeOK
<1>11. CASE OpenConfig(p)
  BY <1>11 DEF OpenConfig, TypeOK
<1>12. CASE WriteConfig(p)
  BY <1>12 DEF WriteConfig, TypeOK
<1>13. CASE Upload(p)
  BY <1>13, StoredFacts DEF Upload, TypeOK
<1>14. CASE Stop(p)
  BY <1>14 DEF Stop, TypeOK
<1> QED BY <1>1, <1>2, <1>3, <1>4, <1>5, <1>6, <1>7, <1>8, <1>9, <1>10, <1>11, <1>12, <1>13, <1>14

LEMMA NextBase == BaseInv /\ [Next]_vars => BaseInv'
<1> SUFFICES ASSUME BaseInv, [Next]_vars PROVE BaseInv'
  OBVIOUS
<1>1. CASE Lock \/ UNCHANGED vars
  BY <1>1 DEF Lock, vars, files, locals, BaseInv, TypeOK, HandsInv, SoundInv, OneBusy, Busy
<1> QED BY <1>1, BaseStep DEF Next

----------------------------------------------------------------------------
(* One identity.                                                           *)

\* One at a time, the process past the test that found no id is the first.
IdInv ==
  setting \cap {"overlap", "read"} = {} =>
    /\ \A p \in Process : id[p] # Absent => idFile = id[p]
    /\ \A p \in Process : pc[p] \in {"openId", "writeId"} => idFile \in {Absent, Empty}

LEMMA NextId == BaseInv /\ IdInv /\ [Next]_vars => IdInv'
<1> SUFFICES ASSUME BaseInv, IdInv, [Next]_vars PROVE IdInv'
  OBVIOUS
<1> USE DataDirConstants DEF BaseInv, IdInv, TypeOK, At, Goto, files, locals
<1>1. ASSUME NEW p \in Process, ReadId(p) PROVE IdInv'
  BY <1>1 DEF ReadId
<1>2. ASSUME NEW p \in Process, OpenId(p) PROVE IdInv'
  BY <1>2 DEF OpenId
<1>3. ASSUME NEW p \in Process, WriteId(p) PROVE IdInv'
  BY <1>3 DEF WriteId, OneBusy, Busy
<1>4. CASE UNCHANGED <<idFile, id, setting>> /\ \A p \in Process :
             pc'[p] \in {"openId", "writeId"} => pc[p] = pc'[p]
  BY <1>4
<1>5. ASSUME NEW p \in Process,
             \/ Begin(p) \/ LoadKey(p) \/ SetKey(p) \/ RemoveKey(p) \/ OpenKey(p) \/ WriteKey(p)
             \/ LoadConfig(p) \/ OpenConfig(p) \/ WriteConfig(p) \/ Upload(p) \/ Stop(p)
      PROVE  UNCHANGED <<idFile, id, setting>> /\ \A q \in Process :
               pc'[q] \in {"openId", "writeId"} => pc[q] = pc'[q]
  BY <1>5 DEF Begin, LoadKey, SetKey, RemoveKey, OpenKey, WriteKey, LoadConfig, OpenConfig,
              WriteConfig, Upload, Stop
<1>6. CASE Lock \/ UNCHANGED vars
  BY <1>6 DEF Lock, vars
<1> QED BY <1>1, <1>2, <1>3, <1>4, <1>5, <1>6 DEF Next

LEMMA NextHeal == BaseInv /\ ConfigHeals /\ [Next]_vars => ConfigHeals'
<1> SUFFICES ASSUME BaseInv, ConfigHeals, [Next]_vars PROVE ConfigHeals'
  OBVIOUS
<1> USE DataDirConstants DEF BaseInv, ConfigHeals, TypeOK, At, Goto, files, locals
<1>1. ASSUME NEW p \in Process, OpenConfig(p) PROVE ConfigHeals'
  BY <1>1 DEF OpenConfig
<1>2. ASSUME NEW p \in Process, WriteConfig(p) PROVE ConfigHeals'
  <2>1. cfgFile' = cfg[p] /\ cfg[p] \in Config
    BY <1>2 DEF WriteConfig
  <2>2. cfgFile' # Empty
    BY <2>1
  <2> QED BY <2>2
<1>3. CASE UNCHANGED <<cfgFile, setting>> /\
           ("crash" \notin setting => \A p \in Process : pc[p] = "writeConfig" => pc'[p] = pc[p])
  BY <1>3
<1>4. ASSUME NEW p \in Process,
             \/ Begin(p) \/ ReadId(p) \/ OpenId(p) \/ WriteId(p)
             \/ LoadKey(p) \/ SetKey(p) \/ RemoveKey(p) \/ OpenKey(p) \/ WriteKey(p)
             \/ LoadConfig(p) \/ Upload(p) \/ Stop(p)
      PROVE  UNCHANGED <<cfgFile, setting>> /\
             ("crash" \notin setting => \A q \in Process : pc[q] = "writeConfig" => pc'[q] = pc[q])
  BY <1>4 DEF Begin, ReadId, OpenId, WriteId, LoadKey, SetKey, RemoveKey, OpenKey, WriteKey,
              LoadConfig, Upload, Stop
<1>5. CASE Lock \/ UNCHANGED vars
  BY <1>5 DEF Lock, vars
<1> QED BY <1>1, <1>2, <1>3, <1>4, <1>5 DEF Next

----------------------------------------------------------------------------
(* A key for sync that is enabled.                                         *)

\* Sync is set up, or somebody who has seen a key is about to set it up.
NeedsKey ==
  \/ cfgFile \in Config /\ cfgFile.backend
  \/ \E p \in Process :
       \/ pc[p] \in {"openConfig", "writeConfig"} /\ cfg[p].backend
       \/ pc[p] = "loadConfig" /\ job[p] = "enable"

HasKey == keyring # Absent \/ keyFile \in Key \/ \E p \in Process : pc[p] = "writeKey"

\* A writer of a key that could die is alone, and found none to write over.
HeldInv ==
  /\ ~({"overlap", "crash"} \subseteq setting) => (NeedsKey => HasKey)
  /\ "overlap" \notin setting =>
       \A p \in Process : pc[p] \in {"setKey", "openKey", "writeKey"} =>
         keyring # Absent \/ ~NeedsKey
  /\ \A p \in Process : pc[p] = "removeKey" => keyring # Absent

\* Steps that set up nothing and touch no key.
KeyStates == {"setKey", "removeKey", "openKey", "writeKey"}

NoKeyTouched ==
  /\ UNCHANGED <<keyring, keyFile>>
  /\ \A p \in Process : \A x \in KeyStates : pc'[p] = x <=> pc[p] = x

LEMMA HeldAlike ==
  ASSUME HeldInv, NoKeyTouched, setting' = setting, NeedsKey' => NeedsKey
  PROVE  HeldInv'
<1>1. \A p \in Process :
        /\ pc'[p] = "setKey" <=> pc[p] = "setKey"
        /\ pc'[p] = "removeKey" <=> pc[p] = "removeKey"
        /\ pc'[p] = "openKey" <=> pc[p] = "openKey"
        /\ pc'[p] = "writeKey" <=> pc[p] = "writeKey"
  BY DEF NoKeyTouched, KeyStates
<1>2. HasKey' <=> HasKey
  BY <1>1 DEF HasKey, NoKeyTouched
<1>3. (~({"overlap", "crash"} \subseteq setting) => (NeedsKey => HasKey))'
  BY <1>2 DEF HeldInv
<1>4. ("overlap" \notin setting =>
        \A p \in Process : pc[p] \in {"setKey", "openKey", "writeKey"} =>
          keyring # Absent \/ ~NeedsKey)'
  BY <1>1 DEF HeldInv, NoKeyTouched
<1>5. (\A p \in Process : pc[p] = "removeKey" => keyring # Absent)'
  BY <1>1 DEF HeldInv, NoKeyTouched
<1> QED BY <1>3, <1>4, <1>5 DEF HeldInv

\* Whoever writes the configuration sets up nothing that was not about to be.
LEMMA ConfigSteps ==
  ASSUME BaseInv, NEW p \in Process, LoadConfig(p) \/ OpenConfig(p) \/ WriteConfig(p)
  PROVE  NeedsKey' => NeedsKey
<1> USE DEF At, Goto, files, locals
<1>1. TypeOK /\ UNCHANGED <<job>>
  BY DEF BaseInv, LoadConfig, OpenConfig, WriteConfig
<1>2. CASE LoadConfig(p)
  <2>1. pc[p] = "loadConfig" /\ cfgFile' = cfgFile
    BY <1>2 DEF LoadConfig
  <2>2. \A q \in Process : q # p => pc'[q] = pc[q] /\ cfg'[q] = cfg[q]
    BY <1>1, <1>2, LoadConfigFacts DEF TypeOK
  <2>3. /\ pc'[p] \in {"done", "openConfig"}
        /\ pc'[p] = "openConfig" /\ cfg'[p].backend =>
             job[p] = "enable" \/ (cfgFile \in Config /\ cfgFile.backend)
    BY <1>1, <1>2, LoadConfigFacts DEF TypeOK
  <2> QED BY <1>1, <2>1, <2>2, <2>3 DEF NeedsKey
<1>3. CASE OpenConfig(p)
  BY <1>1, <1>3, DataDirConstants DEF OpenConfig, NeedsKey, TypeOK
<1>4. CASE WriteConfig(p)
  BY <1>1, <1>4 DEF WriteConfig, NeedsKey, TypeOK
<1> QED BY <1>2, <1>3, <1>4

LEMMA NextHeld == BaseInv /\ HeldInv /\ [Next]_vars => HeldInv'
<1> SUFFICES ASSUME BaseInv, HeldInv, [Next]_vars PROVE HeldInv'
  OBVIOUS
<1> USE DEF At, Goto, files, locals
<1>1. TypeOK /\ HandsInv /\ OneBusy
  BY DEF BaseInv
<1>2. ASSUME NEW p \in Process, ReadId(p) \/ OpenId(p) \/ WriteId(p) \/ Upload(p)
      PROVE  HeldInv'
  <2>1. UNCHANGED <<keyring, keyFile, setting, cfgFile, cfg, job>>
    BY <1>2 DEF ReadId, OpenId, WriteId, Upload
  <2>2. \A q \in Process : \A x \in KeyStates \cup {"openConfig", "writeConfig", "loadConfig"} :
          pc'[q] = x <=> pc[q] = x
    BY <1>1, <1>2 DEF ReadId, OpenId, WriteId, Upload, TypeOK, KeyStates
  <2>3. NoKeyTouched /\ (NeedsKey' => NeedsKey)
    BY <2>1, <2>2 DEF NoKeyTouched, NeedsKey
  <2> QED BY <2>1, <2>3, HeldAlike
<1>3. ASSUME NEW p \in Process, Begin(p)
      PROVE  HeldInv'
  <2>1. UNCHANGED <<keyring, keyFile, setting, cfgFile, cfg>>
    BY <1>3 DEF Begin
  <2>2. /\ pc[p] = "idle" /\ pc'[p] \in {"readId", "loadConfig", "loadKey"}
        /\ pc'[p] = "loadConfig" => job'[p] = "patch"
        /\ \A q \in Process : q # p => pc'[q] = pc[q] /\ job'[q] = job[q]
    BY <1>1, <1>3 DEF Begin, TypeOK, Job
  <2>3. NoKeyTouched /\ (NeedsKey' => NeedsKey)
    BY <2>1, <2>2 DEF NoKeyTouched, NeedsKey, KeyStates
  <2> QED BY <2>1, <2>3, HeldAlike
<1>4. ASSUME NEW p \in Process, LoadKey(p)
      PROVE  HeldInv'
  <2>1. UNCHANGED <<keyring, keyFile, setting, cfgFile, cfg, job>>
    BY <1>4 DEF LoadKey
  <2>2. CASE pc'[p] # "setKey" /\ pc'[p] # "loadConfig"
    <3>1. pc' = [pc EXCEPT ![p] = "done"] /\ pc[p] = "loadKey"
      BY <1>4, <1>1, <2>2 DEF LoadKey, TypeOK
    <3>2. NoKeyTouched /\ (NeedsKey' => NeedsKey)
      BY <1>1, <2>1, <3>1 DEF NoKeyTouched, NeedsKey, KeyStates, TypeOK
    <3> QED BY <2>1, <3>2, HeldAlike
  <2>3. CASE pc'[p] = "loadConfig"
    <3>1. pc' = [pc EXCEPT ![p] = "loadConfig"] /\ pc[p] = "loadKey" /\ Stored # Absent
      BY <1>4, <1>1, <2>3 DEF LoadKey, TypeOK
    <3>2. HasKey /\ HasKey'
      BY <1>1, <2>1, <3>1, StoredFacts DEF HasKey
    <3>3. \A q \in Process : q # p => pc'[q] = pc[q]
      BY <1>1, <3>1 DEF TypeOK
    <3>4. "overlap" \notin setting => \A q \in Process : pc[q] \notin KeyStates
      BY <1>1, <3>1 DEF OneBusy, Busy, KeyStates
    <3>5. pc'[p] \notin KeyStates
      BY <1>1, <3>1 DEF TypeOK, KeyStates
    <3> QED BY <2>1, <3>2, <3>3, <3>4, <3>5 DEF HeldInv, KeyStates
  <2>4. CASE pc'[p] = "setKey"
    <3>1. pc' = [pc EXCEPT ![p] = "setKey"] /\ pc[p] = "loadKey" /\ Stored = Absent
      BY <1>4, <1>1, <2>4 DEF LoadKey, TypeOK
    <3>2. \A q \in Process : q # p => pc'[q] = pc[q]
      BY <1>1, <3>1 DEF TypeOK
    <3>3. NeedsKey' <=> NeedsKey
      BY <2>1, <2>4, <3>1, <3>2 DEF NeedsKey
    <3>4. HasKey' <=> HasKey
      BY <2>1, <2>4, <3>1, <3>2 DEF HasKey
    <3>5. "overlap" \notin setting => keyring # Absent \/ ~NeedsKey
      <4> SUFFICES ASSUME "overlap" \notin setting, keyring = Absent PROVE ~HasKey
        BY DEF HeldInv
      <4>1. keyFile \notin Key
        BY <1>1, <3>1, StoredFacts DEF Stored, Unsealed
      <4>2. \A q \in Process : pc[q] # "writeKey"
        BY <1>1, <3>1 DEF OneBusy, Busy
      <4> QED BY <4>1, <4>2 DEF HasKey
    <3>6. (~({"overlap", "crash"} \subseteq setting) => (NeedsKey => HasKey))'
      BY <2>1, <3>3, <3>4 DEF HeldInv
    <3>7. ("overlap" \notin setting =>
            \A q \in Process : pc[q] \in {"setKey", "openKey", "writeKey"} =>
              keyring # Absent \/ ~NeedsKey)'
      BY <2>1, <3>2, <3>3, <3>5 DEF HeldInv
    <3>8. (\A q \in Process : pc[q] = "removeKey" => keyring # Absent)'
      BY <2>1, <2>4, <3>2 DEF HeldInv
    <3> QED BY <3>6, <3>7, <3>8 DEF HeldInv
  <2> QED BY <2>2, <2>3, <2>4
<1>5. ASSUME NEW p \in Process, SetKey(p) \/ RemoveKey(p) \/ OpenKey(p) \/ WriteKey(p)
      PROVE  HeldInv'
  <2>1. /\ UNCHANGED <<setting, cfgFile, cfg, job>>
        /\ pc'[p] \in KeyStates \cup {"done"} /\ pc[p] \in KeyStates
        /\ \A q \in Process : q # p => pc'[q] = pc[q]
    BY <1>1, <1>5 DEF SetKey, RemoveKey, OpenKey, WriteKey, TypeOK, KeyStates
  <2>2. NeedsKey' <=> NeedsKey
    BY <2>1 DEF NeedsKey, KeyStates
  <2>3. Absent \notin Key /\ key[p] \in Key
    BY <1>1, <2>1, StoredFacts DEF HandsInv, KeyStates
  <2>4. keyring # Absent => keyring' # Absent
    BY <1>5, <2>3 DEF SetKey, RemoveKey, OpenKey, WriteKey
  <2>5. HasKey => HasKey'
    <3>1. CASE SetKey(p)
      BY <1>1, <2>1, <2>4, <3>1 DEF SetKey, HasKey
    <3>2. CASE RemoveKey(p)
      BY <2>4, <3>2 DEF RemoveKey, HasKey, HeldInv
    <3>3. CASE OpenKey(p)
      BY <1>1, <3>3 DEF OpenKey, HasKey, TypeOK
    <3>4. CASE WriteKey(p)
      BY <2>3, <3>4 DEF WriteKey, HasKey
    <3> QED BY <1>5, <3>1, <3>2, <3>3, <3>4
  <2>6. pc'[p] \in {"openKey", "writeKey"} => pc[p] \in {"setKey", "openKey"}
    BY <1>1, <1>5 DEF SetKey, RemoveKey, OpenKey, WriteKey, TypeOK
  <2>7. pc'[p] = "removeKey" => keyring' # Absent
    BY <1>1, <1>5, <2>3 DEF SetKey, RemoveKey, OpenKey, WriteKey, TypeOK
  <2>8. pc'[p] # "setKey"
    BY <1>1, <1>5 DEF SetKey, RemoveKey, OpenKey, WriteKey, TypeOK
  <2>9. ("overlap" \notin setting =>
          \A q \in Process : pc[q] \in {"setKey", "openKey", "writeKey"} =>
            keyring # Absent \/ ~NeedsKey)'
    BY <2>1, <2>2, <2>4, <2>6, <2>8 DEF HeldInv
  <2>10. (\A q \in Process : pc[q] = "removeKey" => keyring # Absent)'
    BY <2>1, <2>4, <2>7 DEF HeldInv
  <2> QED BY <2>1, <2>2, <2>5, <2>9, <2>10 DEF HeldInv
<1>6. ASSUME NEW p \in Process, LoadConfig(p) \/ OpenConfig(p) \/ WriteConfig(p)
      PROVE  HeldInv'
  <2>1. UNCHANGED <<keyring, keyFile, setting, job>>
    BY <1>6 DEF LoadConfig, OpenConfig, WriteConfig
  <2>2. NoKeyTouched
    BY <1>1, <1>6, <2>1 DEF LoadConfig, OpenConfig, WriteConfig, NoKeyTouched, KeyStates, TypeOK
  <2>3. NeedsKey' => NeedsKey
    BY <1>6, ConfigSteps
  <2> QED BY <2>1, <2>2, <2>3, HeldAlike
<1>7. ASSUME NEW p \in Process, Stop(p)
      PROVE  HeldInv'
  <2>1. /\ UNCHANGED <<keyring, keyFile, setting, cfgFile, cfg, job>>
        /\ pc' = [pc EXCEPT ![p] = "done"]
        /\ pc[p] = "serve" \/ (Busy(p) /\ "crash" \in setting)
    BY <1>7 DEF Stop
  <2>2. pc'[p] = "done" /\ \A q \in Process : q # p => pc'[q] = pc[q]
    BY <1>1, <1>7 DEF Stop, TypeOK
  <2>3. NeedsKey' => NeedsKey
    BY <2>1, <2>2 DEF NeedsKey
  <2>4. (~({"overlap", "crash"} \subseteq setting) => (NeedsKey => HasKey))'
    <3>1. CASE pc[p] = "writeKey" /\ "overlap" \notin setting
      BY <2>1, <2>3, <3>1 DEF HeldInv, HasKey
    <3>2. CASE pc[p] # "writeKey"
      BY <2>1, <2>2, <2>3, <3>2 DEF HeldInv, HasKey
    <3>3. pc[p] = "writeKey" => "crash" \in setting
      BY <1>7 DEF Stop
    <3> QED BY <2>1, <3>1, <3>2, <3>3
  <2>5. ("overlap" \notin setting =>
          \A q \in Process : pc[q] \in {"setKey", "openKey", "writeKey"} =>
            keyring # Absent \/ ~NeedsKey)'
    BY <2>1, <2>2, <2>3 DEF HeldInv
  <2>6. (\A q \in Process : pc[q] = "removeKey" => keyring # Absent)'
    BY <2>1, <2>2 DEF HeldInv
  <2> QED BY <2>4, <2>5, <2>6 DEF HeldInv
<1>8. CASE Lock \/ UNCHANGED vars
  <2>1. UNCHANGED <<keyring, keyFile, setting, cfgFile, cfg, job, pc>>
    BY <1>8 DEF Lock, vars
  <2> QED BY <2>1, HeldAlike DEF NoKeyTouched, NeedsKey
<1> QED BY <1>2, <1>3, <1>4, <1>5, <1>6, <1>7, <1>8 DEF Next

----------------------------------------------------------------------------
(* One key in the bucket.                                                  *)

Calm == setting \cap {"overlap", "lock", "crash"} = {}

\* While the keychain stays as it is and jobs follow each other, the key that
\* loads is the one there is: whoever stores one found none, and sync is not
\* set up before the phrase was shown.
SealInv ==
  Calm =>
    /\ locked => keyring = Absent
    /\ ~locked => keyFile = Absent
    /\ \A p \in Process :
         /\ pc[p] \in {"setKey", "openKey", "writeKey"} => Stored = Absent
         /\ pc[p] \in {"openKey", "writeKey"} => locked
         /\ pc[p] = "removeKey" => ~locked /\ keyring = key[p]
         /\ pc[p] \in KeyStates => ~NeedsKey
         /\ pc[p] = "serve" /\ key[p] # Absent => key[p] = Stored /\ Stored \in shown
    /\ NeedsKey => Stored # Absent
    /\ Stored # Absent => Stored \in shown \/ \E p \in Process : pc[p] = "removeKey"
    /\ \A u \in bucket : u[2] = Stored /\ Stored \in shown

\* Steps that set up nothing and touch no key.
LEMMA SealAlike ==
  ASSUME BaseInv, SealInv, NoKeyTouched, NeedsKey' => NeedsKey,
         UNCHANGED <<locked, shown, bucket, setting>>,
         \A p \in Process : pc[p] \in KeyStates => key'[p] = key[p],
         \A p \in Process : pc'[p] = "serve" =>
           key'[p] = Absent \/ (pc[p] = "serve" /\ key'[p] = key[p])
  PROVE  SealInv'
<1>1. \A p \in Process :
        /\ pc'[p] = "setKey" <=> pc[p] = "setKey"
        /\ pc'[p] = "removeKey" <=> pc[p] = "removeKey"
        /\ pc'[p] = "openKey" <=> pc[p] = "openKey"
        /\ pc'[p] = "writeKey" <=> pc[p] = "writeKey"
  BY DEF NoKeyTouched, KeyStates
<1>2. Stored' = Stored /\ (Calm' <=> Calm) /\ keyring' = keyring /\ keyFile' = keyFile
  BY DEF Stored, NoKeyTouched, Calm, Unsealed
<1> SUFFICES ASSUME Calm PROVE SealInv'
  BY <1>2 DEF SealInv
<1>3. ASSUME NEW p \in Process
      PROVE  /\ pc'[p] \in {"setKey", "openKey", "writeKey"} => Stored' = Absent
             /\ pc'[p] \in {"openKey", "writeKey"} => locked'
             /\ pc'[p] = "removeKey" => ~locked' /\ keyring' = key'[p]
             /\ pc'[p] \in KeyStates => ~NeedsKey'
             /\ pc'[p] = "serve" /\ key'[p] # Absent => key'[p] = Stored' /\ Stored' \in shown'
  BY <1>1, <1>2 DEF SealInv, KeyStates
<1>4. Stored' # Absent => Stored' \in shown' \/ \E p \in Process : pc'[p] = "removeKey"
  BY <1>1, <1>2 DEF SealInv
<1>5. /\ locked' => keyring' = Absent
      /\ ~locked' => keyFile' = Absent
      /\ NeedsKey' => Stored' # Absent
      /\ \A u \in bucket' : u[2] = Stored' /\ Stored' \in shown'
  BY <1>2 DEF SealInv
<1> QED BY <1>3, <1>4, <1>5 DEF SealInv

\* A step of the one process that stores a key: before it none loads, so
\* nothing is uploaded, and sync is not set up.
LEMMA SealStore ==
  ASSUME BaseInv, BaseInv', SealInv, Calm, NEW p \in Process,
         SetKey(p) \/ RemoveKey(p) \/ OpenKey(p) \/ WriteKey(p)
  PROVE  SealInv'
<1> USE DEF At, Goto, files, locals
<1>1. /\ UNCHANGED <<locked, setting, cfgFile, cfg, job, key, bucket>>
      /\ pc[p] \in KeyStates /\ pc'[p] \in KeyStates \cup {"done"}
      /\ \A q \in Process : q # p => pc'[q] = pc[q]
  BY DEF BaseInv, TypeOK, KeyStates, SetKey, RemoveKey, OpenKey, WriteKey
<1>2. /\ Calm' /\ "overlap" \notin setting
      /\ key[p] \in Key /\ Absent \notin Key /\ Empty \notin Key
      /\ shown \subseteq Key /\ TypeOK
  BY <1>1, StoredFacts DEF Calm, BaseInv, TypeOK, HandsInv, KeyStates
<1>3. \A q \in Process : q # p => pc[q] \notin KeyStates /\ pc'[q] \notin KeyStates
  BY <1>1, <1>2 DEF BaseInv, OneBusy, Busy, KeyStates
<1>4. ~NeedsKey /\ ~NeedsKey'
  BY <1>1, <1>2 DEF SealInv, NeedsKey, KeyStates
<1>5. pc[p] # "removeKey" =>
        /\ Stored = Absent
        /\ bucket = {}
        /\ \A q \in Process : pc[q] = "serve" => key[q] = Absent
  BY <1>1, <1>2 DEF SealInv, KeyStates
<1>6. CASE SetKey(p) /\ ~locked
  <2>1. keyring' = key[p] /\ keyFile' = keyFile /\ shown' = shown /\ pc'[p] = "removeKey"
    BY <1>2, <1>6 DEF SetKey, TypeOK
  <2>2. pc[p] = "setKey"
    BY <1>6 DEF SetKey
  <2> QED BY <1>1, <1>2, <1>3, <1>4, <1>5, <1>6, <2>1, <2>2 DEF SealInv, KeyStates
<1>7. CASE (SetKey(p) /\ locked) \/ OpenKey(p)
  <2>1. keyring' = keyring /\ keyFile' \in {keyFile, Empty} /\ shown' = shown
    BY <1>7 DEF SetKey, OpenKey
  <2>2. pc'[p] \in {"openKey", "writeKey"} /\ pc[p] \in {"setKey", "openKey"} /\ locked
    BY <1>2, <1>7 DEF SetKey, OpenKey, TypeOK, SealInv
  <2>3. Stored' = Absent
    BY <1>1, <1>2, <1>5, <2>1, <2>2 DEF Stored, Unsealed
  <2> QED BY <1>1, <1>2, <1>3, <1>4, <1>5, <2>1, <2>2, <2>3 DEF SealInv, KeyStates
<1>8. CASE RemoveKey(p)
  <2>1. /\ keyring' = keyring /\ keyFile' = Absent /\ shown' = shown \cup {key[p]}
        /\ pc'[p] = "done" /\ pc[p] = "removeKey"
    BY <1>2, <1>8 DEF RemoveKey, Show, TypeOK
  <2>2. ~locked /\ keyring = key[p] /\ Stored = key[p] /\ Stored' = key[p]
    BY <1>1, <1>2, <2>1 DEF SealInv, Stored
  <2> QED BY <1>1, <1>2, <1>3, <1>4, <2>1, <2>2 DEF SealInv, KeyStates
<1>9. CASE WriteKey(p)
  <2>1. /\ keyring' = keyring /\ keyFile' = key[p] /\ shown' = shown \cup {key[p]}
        /\ pc'[p] = "done" /\ pc[p] = "writeKey"
    BY <1>2, <1>9 DEF WriteKey, Show, TypeOK
  <2>2. locked /\ keyring = Absent
    BY <1>2, <2>1 DEF SealInv
  <2>3. Stored' = key[p]
    BY <1>1, <1>2, <2>1, <2>2 DEF Stored, Unsealed
  <2> QED BY <1>1, <1>2, <1>3, <1>4, <1>5, <2>1, <2>2, <2>3 DEF SealInv, KeyStates
<1> QED BY <1>6, <1>7, <1>8, <1>9

\* A cycle uploads under the key that loads, which was shown since sync is on.
LEMMA SealUpload ==
  ASSUME BaseInv, SealInv, Calm, NEW p \in Process, Upload(p)
  PROVE  SealInv'
<1> USE DEF At, Goto, files, locals
<1>1. TypeOK /\ SoundInv /\ pc[p] = "serve"
  BY DEF BaseInv, Upload
<1>2. PICK k \in Key :
        /\ k = IF key[p] # Absent THEN key[p] ELSE Stored
        /\ key' = [key EXCEPT ![p] = k]
        /\ bucket' = bucket \cup {<<id[p], k>>}
        /\ UNCHANGED <<files, locked, pc, cfg, job, shown, setting>>
  BY <1>1, StoredFacts DEF Upload, TypeOK
<1>3. NeedsKey
  <2>1. PICK c \in Config : Loads(c) /\ c.backend
    BY DEF Upload
  <2>2. cfgFile \in Config /\ cfgFile.backend
    BY <1>1, <2>1, LoadsFacts DEF Sound
  <2> QED BY <2>2 DEF NeedsKey
<1>4. Stored # Absent /\ Stored \in shown
  BY <1>3 DEF SealInv, KeyStates
<1>5. k = Stored
  BY <1>1, <1>2 DEF SealInv
<1>6. Stored' = Stored /\ Calm' /\ (NeedsKey' <=> NeedsKey)
  BY <1>2 DEF Stored, Unsealed, Calm, NeedsKey
<1>7. \A q \in Process : key'[q] = IF q = p THEN Stored ELSE key[q]
  BY <1>1, <1>2, <1>5 DEF TypeOK
<1>8. \A u \in bucket' : u[2] = Stored' /\ Stored' \in shown'
  BY <1>2, <1>4, <1>5, <1>6 DEF SealInv
<1>9. ASSUME NEW q \in Process
      PROVE  /\ pc'[q] \in {"setKey", "openKey", "writeKey"} => Stored' = Absent
             /\ pc'[q] \in {"openKey", "writeKey"} => locked'
             /\ pc'[q] = "removeKey" => ~locked' /\ keyring' = key'[q]
             /\ pc'[q] \in KeyStates => ~NeedsKey'
             /\ pc'[q] = "serve" /\ key'[q] # Absent => key'[q] = Stored' /\ Stored' \in shown'
  BY <1>1, <1>2, <1>3, <1>4, <1>6, <1>7 DEF SealInv, KeyStates
<1>10. /\ locked' => keyring' = Absent
       /\ ~locked' => keyFile' = Absent
       /\ NeedsKey' => Stored' # Absent
       /\ Stored' # Absent => Stored' \in shown' \/ \E q \in Process : pc'[q] = "removeKey"
  BY <1>2, <1>4, <1>6 DEF SealInv
<1> QED BY <1>8, <1>9, <1>10 DEF SealInv

LEMMA NextSeal == BaseInv /\ SealInv /\ [Next]_vars => SealInv'
<1> SUFFICES ASSUME BaseInv, SealInv, [Next]_vars PROVE SealInv'
  OBVIOUS
<1> USE DEF At, Goto, files, locals
<1>1. TypeOK /\ HandsInv /\ OneBusy /\ BaseInv'
  BY NextBase DEF BaseInv
<1>2. setting' = setting
  BY DEF Next, vars, Begin, ReadId, OpenId, WriteId, LoadKey, SetKey, RemoveKey, OpenKey,
         WriteKey, LoadConfig, OpenConfig, WriteConfig, Upload, Stop, Lock
<1> SUFFICES ASSUME Calm PROVE SealInv'
  BY <1>2 DEF SealInv, Calm
<1>3. ASSUME NEW p \in Process, Begin(p) \/ ReadId(p) \/ OpenId(p) \/ WriteId(p) \/ Stop(p)
      PROVE  SealInv'
  <2>1. UNCHANGED <<keyring, keyFile, locked, shown, bucket, cfgFile, cfg, key>>
    BY <1>3 DEF Begin, ReadId, OpenId, WriteId, Stop
  <2>2. /\ pc[p] \notin KeyStates \cup {"openConfig", "writeConfig", "loadConfig"}
        /\ pc'[p] \notin KeyStates \cup {"openConfig", "writeConfig"}
        /\ pc'[p] = "loadConfig" => job'[p] = "patch"
        /\ pc'[p] = "serve" => pc[p] \in {"readId", "writeId"}
        /\ \A q \in Process : q # p => pc'[q] = pc[q] /\ job'[q] = job[q]
    BY <1>1, <1>3 DEF Begin, ReadId, OpenId, WriteId, Stop, TypeOK, Job, KeyStates, Calm
  <2>3. NoKeyTouched /\ (NeedsKey' => NeedsKey)
    BY <2>1, <2>2 DEF NoKeyTouched, NeedsKey, KeyStates
  <2>4. \A q \in Process : pc'[q] = "serve" =>
          key'[q] = Absent \/ (pc[q] = "serve" /\ key'[q] = key[q])
    BY <1>1, <2>1, <2>2 DEF HandsInv
  <2> QED BY <1>2, <2>1, <2>3, <2>4, SealAlike
<1>4. ASSUME NEW p \in Process, LoadKey(p)
      PROVE  SealInv'
  <2>1. UNCHANGED <<keyring, keyFile, locked, shown, bucket, cfgFile, cfg, job>>
    BY <1>4 DEF LoadKey
  <2>2. /\ pc[p] = "loadKey" /\ pc'[p] \in {"done", "setKey", "loadConfig"}
        /\ \A q \in Process : q # p => pc'[q] = pc[q] /\ key'[q] = key[q]
        /\ pc'[p] = "setKey" <=> (Stored = Absent /\ job[p] # "enable")
        /\ pc'[p] = "loadConfig" => Stored # Absent
    BY <1>1, <1>4 DEF LoadKey, TypeOK
  <2>3. \A q \in Process : pc[q] \notin KeyStates /\ (q # p => pc'[q] \notin KeyStates)
    BY <1>1, <2>2 DEF OneBusy, Busy, Calm, KeyStates
  <2>4. Stored' = Stored /\ Calm'
    BY <1>2, <2>1 DEF Stored, Unsealed, Calm
  <2>5. NeedsKey' => NeedsKey \/ Stored # Absent
    BY <2>1, <2>2 DEF NeedsKey
  <2>6. ASSUME NEW q \in Process
        PROVE  /\ pc'[q] \in {"setKey", "openKey", "writeKey"} => Stored' = Absent
               /\ pc'[q] \in {"openKey", "writeKey"} => locked'
               /\ pc'[q] = "removeKey" => ~locked' /\ keyring' = key'[q]
               /\ pc'[q] \in KeyStates => ~NeedsKey'
               /\ pc'[q] = "serve" /\ key'[q] # Absent => key'[q] = Stored' /\ Stored' \in shown'
    BY <2>1, <2>2, <2>3, <2>4, <2>5 DEF SealInv, KeyStates
  <2>7. /\ locked' => keyring' = Absent
        /\ ~locked' => keyFile' = Absent
        /\ NeedsKey' => Stored' # Absent
        /\ Stored' # Absent => Stored' \in shown' \/ \E q \in Process : pc'[q] = "removeKey"
        /\ \A u \in bucket' : u[2] = Stored' /\ Stored' \in shown'
    BY <2>1, <2>3, <2>4, <2>5 DEF SealInv, KeyStates
  <2> QED BY <2>6, <2>7 DEF SealInv
<1>5. ASSUME NEW p \in Process, SetKey(p) \/ RemoveKey(p) \/ OpenKey(p) \/ WriteKey(p)
      PROVE  SealInv'
  BY <1>1, <1>5, SealStore
<1>6. ASSUME NEW p \in Process, LoadConfig(p) \/ OpenConfig(p) \/ WriteConfig(p)
      PROVE  SealInv'
  <2>1. UNCHANGED <<keyring, keyFile, locked, shown, bucket, key, job>>
    BY <1>6 DEF LoadConfig, OpenConfig, WriteConfig
  <2>2. /\ NoKeyTouched
        /\ \A q \in Process : pc'[q] = "serve" => pc[q] = "serve"
    BY <1>1, <1>6, <2>1 DEF LoadConfig, OpenConfig, WriteConfig, NoKeyTouched, KeyStates, TypeOK
  <2>3. NeedsKey' => NeedsKey
    BY <1>6, ConfigSteps
  <2> QED BY <1>2, <2>1, <2>2, <2>3, SealAlike
<1>7. ASSUME NEW p \in Process, Upload(p) PROVE SealInv'
  BY <1>7, SealUpload
<1>8. CASE UNCHANGED vars
  <2>1. UNCHANGED <<keyring, keyFile, locked, shown, bucket, cfgFile, cfg, key, job, pc>>
    BY <1>8 DEF vars
  <2> QED BY <1>1, <1>2, <2>1, SealAlike DEF NoKeyTouched, NeedsKey, HandsInv
<1>9. ~Lock
  BY DEF Lock, Calm
<1> QED BY <1>3, <1>4, <1>5, <1>6, <1>7, <1>8, <1>9 DEF Next

----------------------------------------------------------------------------
(* Theorems.                                                               *)

IInv == BaseInv /\ IdInv /\ ConfigHeals /\ HeldInv /\ SealInv

LEMMA InitIInv == Init => IInv
<1> SUFFICES ASSUME Init PROVE IInv
  OBVIOUS
<1> USE DataDirConstants DEF Init
<1>1. IdInv /\ ConfigHeals
  BY DEF IdInv, ConfigHeals
<1>2. ~NeedsKey
  BY DEF NeedsKey
<1>3. HeldInv
  BY <1>2 DEF HeldInv
<1>4. Stored = Absent
  BY DEF Stored, Unsealed, Key
<1>5. SealInv
  BY <1>2, <1>4 DEF SealInv, KeyStates
<1> QED BY <1>1, <1>3, <1>5, InitBase DEF IInv

LEMMA NextIInv == IInv /\ [Next]_vars => IInv'
BY NextBase, NextId, NextHeal, NextHeld, NextSeal DEF IInv

\* The inductive invariant holds of every behaviour.
THEOREM Invariance == Spec => []IInv
BY InitIInv, NextIInv, PTL DEF Spec

\* Type correctness of DataDir: in particular nothing is uploaded without an
\* id, and no key is shown that was not stored.
THEOREM TypeCorrect == Spec => []TypeOK
<1>1. IInv => TypeOK
  BY DEF IInv, BaseInv
<1> QED BY <1>1, Invariance, PTL

\* Whatever commands follow each other, in any number, and with the faults
\* each part names, an install has one identity, one key in the bucket that
\* the user has seen, a key for sync that is enabled, and a configuration that
\* loads (paths.go, keystore.go, config.go and their callers in main.go).
THEOREM StaysWhole == Spec => []InstallIsWhole
<1>1. IInv => InstallIsWhole
  <2> SUFFICES ASSUME IInv PROVE InstallIsWhole
    OBVIOUS
  <2>1. OneIdentity
    BY DEF IInv, IdInv, OneIdentity
  <2>2. OneKeyInBucket
    BY DEF IInv, SealInv, OneKeyInBucket, Calm
  <2>3. EnabledHasKey
    <3>1. cfgFile \in Config /\ (cfgFile.enabled \/ cfgFile.backend) => cfgFile.backend
      BY DEF IInv, BaseInv, SoundInv, Sound
    <3> QED BY <3>1 DEF IInv, HeldInv, HasKey, NeedsKey, EnabledHasKey
  <2>4. ConfigHeals
    BY DEF IInv
  <2> QED BY <2>1, <2>2, <2>3, <2>4 DEF InstallIsWhole
<1> QED BY <1>1, Invariance, PTL

\* Once the id file has an id and no process is past the test that found none,
\* it is never written again, by any number of processes that start, stop and
\* die at any moment (paths.go, DeviceID).
THEOREM IdentityIsKept == Spec => IdentitySettles
<1>1. TypeOK /\ [Next]_vars => [Settled => Settled' /\ idFile' = idFile]_vars
  <2> SUFFICES ASSUME TypeOK, Settled, Next PROVE Settled' /\ idFile' = idFile
    OBVIOUS
  <2> USE DataDirConstants DEF At, Goto, files, locals, Settled, TypeOK
  <2>1. ASSUME NEW p \in Process, ReadId(p) PROVE Settled' /\ idFile' = idFile
    BY <2>1 DEF ReadId
  <2>2. ASSUME NEW p \in Process,
               \/ Begin(p) \/ OpenId(p) \/ WriteId(p) \/ Upload(p) \/ Stop(p)
               \/ LoadKey(p) \/ SetKey(p) \/ RemoveKey(p) \/ OpenKey(p) \/ WriteKey(p)
               \/ LoadConfig(p) \/ OpenConfig(p) \/ WriteConfig(p)
        PROVE  Settled' /\ idFile' = idFile
    BY <2>2 DEF Begin, OpenId, WriteId, Upload, Stop, LoadKey, SetKey, RemoveKey, OpenKey,
                WriteKey, LoadConfig, OpenConfig, WriteConfig
  <2>3. CASE Lock
    BY <2>3 DEF Lock
  <2> QED BY <2>1, <2>2, <2>3 DEF Next
<1> QED BY <1>1, TypeCorrect, PTL DEF Spec, IdentitySettles

=============================================================================

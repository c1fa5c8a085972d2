--------------------------- MODULE AppFilesProofs ---------------------------
(***************************************************************************)
(* Proofs about the files of the client (AppFiles).                        *)
(*                                                                         *)
(* The history variable cut never becomes false again, so the inductive    *)
(* invariant says little once it is true.  Before that it says what the    *)
(* next start would find: the files of this release or, where one is       *)
(* absent, what the migration makes of that of the older release, hold the *)
(* user's last choice, apart from the files that a call still due is about *)
(* to write.                                                               *)
(***************************************************************************)
EXTENDS AppFiles, TLAPS

Names == {"config", "state", "session"}

\* A call of that name is still to be made.
Due(name) == \E i \in DOMAIN todo : todo[i].name = name

\* What the next start would find, after the migration
NextOffline ==
  IF files.config # Absent THEN files.config.offline
  ELSE IF Converts("config") /\ legacy.config # Torn THEN Converted("config").offline
  ELSE TRUE

NextSession ==
  IF files.session # Absent THEN files.session
  ELSE IF Converts("session") /\ legacy.session # Torn THEN Converted("session")
  ELSE None

Ended == phase \in {"off", "failed", "unreadable"}
Started == phase \in {"config", "running"}

\* The types, and what holds whether writes were cut or not
Shape ==
  /\ AppFilesTypeOK
  /\ DOMAIN files = Names
  /\ Ended => todo = <<>>
  /\ Len(todo) <= 3 \/ todo[1] = Call("tokens")
  /\ ~Started => memory = NoMemory
  /\ syncing # None => phase = "running"
  /\ FailsOnlyAfterCut

\* The calls that each phase may have before it
CallsInv ==
  \A i \in DOMAIN todo :
    /\ phase = "dir" => todo[i].name = "dir"
    /\ phase = "config" => todo[i].name \in {"boot", "dir"}
    /\ phase = "running" => todo[i].name \in {"config", "export", "state", "session", "tokens"}
    /\ todo[i].name = "dir" => todo[i].strict
    /\ todo[i].name = "boot" => i = 1
    /\ todo[i].name = "export" => exported
    /\ todo[i].name = "tokens" => ~todo[i].strict

\* How far the migration is
MigrationInv ==
  legacy # None =>
    /\ ~stuck => \/ Ended
                 \/ phase = "dir" /\ Len(todo) = 2 /\ stage # "call"
    /\ stuck \/ stage # "config" => files.config # Absent \/ legacy.config = Absent
    /\ ~stuck /\ stage = "archive" => files.session # Absent \/ legacy.session = Absent
    /\ stuck \/ stage = "archive" => legacy.session # Torn
    /\ legacy.session = Torn => files.session = Absent

OfflineInv ==
  /\ ~Due("config") /\ ~Due("export") => NextOffline = chosen.offline
  /\ Started => memory.config.offline = chosen.offline

SessionInv ==
  ~stuck /\ ~late =>
    /\ ~Due("session") => NextSession = chosen.session
    /\ phase = "running" => memory.session = chosen.session
    /\ Due("tokens") => syncing = chosen.session /\ syncing \in Accounts

DeviceInv ==
  ~exported =>
    /\ ~Due("boot") => device = IF files.config = Absent THEN NoDevice ELSE files.config.device
    /\ Started => memory.config.device = device

Uncut ==
  /\ \A f \in Names : files[f] # Torn
  /\ CallsInv /\ MigrationInv /\ OfflineInv /\ SessionInv /\ DeviceInv

FilesInv == Shape /\ (~cut => Uncut)

(***************************************************************************)
(* Configurations, files and calls.                                        *)
(***************************************************************************)

\* A configuration is saved with a server URL, and otherwise as it is.
LEMMA NormalFacts ==
  ASSUME NEW c \in Configs(Prefs \cup {Unset})
  PROVE  /\ normalizeConfig(c) \in Configs(Prefs)
         /\ normalizeConfig(c).offline = c.offline
         /\ normalizeConfig(c).device = c.device
BY AppFilesAssumption DEF Configs, normalizeConfig

\* The default configuration is one.
LEMMA DefaultFacts ==
  /\ DefaultConfig \in Configs(Prefs) /\ DefaultConfig \in Configs(Prefs \cup {Unset})
  /\ DefaultConfig.offline = TRUE /\ DefaultConfig.device = NoDevice
  /\ NoMemory \in Memories /\ NoMemory.config = DefaultConfig
BY AppFilesAssumption DEF Configs, DefaultConfig, NoDevice, NoMemory, Memories

\* What the interface and a local export save of a configuration
LEMMA InterfaceFacts ==
  ASSUME memory \in Memories
  PROVE  /\ memory.config \in Configs(Prefs \cup {Unset})
         /\ InterfaceConfig = memory.config
         /\ SnapshotConfig \in Configs(Prefs \cup {Unset})
         /\ SnapshotConfig.offline = memory.config.offline
<1> DEFINE c == memory.config
<1>1. c \in Configs(Prefs \cup {Unset})
  BY DEF Memories
<1>2. 0 \in 0 .. MaxDevices
  BY AppFilesAssumption
<1> HIDE DEF c
<1>3. /\ [c EXCEPT !.device = 0] \in Configs(Prefs \cup {Unset})
      /\ [c EXCEPT !.device = 0].offline = c.offline
  BY <1>1, <1>2 DEF Configs
<1> QED BY <1>1, <1>3 DEF c, InterfaceConfig, SnapshotConfig, NoDevice

\* What the migration writes: a session is read as it is, or as an empty one.
LEMMA ConvertedFacts ==
  ASSUME Shape
  PROVE  /\ Converts("config") /\ legacy.config # Torn =>
              /\ Converted("config") \in Configs(Prefs)
              /\ Converted("config").device = NoDevice
         /\ Converts("session") /\ legacy.session # Torn =>
              Converted("session") \in Accounts \cup {None}
<1>1. legacy \in Legacies \cup {None}
  BY DEF Shape, AppFilesTypeOK
<1>2. ASSUME Converts("config"), legacy.config # Torn
      PROVE  Converted("config") \in Configs(Prefs) /\ Converted("config").device = NoDevice
  <2>1. legacy.config \in LegacyConfigs
    BY <1>1, <1>2 DEF Converts, Legacies
  <2>2. legacy.config \in Configs(Prefs \cup {Unset}) /\ legacy.config.device = NoDevice
    BY <2>1, AppFilesAssumption DEF LegacyConfigs, Configs, NoDevice
  <2> QED BY <2>2, NormalFacts DEF Converted
<1>3. ASSUME Converts("session"), legacy.session # Torn
      PROVE  Converted("session") \in Accounts \cup {None}
  <2>1. legacy.session \in LegacySessions
    BY <1>1, <1>3 DEF Converts, Legacies
  <2> QED BY <2>1 DEF LegacySessions, Converted, readLegacySession
<1> QED BY <1>2, <1>3

\* A write changes the files that it writes and no other.
LEMMA AfterFacts ==
  ASSUME DOMAIN files = Names, NEW content
  PROVE  /\ DOMAIN After(content) = Names
         /\ \A f \in Names : After(content)[f] = IF f \in Writing THEN content ELSE files[f]
BY DEF After

\* The calls that stay when the first is made
LEMMA TailFacts ==
  ASSUME NEW S, NEW s \in Seq(S), s # <<>>
  PROVE  /\ Len(s) \in Nat /\ Len(s) > 0 /\ Head(s) = s[1] /\ Head(s) \in S
         /\ Tail(s) \in Seq(S) /\ Len(Tail(s)) = Len(s) - 1
         /\ 1 \in DOMAIN s
         /\ \A i \in DOMAIN Tail(s) : i \in Nat /\ i > 0 /\ i + 1 \in DOMAIN s /\ Tail(s)[i] = s[i + 1]
         /\ \A i \in DOMAIN s : i # 1 => i - 1 \in DOMAIN Tail(s) /\ Tail(s)[i - 1] = s[i]
OBVIOUS

\* A call put before the others
LEMMA PrependFacts ==
  ASSUME NEW S, NEW s \in Seq(S), NEW e \in S
  PROVE  /\ <<e>> \o s \in Seq(S) /\ (<<e>> \o s)[1] = e
         /\ Len(s) <= 3 => Len(<<e>> \o s) <= 4
         /\ \A i \in DOMAIN (<<e>> \o s) :
              i = 1 \/ (i - 1 \in DOMAIN s /\ (<<e>> \o s)[i] = s[i - 1])
         /\ \A i \in DOMAIN s : i + 1 \in DOMAIN (<<e>> \o s) /\ (<<e>> \o s)[i + 1] = s[i]
OBVIOUS

\* Once the first call is made, the others are due as before.
LEMMA DueFacts ==
  ASSUME Shape, todo # <<>>, todo' = Tail(todo), NEW name
  PROVE  /\ Due(name)' => Due(name)
         /\ Due(name) => Due(name)' \/ Head(todo).name = name
<1>1. todo \in Seq(Calls)
  BY DEF Shape, AppFilesTypeOK
<1>2. /\ 1 \in DOMAIN todo /\ Head(todo) = todo[1]
      /\ \A i \in DOMAIN todo' : i + 1 \in DOMAIN todo /\ todo'[i] = todo[i + 1]
      /\ \A i \in DOMAIN todo : i # 1 => i - 1 \in DOMAIN todo' /\ todo'[i - 1] = todo[i]
  BY <1>1, TailFacts
<1>3. Due(name)' => Due(name)
  BY <1>2 DEF Due
<1>4. ASSUME Due(name), Head(todo).name # name
      PROVE  Due(name)'
  <2>1. PICK i \in DOMAIN todo : todo[i].name = name
    BY <1>4 DEF Due
  <2>2. i # 1
    BY <1>2, <1>4, <2>1
  <2> QED BY <1>2, <2>1, <2>2 DEF Due
<1> QED BY <1>3, <1>4

\* Nothing is due when no call is left.
LEMMA NoneDue ==
  ASSUME NEW name, todo = <<>>
  PROVE  ~Due(name)
BY DEF Due

\* The first call is typed, and made in its phase.
LEMMA HeadFacts ==
  ASSUME Shape, todo # <<>>
  PROVE  /\ Head(todo) \in Calls /\ Head(todo) = todo[1] /\ 1 \in DOMAIN todo
         /\ Head(todo).name \in {"dir", "boot", "config", "export", "state", "session", "tokens"}
         /\ phase \in {"dir", "config", "running"}
         /\ CallsInv =>
              /\ phase = "dir" => Head(todo).name = "dir"
              /\ phase = "config" => Head(todo).name \in {"boot", "dir"}
              /\ phase = "running" =>
                   Head(todo).name \in {"config", "export", "state", "session", "tokens"}
              /\ Head(todo).name = "dir" => Head(todo).strict
              /\ Head(todo).name = "export" => exported
<1>1. todo \in Seq(Calls)
  BY DEF Shape, AppFilesTypeOK
<1>2. Head(todo) \in Calls /\ 1 \in DOMAIN todo /\ Head(todo) = todo[1]
  BY <1>1, TailFacts
<1>3. phase \in {"dir", "config", "running"}
  BY DEF Shape, AppFilesTypeOK, Ended
<1> QED BY <1>2, <1>3 DEF CallsInv, Calls

LEMMA TailKeepsCalls ==
  ASSUME Shape, CallsInv, todo # <<>>, todo' = Tail(todo), UNCHANGED <<phase, exported>>
  PROVE  CallsInv' /\ ~Due("boot")'
<1>1. todo \in Seq(Calls)
  BY DEF Shape, AppFilesTypeOK
<1>2. \A i \in DOMAIN todo' : i \in Nat /\ i > 0 /\ i + 1 \in DOMAIN todo /\ todo'[i] = todo[i + 1]
  BY <1>1, TailFacts
<1>3. \A i \in DOMAIN todo' : todo'[i].name # "boot"
  BY <1>2 DEF CallsInv
<1>4. CallsInv'
  BY <1>2, <1>3 DEF CallsInv
<1> QED BY <1>3, <1>4 DEF Due

\* The files that a step writes, and the file that a call is about
LEMMA WritingFacts ==
  ASSUME Shape, todo # <<>>
  PROVE  /\ Writing \subseteq Names
         /\ ~Migrating =>
              /\ "config" \in Writing <=> Head(todo).name \in {"boot", "config", "export"}
              /\ "state" \in Writing <=> Head(todo).name = "state"
              /\ "session" \in Writing <=> Head(todo).name \in {"session", "tokens"}
         /\ Migrating => \A f \in Names :
              f \in Writing <=> f = stage /\ Converts(f) /\ legacy[f] # Torn
         /\ FileOf(Head(todo).name) = {} <=> Head(todo).name = "dir"
<1>1. stage \in {"config", "session", "archive", "call"}
  BY DEF Shape, AppFilesTypeOK
<1>2. Head(todo).name \in {"dir", "boot", "config", "export", "state", "session", "tokens"}
  BY HeadFacts
<1>3. /\ FileOf(Head(todo).name) \subseteq Names
      /\ "config" \in FileOf(Head(todo).name) <=> Head(todo).name \in {"boot", "config", "export"}
      /\ "state" \in FileOf(Head(todo).name) <=> Head(todo).name = "state"
      /\ "session" \in FileOf(Head(todo).name) <=> Head(todo).name \in {"session", "tokens"}
  BY <1>2 DEF FileOf, Names
<1>4. FileOf(Head(todo).name) = {} <=> Head(todo).name = "dir"
  BY <1>2, <1>3 DEF FileOf
<1>5. CASE Migrating
  BY <1>1, <1>4, <1>5 DEF Writing, Migrating, Reads, Unparsed, Names
<1>6. CASE ~Migrating
  BY <1>3, <1>4, <1>6 DEF Writing
<1> QED BY <1>5, <1>6

LEMMA SavedFacts ==
  /\ Saved("boot") = normalizeConfig(memory.config)
  /\ Saved("config") = normalizeConfig(InterfaceConfig)
  /\ Saved("export") = normalizeConfig(SnapshotConfig)
  /\ Saved("state") = memory.view
  /\ Saved("session") = IF memory.session = None THEN Absent ELSE memory.session
  /\ Saved("tokens") = syncing
BY DEF Saved

\* The contents that a file can get
Contents(f) ==
  IF f = "config" THEN Configs(Prefs)
  ELSE IF f = "state" THEN Views ELSE Accounts \cup {None, Absent}

LEMMA ContentFacts ==
  ASSUME Shape, todo # <<>>, NEW f \in Writing
  PROVE  f \in Names /\ Content \in Contents(f)
<1>1. f \in Names
  BY WritingFacts
<1>2. memory \in Memories
  BY DEF Shape, AppFilesTypeOK
<1>3. CASE Migrating
  <2>1. f = stage /\ Converts(f) /\ legacy[f] # Torn /\ stage # "state" /\ Content = Converted(f)
    BY <1>1, <1>3, WritingFacts DEF Content, Shape, AppFilesTypeOK
  <2> QED BY <1>1, <2>1, ConvertedFacts DEF Contents, Names
<1>4. CASE ~Migrating
  <2>1. Content = Saved(Head(todo).name)
    BY <1>4 DEF Content
  <2>2. CASE f = "config"
    <3>1. Head(todo).name \in {"boot", "config", "export"}
      BY <1>4, <2>2, WritingFacts
    <3> QED BY <1>1, <1>2, <2>1, <2>2, <3>1, InterfaceFacts, NormalFacts, SavedFacts DEF Contents
  <2>3. CASE f = "state"
    <3>1. Head(todo).name = "state"
      BY <1>4, <2>3, WritingFacts
    <3> QED BY <1>1, <1>2, <2>1, <2>3, <3>1, SavedFacts DEF Contents, Memories
  <2>4. CASE f = "session"
    <3>1. Head(todo).name \in {"session", "tokens"}
      BY <1>4, <2>4, WritingFacts
    <3>2. syncing \in Accounts \cup {None}
      BY DEF Shape, AppFilesTypeOK
    <3> QED BY <1>1, <1>2, <2>1, <2>4, <3>1, <3>2, SavedFacts DEF Contents, Memories
  <2> QED BY <1>1, <2>2, <2>3, <2>4 DEF Names
<1> QED BY <1>1, <1>3, <1>4

\* Files that are left, cut or written keep their types.
LEMMA FilesTyped ==
  ASSUME Shape, DOMAIN files' = Names,
         \A f \in Names : files'[f] \in Contents(f) \cup {files[f], Torn}
  PROVE  /\ files'.config \in Configs(Prefs) \cup {Absent, Torn}
         /\ files'.state \in Views \cup {Absent, Torn}
         /\ files'.session \in Accounts \cup {None, Absent, Torn}
<1>1. /\ files.config \in Configs(Prefs) \cup {Absent, Torn}
      /\ files.state \in Views \cup {Absent, Torn}
      /\ files.session \in Accounts \cup {None, Absent, Torn}
  BY DEF Shape, AppFilesTypeOK
<1> QED BY <1>1 DEF Names, Contents

\* A completed step writes the new contents, and nothing else.
LEMMA StepFacts ==
  ASSUME Shape, Step
  PROVE  /\ DOMAIN files' = Names
         /\ \A f \in Names : files'[f] = IF f \in Writing THEN Content ELSE files[f]
<1>1. DOMAIN files = Names
  BY DEF Shape
<1>2. CASE Writing = {}
  BY <1>1, <1>2 DEF Step
<1>3. CASE Writing # {}
  BY <1>1, <1>3, AfterFacts DEF Step
<1> QED BY <1>2, <1>3

\* A step that is cut short leaves each file old or torn.
LEMMA CutFacts ==
  ASSUME Shape, todo # <<>>, Writing # {}, CutShort
  PROVE  /\ DOMAIN files' = Names
         /\ \A f \in Names : files'[f] \in {files[f], Torn}
<1>1. DOMAIN files = Names
  BY DEF Shape
<1>2. files' = files \/ files' = After(Torn)
  BY DEF CutShort
<1> QED BY <1>1, <1>2, AfterFacts

\* The migration ends with the directory archived or stuck.
LEMMA ArchiveFacts ==
  ASSUME Shape, Archive
  PROVE  /\ legacy' = None \/ (legacy' = legacy /\ stuck')
         /\ stuck' \in BOOLEAN /\ (stuck => stuck')
<1>1. stuck \in BOOLEAN
  BY DEF Shape, AppFilesTypeOK
<1>2. CASE legacy' = None /\ UNCHANGED stuck
  BY <1>1, <1>2, Zenon
<1>3. CASE stuck' = TRUE /\ UNCHANGED legacy
  BY <1>1, <1>3
<1> QED BY <1>2, <1>3 DEF Archive

LEMMA StepShape ==
  ASSUME Shape, Step
  PROVE  Shape'
<1>1. AppFilesTypeOK /\ todo # <<>>
  BY DEF Shape, Step
<1>2. DOMAIN files' = Names
  BY StepFacts
<1>3. \A f \in Names : files'[f] \in Contents(f) \cup {files[f], Torn}
  BY StepFacts, ContentFacts DEF Step
<1>4. /\ files'.config \in Configs(Prefs) \cup {Absent, Torn}
      /\ files'.state \in Views \cup {Absent, Torn}
      /\ files'.session \in Accounts \cup {None, Absent, Torn}
  BY <1>2, <1>3, FilesTyped
<1>5. /\ todo' \in Seq(Calls) /\ Len(todo') <= 4
      /\ Len(todo') <= 3 \/ todo'[1] = Call("tokens")
  <2>1. todo \in Seq(Calls) /\ Len(todo) <= 4 /\ todo # <<>>
    BY <1>1 DEF AppFilesTypeOK, Step
  <2>2. CASE todo' = todo
    BY <2>1, <2>2 DEF Shape
  <2>3. CASE todo' = Tail(todo)
    BY <2>1, <2>3, TailFacts
  <2> QED BY <2>2, <2>3 DEF Step
<1>6. stage' \in {"config", "session", "archive", "call"}
  BY <1>1 DEF Step, NextStage, Migrating, AppFilesTypeOK
<1>7. /\ legacy' = None \/ legacy' = legacy
      /\ stuck' \in BOOLEAN
  BY <1>1, ArchiveFacts DEF Step, AppFilesTypeOK
<1>8. UNCHANGED <<phase, memory, syncing, device, devices, chosen, cut, late, exported>>
  BY DEF Step, deviceVars
<1>9. AppFilesTypeOK'
  BY <1>1, <1>4, <1>5, <1>6, <1>7, <1>8 DEF AppFilesTypeOK
<1>10. ~Ended /\ FailsOnlyAfterCut'
  BY <1>1, <1>8 DEF Shape, Ended, FailsOnlyAfterCut
<1> QED BY <1>2, <1>5, <1>8, <1>9, <1>10 DEF Shape, Ended, Started

\* The error of a call leaves the types as they are, and what the call was to
\* write; it ends the start, or drops the calls that the handler had left.
LEMMA CallFailsShape ==
  ASSUME Shape, todo # <<>>, NEW failure \in {"failed", "unreadable"}, CallFails(failure),
         DOMAIN files' = Names, \A f \in Names : files'[f] \in {files[f], Torn},
         cut' \in BOOLEAN,
         failure = "failed" => cut' \/ \E f \in {"config", "session"} : Converts(f)' /\ legacy[f] = Torn
  PROVE  Shape'
<1>1. AppFilesTypeOK /\ ~Ended
  BY DEF Shape
<1>2. /\ files'.config \in Configs(Prefs) \cup {Absent, Torn}
      /\ files'.state \in Views \cup {Absent, Torn}
      /\ files'.session \in Accounts \cup {None, Absent, Torn}
  BY FilesTyped
<1>3. /\ todo' \in Seq(Calls) /\ Len(todo') <= 3
      /\ Head(todo).strict => todo' = <<>>
  <2>1. todo \in Seq(Calls) /\ Len(todo) <= 4
    BY <1>1 DEF AppFilesTypeOK
  <2>2. CASE todo' = <<>>
    BY <2>2
  <2>3. CASE todo' = Tail(todo) /\ ~Head(todo).strict
    BY <2>1, <2>3, TailFacts
  <2> QED BY <2>2, <2>3 DEF CallFails
<1>4. /\ \/ phase # "running" /\ phase' = failure /\ memory' = NoMemory /\ Head(todo).strict
         \/ UNCHANGED <<phase, memory>>
      /\ stage' = "config"
      /\ UNCHANGED <<legacy, syncing, device, devices, chosen, stuck, late, exported>>
  BY DEF CallFails, deviceVars
<1>5. AppFilesTypeOK'
  BY <1>1, <1>2, <1>3, <1>4, DefaultFacts DEF AppFilesTypeOK
<1>6. FailsOnlyAfterCut'
  BY <1>1, <1>4 DEF FailsOnlyAfterCut, Ended
<1> QED BY <1>1, <1>3, <1>4, <1>5, <1>6 DEF Shape, Ended, Started

\* A write that fails leaves a cut behind.
LEMMA WriteFailsKeeps ==
  ASSUME FilesInv, WriteFails
  PROVE  FilesInv'
<1>1. Shape /\ todo # <<>> /\ Writing # {} /\ CutShort /\ cut' = TRUE /\ CallFails("failed")
  BY DEF FilesInv, WriteFails
<1>2. DOMAIN files' = Names /\ \A f \in Names : files'[f] \in {files[f], Torn}
  BY <1>1, CutFacts
<1> QED BY <1>1, <1>2, CallFailsShape DEF FilesInv

\* Dir fails with the files as they are; without a cut it is a Dir of the start.
LEMMA DirFailsFacts ==
  ASSUME FilesInv, DirFails
  PROVE  /\ Shape' /\ todo # <<>>
         /\ UNCHANGED <<files, legacy, syncing, device, devices, chosen, stuck, late, exported>>
         /\ ~cut' => /\ ~cut /\ phase \in {"dir", "config"} /\ Head(todo).name = "dir"
                     /\ Ended' /\ todo' = <<>> /\ stage' = "config"
<1>1. Shape /\ AppFilesTypeOK /\ todo # <<>> /\ UNCHANGED files
  BY DEF FilesInv, Shape, DirFails
<1>2. cut' = (cut \/ FileOf(Head(todo).name) # {}) /\ cut' \in BOOLEAN
  BY DEF DirFails
<1>3. PICK failure \in {"failed", "unreadable"} :
        CallFails(failure) /\ (failure = "failed" => Unparsed)
  BY DEF DirFails
<1>4. UNCHANGED <<legacy, syncing, device, devices, chosen, stuck, late, exported>>
  BY <1>3 DEF CallFails, deviceVars
<1>5. Unparsed => \E f \in {"config", "session"} : Converts(f)' /\ legacy[f] = Torn
  <2>1. Unparsed => stage \in {"config", "session"} /\ Converts(stage) /\ legacy[stage] = Torn
    BY <1>1 DEF Unparsed, Reads, Migrating, AppFilesTypeOK
  <2>2. \A f : Converts(f)' <=> Converts(f)
    BY <1>1, <1>4 DEF Converts
  <2> QED BY <2>1, <2>2
<1>6. Shape'
  <2>1. DOMAIN files' = Names /\ \A f \in Names : files'[f] \in {files[f], Torn}
    BY <1>1 DEF Shape
  <2> QED BY <1>1, <1>2, <1>3, <1>5, <2>1, CallFailsShape
<1>7. ASSUME ~cut'
      PROVE  /\ ~cut /\ phase \in {"dir", "config"} /\ Head(todo).name = "dir"
             /\ Ended' /\ todo' = <<>> /\ stage' = "config"
  <2>1. ~cut /\ FileOf(Head(todo).name) = {}
    BY <1>2, <1>7
  <2>2. Head(todo).name = "dir"
    BY <1>1, <2>1, WritingFacts
  <2>3. phase \in {"dir", "config"} /\ Head(todo).strict
    BY <1>1, <2>1, <2>2, HeadFacts DEF FilesInv, Uncut
  <2> QED BY <1>3, <2>1, <2>2, <2>3 DEF CallFails, Ended
<1> QED BY <1>1, <1>4, <1>6, <1>7

LEMMA StopShape ==
  ASSUME Shape, Stop
  PROVE  /\ Shape'
         /\ UNCHANGED <<legacy, device, devices, chosen, stuck, late, exported>>
         /\ Ended' /\ todo' = <<>> /\ stage' = "config"
         /\ ~cut' => ~cut /\ todo = <<>> /\ UNCHANGED files
<1>1. AppFilesTypeOK
  BY DEF Shape
<1>2. DOMAIN files' = Names /\ \A f \in Names : files'[f] \in {files[f], Torn}
  BY CutFacts DEF Stop, Shape
<1>3. /\ files'.config \in Configs(Prefs) \cup {Absent, Torn}
      /\ files'.state \in Views \cup {Absent, Torn}
      /\ files'.session \in Accounts \cup {None, Absent, Torn}
  BY <1>2, FilesTyped
<1>4. /\ phase' = "off" /\ memory' = NoMemory /\ todo' = <<>> /\ stage' = "config"
      /\ cut' = (cut \/ todo # <<>>) /\ syncing' = None
      /\ UNCHANGED <<legacy, device, devices, chosen, stuck, late, exported>>
  BY DEF Stop, deviceVars
<1>5. todo' \in Seq(Calls) /\ Len(todo') <= 3
  BY <1>4
<1>6. cut' \in BOOLEAN
  BY <1>4
<1>7. AppFilesTypeOK'
  BY <1>1, <1>3, <1>4, <1>5, <1>6, DefaultFacts DEF AppFilesTypeOK
<1>8. ~cut' => ~cut /\ todo = <<>> /\ UNCHANGED files
  BY <1>4 DEF Stop
<1> QED BY <1>2, <1>4, <1>5, <1>7, <1>8 DEF Shape, Started, Ended, FailsOnlyAfterCut

\* A program that ends, with no call to make and no file changed, keeps what the
\* next start would find.
LEMMA EndKeeps ==
  ASSUME Shape, Uncut, Ended', todo' = <<>>, stage' = "config",
         ~Due("config"), ~Due("export"), ~Due("session"), ~Due("boot"),
         UNCHANGED <<files, legacy, device, chosen, stuck, late, exported>>
  PROVE  Uncut'
<1>1. \A name : ~Due(name)'
  BY DEF Due
<1>2. ~Started'
  BY DEF Ended, Started
<1>3. \A f : (Converts(f)' <=> Converts(f)) /\ Converted(f)' = Converted(f)
  BY DEF Converts, Converted
<1>4. CallsInv' /\ MigrationInv'
  BY DEF Uncut, CallsInv, MigrationInv
<1>5. OfflineInv'
  BY <1>2, <1>3 DEF Uncut, OfflineInv, NextOffline
<1>6. SessionInv'
  BY <1>1, <1>2, <1>3 DEF Uncut, SessionInv, NextSession, Started
<1>7. DeviceInv'
  BY <1>2 DEF Uncut, DeviceInv
<1> QED BY <1>4, <1>5, <1>6, <1>7 DEF Uncut

LEMMA DirFailsKeeps ==
  ASSUME FilesInv, DirFails
  PROVE  FilesInv'
<1>1. ASSUME ~cut'
      PROVE  Uncut'
  <2>1. /\ Shape /\ Uncut /\ todo # <<>> /\ phase \in {"dir", "config"} /\ Head(todo).name = "dir"
        /\ Ended' /\ todo' = <<>> /\ stage' = "config"
        /\ UNCHANGED <<files, legacy, device, chosen, stuck, late, exported>>
    BY <1>1, DirFailsFacts DEF FilesInv
  <2>2. todo[1].name = "dir"
    BY <2>1, HeadFacts
  <2>3. ~Due("config") /\ ~Due("export") /\ ~Due("session") /\ ~Due("boot")
    BY <2>1, <2>2 DEF Due, Uncut, CallsInv
  <2> QED BY <2>1, <2>3, EndKeeps
<1> QED BY <1>1, DirFailsFacts DEF FilesInv

LEMMA StopKeeps ==
  ASSUME FilesInv, Stop
  PROVE  FilesInv'
<1>1. Shape /\ Shape'
  BY StopShape DEF FilesInv
<1>2. ASSUME ~cut'
      PROVE  Uncut'
  <2>1. Uncut /\ todo = <<>>
    BY <1>1, <1>2, StopShape DEF FilesInv
  <2>2. ~Due("config") /\ ~Due("export") /\ ~Due("session") /\ ~Due("boot")
    BY <2>1 DEF Due
  <2> QED BY <1>1, <1>2, <2>1, <2>2, StopShape, EndKeeps
<1> QED BY <1>1, <1>2 DEF FilesInv

(***************************************************************************)
(* The steps of a call: the migration, then the write.                     *)
(***************************************************************************)

\* What a part of the migration leaves alone
LEMMA MigrateFacts ==
  ASSUME Shape, Uncut, Step, Migrating
  PROVE  /\ UNCHANGED <<phase, memory, todo, syncing, device, chosen, late, exported>>
         /\ legacy # None /\ stage \in {"config", "session", "archive"}
         /\ stage' = NextStage[stage]
         /\ stage # "archive" => UNCHANGED <<legacy, stuck>>
         /\ stage = "archive" => files'.config = files.config /\ files'.session = files.session /\ Archive
         /\ \A f \in Names : f # stage => files'[f] = files[f]
         /\ stage # "archive" /\ Converts(stage) =>
              legacy[stage] # Torn /\ files'[stage] = Converted(stage)
         /\ stage # "archive" /\ ~Converts(stage) => files'[stage] = files[stage]
         /\ \A f \in Names : files'[f] # Torn
         /\ \A name : Due(name)' <=> Due(name)
<1>1. AppFilesTypeOK /\ todo # <<>> /\ legacy # None /\ ~Unparsed
  BY DEF Shape, Step, Migrating
<1>2. stage \in {"config", "session", "archive"}
  BY <1>1 DEF AppFilesTypeOK, Migrating
<1>3. \A f \in Names : files'[f] = IF f = stage /\ Converts(f) /\ legacy[f] # Torn
                                    THEN Converted(stage) ELSE files[f]
  BY <1>1, StepFacts, WritingFacts DEF Content
<1>4. stage # "archive" /\ Converts(stage) => legacy[stage] # Torn
  BY <1>1 DEF Unparsed, Reads
<1>5. \A f \in Names : files'[f] # Torn
  <2>1. \A f \in {"config", "session"} : Converts(f) /\ legacy[f] # Torn => Converted(f) # Torn
    BY ConvertedFacts, AppFilesAssumption
  <2> QED BY <1>2, <1>3, <2>1 DEF Uncut, Names
<1>6. \A name : Due(name)' <=> Due(name)
  BY DEF Step, Due
<1>7. stage = "archive" => DOMAIN files' = DOMAIN files /\ \A f \in Names : files'[f] = files[f]
  BY <1>3, StepFacts DEF Shape, Names
<1> QED BY <1>1, <1>2, <1>3, <1>4, <1>5, <1>6, <1>7 DEF Step, deviceVars, Names

LEMMA MigrateConfigKeeps ==
  ASSUME Shape, Uncut, Step, Migrating, stage = "config"
  PROVE  Uncut'
<1>1. /\ files'.session = files.session
      /\ Converts("config") => legacy.config # Torn /\ files'.config = Converted("config")
      /\ ~Converts("config") => files'.config = files.config
  BY MigrateFacts DEF Names
<1>2. stage' = "session" /\ UNCHANGED <<legacy, stuck>> /\ legacy # None
  BY MigrateFacts DEF NextStage
<1>3. UNCHANGED <<phase, memory, todo, syncing, device, chosen, late, exported>>
  BY MigrateFacts
<1>4. Converts("config") => files'.config # Absent /\ files'.config.device = NoDevice
  BY <1>1, ConvertedFacts, AppFilesAssumption
<1>5. CallsInv'
  BY <1>3 DEF Uncut, CallsInv
<1>6. MigrationInv'
  <2>1. files'.config # Absent \/ legacy.config = Absent
    BY <1>1, <1>2, <1>4 DEF Converts
  <2> QED BY <1>1, <1>2, <1>3, <2>1 DEF Uncut, MigrationInv, Ended
<1>7. OfflineInv'
  <2>1. NextOffline' = NextOffline
    <3>1. CASE Converts("config")
      <4>1. NextOffline = Converted("config").offline
        BY <1>1, <3>1 DEF NextOffline, Converts
      <4> QED BY <1>1, <1>4, <3>1, <4>1 DEF NextOffline
    <3>2. CASE ~Converts("config")
      BY <1>1, <1>2, <3>2 DEF NextOffline, Converts, Converted
    <3> QED BY <3>1, <3>2
  <2> QED BY <1>3, <2>1, MigrateFacts DEF Uncut, OfflineInv, Started
<1>8. SessionInv'
  <2>1. NextSession' = NextSession
    BY <1>1, <1>2 DEF NextSession, Converts, Converted
  <2> QED BY <1>2, <1>3, <2>1, MigrateFacts DEF Uncut, SessionInv
<1>9. DeviceInv'
  <2>1. Converts("config") => files.config = Absent
    BY DEF Converts
  <2>2. ~exported /\ ~Due("boot") =>
          device = IF files'.config = Absent THEN NoDevice ELSE files'.config.device
    BY <1>1, <1>4, <2>1 DEF Uncut, DeviceInv
  <2> QED BY <1>3, <2>2, MigrateFacts DEF Uncut, DeviceInv, Started
<1> QED BY <1>5, <1>6, <1>7, <1>8, <1>9, MigrateFacts DEF Uncut

LEMMA MigrateSessionKeeps ==
  ASSUME Shape, Uncut, Step, Migrating, stage = "session"
  PROVE  Uncut'
<1>1. /\ files'.config = files.config
      /\ Converts("session") => legacy.session # Torn /\ files'.session = Converted("session")
      /\ ~Converts("session") => files'.session = files.session
  BY MigrateFacts DEF Names
<1>2. stage' = "archive" /\ UNCHANGED <<legacy, stuck>> /\ legacy # None
  BY MigrateFacts DEF NextStage
<1>3. UNCHANGED <<phase, memory, todo, syncing, device, chosen, late, exported>>
  BY MigrateFacts
<1>4. Converts("session") => files'.session # Absent
  BY <1>1, ConvertedFacts, AppFilesAssumption
<1>5. CallsInv'
  BY <1>3 DEF Uncut, CallsInv
<1>6. MigrationInv'
  <2>1. Absent # Torn
    BY AppFilesAssumption
  <2>2. legacy.session = Torn => files.session = Absent
    BY <1>2 DEF Uncut, MigrationInv
  <2>3. legacy.session # Torn /\ (files'.session # Absent \/ legacy.session = Absent)
    BY <1>1, <1>2, <1>4, <2>1, <2>2 DEF Converts
  <2> QED BY <1>1, <1>2, <1>3, <2>3 DEF Uncut, MigrationInv, Ended
<1>7. OfflineInv'
  <2>1. NextOffline' = NextOffline
    BY <1>1, <1>2 DEF NextOffline, Converts, Converted
  <2> QED BY <1>3, <2>1, MigrateFacts DEF Uncut, OfflineInv, Started
<1>8. SessionInv'
  <2>1. NextSession' = NextSession
    <3>1. CASE Converts("session")
      <4>1. NextSession = Converted("session")
        BY <1>1, <3>1 DEF NextSession, Converts
      <4> QED BY <1>1, <1>4, <3>1, <4>1 DEF NextSession
    <3>2. CASE ~Converts("session")
      BY <1>1, <1>2, <3>2 DEF NextSession, Converts, Converted
    <3> QED BY <3>1, <3>2
  <2> QED BY <1>2, <1>3, <2>1, MigrateFacts DEF Uncut, SessionInv
<1>9. DeviceInv'
  BY <1>1, <1>3, MigrateFacts DEF Uncut, DeviceInv, Started
<1> QED BY <1>5, <1>6, <1>7, <1>8, <1>9, MigrateFacts DEF Uncut

LEMMA MigrateArchiveKeeps ==
  ASSUME Shape, Uncut, Step, Migrating, stage = "archive"
  PROVE  Uncut'
<1>1. /\ files'.config = files.config /\ files'.session = files.session
      /\ legacy # None /\ stage' = "call"
      /\ legacy' = None \/ (legacy' = legacy /\ stuck')
      /\ stuck => stuck'
  BY MigrateFacts, ArchiveFacts DEF NextStage
<1>2. UNCHANGED <<phase, memory, todo, syncing, device, chosen, late, exported>>
  BY MigrateFacts
<1>3. /\ files.config # Absent \/ legacy.config = Absent
      /\ ~stuck => files.session # Absent \/ legacy.session = Absent
      /\ legacy.session # Torn
  BY <1>1 DEF Uncut, MigrationInv
<1>4. CallsInv'
  BY <1>2 DEF Uncut, CallsInv
<1>5. MigrationInv'
  BY <1>1, <1>3 DEF Uncut, MigrationInv
<1>6. OfflineInv'
  <2>1. NextOffline' = NextOffline
    BY <1>1, <1>3 DEF NextOffline, Converts
  <2> QED BY <1>2, <2>1, MigrateFacts DEF Uncut, OfflineInv, Started
<1>7. SessionInv'
  <2>1. ~stuck => NextSession' = NextSession
    BY <1>1, <1>3 DEF NextSession, Converts
  <2> QED BY <1>1, <1>2, <2>1, MigrateFacts DEF Uncut, SessionInv
<1>8. DeviceInv'
  BY <1>1, <1>2, MigrateFacts DEF Uncut, DeviceInv, Started
<1> QED BY <1>4, <1>5, <1>6, <1>7, <1>8, MigrateFacts DEF Uncut

\* A call after its migration: what it writes, and where it may be made
LEMMA CallFacts ==
  ASSUME Shape, Uncut, Step, ~Migrating
  PROVE  /\ UNCHANGED <<phase, memory, syncing, device, chosen, late, exported, legacy, stuck>>
         /\ todo # <<>> /\ todo' = Tail(todo) /\ ~Ended
         /\ legacy # None => /\ stuck /\ (files.config # Absent \/ legacy.config = Absent)
                             /\ legacy.session # Torn
         /\ files'.config = IF Head(todo).name \in {"boot", "config", "export"}
                            THEN Saved(Head(todo).name) ELSE files.config
         /\ files'.session = IF Head(todo).name \in {"session", "tokens"}
                             THEN Saved(Head(todo).name) ELSE files.session
         /\ \A f \in Names : files'[f] # Torn
         /\ Head(todo).name \in {"boot", "config", "export"} => files'.config # Absent /\ Started
         /\ Head(todo).name \in {"session", "tokens"} => phase = "running"
<1>1. AppFilesTypeOK /\ todo # <<>> /\ todo' = Tail(todo) /\ ~Ended
  BY DEF Shape, Step
<1>2. UNCHANGED <<phase, memory, syncing, device, chosen, late, exported, legacy, stuck>>
  BY DEF Step, deviceVars
<1>3. legacy # None => /\ stuck /\ (files.config # Absent \/ legacy.config = Absent)
                       /\ legacy.session # Torn
  BY <1>1 DEF Uncut, MigrationInv, Migrating
<1>4. /\ files'.config = IF Head(todo).name \in {"boot", "config", "export"}
                         THEN Saved(Head(todo).name) ELSE files.config
      /\ files'.session = IF Head(todo).name \in {"session", "tokens"}
                          THEN Saved(Head(todo).name) ELSE files.session
  BY <1>1, StepFacts, WritingFacts DEF Content, Names
<1>5. \A f \in Names : f \in Writing => Content # Torn /\ (f = "config" => Content # Absent)
  BY <1>1, ContentFacts, AppFilesAssumption DEF Contents
<1>6. \A f \in Names : files'[f] # Torn
  BY <1>5, StepFacts DEF Uncut
<1>7. Head(todo).name \in {"boot", "config", "export"} => files'.config # Absent
  BY <1>1, <1>5, StepFacts, WritingFacts DEF Names
<1>8. /\ Head(todo).name \in {"boot", "config", "export"} => Started
      /\ Head(todo).name \in {"session", "tokens"} => phase = "running"
  BY <1>1, HeadFacts DEF Uncut, Started
<1> QED BY <1>1, <1>2, <1>3, <1>4, <1>6, <1>7, <1>8

LEMMA CallKeeps ==
  ASSUME Shape, Uncut, Step, ~Migrating
  PROVE  Uncut'
<1> DEFINE name == Head(todo).name
<1>1. /\ UNCHANGED <<phase, memory, syncing, device, chosen, late, exported, legacy, stuck>>
      /\ todo # <<>> /\ todo' = Tail(todo) /\ ~Ended
      /\ memory \in Memories
  BY CallFacts DEF Shape, AppFilesTypeOK
<1>2. /\ name \in {"boot", "config"} => /\ files'.config.offline = memory.config.offline
                                        /\ files'.config.device = memory.config.device
      /\ name = "export" => files'.config.offline = memory.config.offline
  <2>1. /\ name = "boot" => files'.config = normalizeConfig(memory.config)
        /\ name = "config" => files'.config = normalizeConfig(InterfaceConfig)
        /\ name = "export" => files'.config = normalizeConfig(SnapshotConfig)
    BY CallFacts, SavedFacts
  <2>2. /\ normalizeConfig(memory.config).offline = memory.config.offline
        /\ normalizeConfig(memory.config).device = memory.config.device
        /\ normalizeConfig(SnapshotConfig).offline = SnapshotConfig.offline
    BY <1>1, InterfaceFacts, NormalFacts
  <2> QED BY <1>1, <2>1, <2>2, InterfaceFacts
<1>3. CallsInv' /\ ~Due("boot")'
  BY <1>1, TailKeepsCalls DEF Uncut
<1>4. MigrationInv'
  BY <1>1, CallFacts DEF Uncut, MigrationInv
<1>5. \A f : files'[f] = files[f] => (Converts(f)' <=> Converts(f)) /\ Converted(f)' = Converted(f)
  BY <1>1 DEF Converts, Converted
<1>6. OfflineInv'
  <2>1. Started => memory.config.offline = chosen.offline
    BY DEF Uncut, OfflineInv
  <2>2. CASE name \in {"boot", "config", "export"}
    <3>1. NextOffline' = memory.config.offline
      BY <1>2, <2>2, CallFacts DEF NextOffline
    <3> QED BY <1>1, <2>1, <2>2, <3>1, CallFacts DEF OfflineInv, Started
  <2>3. CASE name \notin {"boot", "config", "export"}
    <3>1. NextOffline' = NextOffline
      BY <1>1, <1>5, <2>3, CallFacts DEF NextOffline
    <3>2. (Due("config") => Due("config")') /\ (Due("export") => Due("export")')
      BY <1>1, <2>3, DueFacts
    <3> QED BY <1>1, <2>1, <3>1, <3>2 DEF Uncut, OfflineInv, Started
  <2> QED BY <2>2, <2>3
<1>7. SessionInv'
  <2>1. CASE stuck \/ late
    BY <1>1, <2>1 DEF SessionInv
  <2>2. CASE ~stuck /\ ~late
    <3>1. Due("tokens")' => syncing = chosen.session /\ syncing \in Accounts
      BY <1>1, <2>2, DueFacts DEF Uncut, SessionInv
    <3>2. phase = "running" => memory.session = chosen.session
      BY <2>2 DEF Uncut, SessionInv
    <3>3. CASE name \in {"session", "tokens"}
      <4>1. legacy' = None /\ phase = "running"
        BY <1>1, <2>2, <3>3, CallFacts
      <4>2. ~Converts("session")'
        BY <4>1 DEF Converts
      <4>3. chosen.session \in Accounts \cup {None} /\ Absent \notin Accounts
        BY <3>2, <4>1, <1>1, AppFilesAssumption DEF Memories
      <4>4. files'.session = IF chosen.session = None THEN Absent ELSE chosen.session
        <5>1. CASE name = "session"
          BY <3>2, <4>1, <5>1, CallFacts, SavedFacts
        <5>2. CASE name = "tokens"
          <6>1. Due("tokens")
            BY <1>1, <5>2, HeadFacts DEF Due
          <6>2. syncing = chosen.session /\ syncing \in Accounts
            BY <2>2, <6>1 DEF Uncut, SessionInv
          <6>3. files'.session = syncing /\ syncing # None
            BY <5>2, <6>2, CallFacts, SavedFacts, AppFilesAssumption
          <6> QED BY <6>2, <6>3
        <5> QED BY <3>3, <5>1, <5>2
      <4>5. NextSession' = chosen.session
        BY <4>2, <4>3, <4>4 DEF NextSession
      <4> QED BY <1>1, <3>1, <3>2, <4>5 DEF SessionInv
    <3>4. CASE name \notin {"session", "tokens"}
      <4>1. NextSession' = NextSession
        BY <1>1, <1>5, <3>4, CallFacts DEF NextSession
      <4>2. Due("session") => Due("session")'
        BY <1>1, <3>4, DueFacts
      <4> QED BY <1>1, <3>1, <4>1, <4>2 DEF Uncut, SessionInv
    <3> QED BY <3>3, <3>4
  <2> QED BY <2>1, <2>2
<1>8. DeviceInv'
  <2>1. name = "export" => exported
    BY <1>1, HeadFacts DEF Uncut
  <2>2. ASSUME ~exported
        PROVE  device = IF files'.config = Absent THEN NoDevice ELSE files'.config.device
    <3>1. CASE name \in {"boot", "config"}
      BY <1>2, <2>2, <3>1, CallFacts DEF Uncut, DeviceInv
    <3>2. CASE name \notin {"boot", "config"}
      <4>1. files'.config = files.config
        BY <2>1, <2>2, <3>2, CallFacts
      <4>2. ~Due("boot")
        BY <1>1, <1>3, <3>2, DueFacts
      <4> QED BY <2>2, <4>1, <4>2 DEF Uncut, DeviceInv
    <3> QED BY <3>1, <3>2
  <2> QED BY <1>1, <2>2 DEF Uncut, DeviceInv, Started
<1> QED BY <1>3, <1>4, <1>6, <1>7, <1>8, CallFacts DEF Uncut

LEMMA StepKeeps ==
  ASSUME FilesInv, Step
  PROVE  FilesInv'
<1>1. Shape /\ Shape' /\ cut' = cut
  BY StepShape DEF FilesInv, Step
<1>2. ASSUME ~cut
      PROVE  Uncut'
  <2>1. Uncut
    BY <1>2 DEF FilesInv
  <2>2. CASE ~Migrating
    BY <1>1, <2>1, <2>2, CallKeeps
  <2>3. CASE Migrating
    <3>1. stage \in {"config", "session", "archive"}
      BY <1>1, <2>1, <2>3, MigrateFacts
    <3> QED BY <1>1, <2>1, <2>3, <3>1, MigrateConfigKeeps, MigrateSessionKeeps, MigrateArchiveKeeps
  <2> QED BY <2>2, <2>3
<1> QED BY <1>1, <1>2 DEF FilesInv

(***************************************************************************)
(* The start.                                                              *)
(***************************************************************************)

LEMMA BootKeeps ==
  ASSUME FilesInv, Boot
  PROVE  FilesInv'
<1>1. /\ Shape /\ AppFilesTypeOK /\ memory = NoMemory
      /\ Ended /\ todo = <<>> /\ syncing = None
      /\ phase' = "dir" /\ todo' = <<Checked("dir"), Checked("dir")>> /\ stage' = "config"
      /\ UNCHANGED <<files, legacy, memory, syncing, device, devices, chosen, cut, stuck, late,
                     exported>>
  BY DEF FilesInv, Shape, Ended, Started, Boot, Goes, diskVars, historyVars, deviceVars
<1>2. /\ todo' \in Seq(Calls) /\ Len(todo') = 2
      /\ \A i \in DOMAIN todo' : todo'[i].name = "dir" /\ todo'[i].strict
  BY <1>1 DEF Checked, Calls
<1>3. AppFilesTypeOK'
  BY <1>1, <1>2 DEF AppFilesTypeOK
<1>4. Shape'
  BY <1>1, <1>2, <1>3 DEF Shape, Ended, Started, FailsOnlyAfterCut
<1>5. ASSUME ~cut
      PROVE  Uncut'
  <2>1. Uncut /\ ~Started
    BY <1>1, <1>5 DEF FilesInv, Ended, Started
  <2>2. \A name \in {"boot", "config", "export", "session", "tokens"} : ~Due(name) /\ ~Due(name)'
    BY <1>1, <1>2 DEF Due
  <2>3. CallsInv'
    BY <1>1, <1>2 DEF CallsInv
  <2>4. MigrationInv'
    BY <1>1, <1>2, <2>1 DEF Uncut, MigrationInv
  <2>5. OfflineInv'
    BY <1>1, <2>1, <2>2 DEF Uncut, OfflineInv, NextOffline, Converts, Converted, Started
  <2>6. SessionInv'
    BY <1>1, <2>1, <2>2 DEF Uncut, SessionInv, NextSession, Converts, Converted
  <2>7. DeviceInv'
    BY <1>1, <2>1, <2>2 DEF Uncut, DeviceInv, Started
  <2> QED BY <1>1, <2>1, <2>3, <2>4, <2>5, <2>6, <2>7 DEF Uncut
<1> QED BY <1>1, <1>4, <1>5 DEF FilesInv

\* A start that cannot read its files leaves them as they are; one that does not
\* parse is one whose write was cut.
LEMMA LoadFailsKeeps ==
  ASSUME FilesInv, todo = <<>>, phase \in {"dir", "config"},
         NEW loaded \in SUBSET Names, LoadFails(loaded)
  PROVE  FilesInv'
<1>1. PICK failure \in {"failed", "unreadable"} :
        BootFails(failure) /\ (failure = "failed" => cut)
  BY DEF LoadFails, FilesInv, Uncut, Parses
<1>2. /\ Shape /\ AppFilesTypeOK /\ phase' = failure /\ memory' = NoMemory /\ todo' = <<>>
      /\ syncing = None
      /\ UNCHANGED <<files, legacy, todo, stage, syncing, device, devices, chosen, cut, stuck, late,
                     exported>>
  BY <1>1 DEF FilesInv, Shape, BootFails, diskVars, progress, historyVars, deviceVars
<1>3. AppFilesTypeOK'
  BY <1>2, DefaultFacts DEF AppFilesTypeOK
<1>4. Shape'
  BY <1>1, <1>2, <1>3 DEF Shape, Ended, Started, FailsOnlyAfterCut
<1>5. ASSUME ~cut
      PROVE  Uncut'
  <2>1. Uncut /\ Ended' /\ ~Started'
    BY <1>2, <1>5 DEF FilesInv, Ended, Started
  <2>2. \A name : ~Due(name) /\ ~Due(name)'
    BY <1>2 DEF Due
  <2>3. CallsInv'
    BY <1>2 DEF CallsInv
  <2>4. MigrationInv'
    BY <1>2, <2>1 DEF Uncut, MigrationInv
  <2>5. OfflineInv'
    BY <1>2, <2>1, <2>2 DEF Uncut, OfflineInv, NextOffline, Converts, Converted
  <2>6. SessionInv'
    BY <1>2, <2>1, <2>2 DEF Uncut, SessionInv, NextSession, Converts, Converted, Started
  <2>7. DeviceInv'
    BY <1>2, <2>1, <2>2 DEF Uncut, DeviceInv
  <2> QED BY <1>2, <2>1, <2>3, <2>4, <2>5, <2>6, <2>7 DEF Uncut
<1> QED BY <1>2, <1>4, <1>5 DEF FilesInv

\* The configuration that a start loads is the one that the last one saved.
LEMMA LoadedFacts ==
  ASSUME Shape, Parses("config")
  PROVE  /\ LoadedConfig \in Configs(Prefs) /\ LoadedConfig \in Configs(Prefs \cup {Unset})
         /\ LoadedConfig.offline = IF files.config = Absent THEN TRUE ELSE files.config.offline
         /\ LoadedConfig.device = IF files.config = Absent THEN NoDevice ELSE files.config.device
<1>1. CASE files.config = Absent
  BY <1>1, DefaultFacts DEF LoadedConfig
<1>2. CASE files.config # Absent
  <2>1. files.config \in Configs(Prefs) /\ files.config \in Configs(Prefs \cup {Unset})
    BY <1>2 DEF Shape, AppFilesTypeOK, Parses, Configs
  <2>2. \A c \in Configs(Prefs) : c \in Configs(Prefs \cup {Unset})
    BY DEF Configs
  <2> QED BY <1>2, <2>1, <2>2, NormalFacts DEF LoadedConfig
<1> QED BY <1>1, <1>2

LEMMA EnsureDeviceFacts ==
  ASSUME NEW config \in Configs(Prefs \cup {Unset}), EnsureDevice(config),
         memory = NoMemory, device \in 0 .. MaxDevices, devices \in 0 .. MaxDevices
  PROVE  /\ memory' \in Memories
         /\ memory'.config.offline = config.offline
         /\ device' \in 0 .. MaxDevices /\ devices' \in 0 .. MaxDevices
         /\ config.device = device => memory'.config.device = device'
<1>1. memory = [config |-> DefaultConfig, view |-> DefaultView, session |-> None]
  BY DEF NoMemory
<1>2. DefaultView \in Views
  BY AppFilesAssumption
<1>3. CASE config.device # NoDevice
  <2>1. memory' = [config |-> config, view |-> DefaultView, session |-> None]
        /\ UNCHANGED <<device, devices>>
    BY <1>1, <1>3 DEF EnsureDevice, deviceVars
  <2> QED BY <1>2, <2>1 DEF Memories
<1>4. CASE config.device = NoDevice
  <2> DEFINE new == [config EXCEPT !.device = devices + 1]
  <2>1. devices \in Nat /\ devices < MaxDevices /\ devices + 1 \in 0 .. MaxDevices
    BY <1>4, AppFilesAssumption DEF EnsureDevice
  <2>2. /\ new \in Configs(Prefs \cup {Unset}) /\ new.offline = config.offline
        /\ new.device = devices + 1
    BY <2>1 DEF Configs
  <2>3. /\ memory' = [memory EXCEPT !.config = new] /\ devices' = devices + 1
        /\ device' = IF device = NoDevice THEN devices + 1 ELSE device
    BY <1>4 DEF EnsureDevice
  <2> HIDE DEF new
  <2>4. memory' = [config |-> new, view |-> DefaultView, session |-> None]
    BY <1>1, <2>3
  <2>5. memory'.config = new /\ memory' \in Memories
    BY <1>2, <2>2, <2>4 DEF Memories
  <2>6. device' \in 0 .. MaxDevices /\ devices' \in 0 .. MaxDevices
    BY <2>1, <2>3
  <2>7. config.device = device => new.device = device'
    BY <1>4, <2>2, <2>3
  <2> QED BY <2>2, <2>5, <2>6, <2>7
<1> QED BY <1>3, <1>4

LEMMA ReadConfigKeeps ==
  ASSUME FilesInv, ReadConfig
  PROVE  FilesInv'
<1>1. CASE LoadFails({"config"})
  BY <1>1, LoadFailsKeeps DEF ReadConfig, Names
<1>2. CASE ~LoadFails({"config"})
  <2>1. /\ Shape /\ AppFilesTypeOK /\ memory = NoMemory /\ todo = <<>> /\ syncing = None
        /\ Parses("config") /\ EnsureDevice(LoadedConfig)
        /\ phase = "dir" /\ phase' = "config" /\ stage' = "config"
        /\ todo' = <<Call("boot"), Checked("dir"), Checked("dir")>>
        /\ UNCHANGED <<files, legacy, syncing, chosen, cut, stuck, late, exported>>
    BY <1>2 DEF FilesInv, Shape, Started, ReadConfig, Goes, diskVars
  <2>2. /\ LoadedConfig \in Configs(Prefs) /\ LoadedConfig \in Configs(Prefs \cup {Unset})
        /\ LoadedConfig.offline = IF files.config = Absent THEN TRUE ELSE files.config.offline
        /\ LoadedConfig.device = IF files.config = Absent THEN NoDevice ELSE files.config.device
    BY <2>1, LoadedFacts
  <2>3. device \in 0 .. MaxDevices /\ devices \in 0 .. MaxDevices
    BY <2>1 DEF AppFilesTypeOK
  <2>4. /\ memory' \in Memories
        /\ memory'.config.offline = LoadedConfig.offline
        /\ device' \in 0 .. MaxDevices /\ devices' \in 0 .. MaxDevices
        /\ LoadedConfig.device = device => memory'.config.device = device'
    BY <2>1, <2>2, <2>3, EnsureDeviceFacts
  <2>5. /\ todo' \in Seq(Calls) /\ Len(todo') = 3
        /\ \A i \in DOMAIN todo' : /\ todo'[i].name \in {"boot", "dir"}
                                   /\ todo'[i].name = "dir" => todo'[i].strict
                                   /\ todo'[i].name = "boot" => i = 1
        /\ 1 \in DOMAIN todo' /\ todo'[1].name = "boot"
    BY <2>1 DEF Call, Checked, Calls
  <2>6. AppFilesTypeOK'
    BY <2>1, <2>4, <2>5 DEF AppFilesTypeOK
  <2>7. Shape'
    BY <2>1, <2>5, <2>6 DEF Shape, Ended, Started, FailsOnlyAfterCut
  <2>8. ASSUME ~cut
        PROVE  Uncut'
    <3>1. Uncut
      BY <2>8 DEF FilesInv
    <3>2. \A name : ~Due(name)
      BY <2>1 DEF Due
    <3>3. Due("boot")' /\ \A name \in {"config", "export", "session", "tokens"} : ~Due(name)'
      BY <2>5 DEF Due
    <3>4. legacy # None => stuck /\ (files.config # Absent \/ legacy.config = Absent)
      BY <2>1, <3>1 DEF Uncut, MigrationInv, Ended
    <3>5. CallsInv'
      BY <2>1, <2>5 DEF CallsInv
    <3>6. MigrationInv'
      BY <2>1, <3>1, <3>4 DEF Uncut, MigrationInv
    <3>7. OfflineInv'
      <4>1. NextOffline = chosen.offline
        BY <3>1, <3>2 DEF Uncut, OfflineInv
      <4>2. NextOffline' = NextOffline
        BY <2>1 DEF NextOffline, Converts, Converted
      <4>3. memory'.config.offline = NextOffline
        BY <2>2, <2>4, <3>4 DEF NextOffline, Converts
      <4> QED BY <2>1, <4>1, <4>2, <4>3 DEF OfflineInv
    <3>8. SessionInv'
      <4>1. NextSession' = NextSession
        BY <2>1 DEF NextSession, Converts, Converted
      <4> QED BY <2>1, <3>1, <3>2, <3>3, <4>1 DEF Uncut, SessionInv
    <3>9. DeviceInv'
      BY <2>1, <2>2, <2>4, <3>1, <3>2, <3>3 DEF Uncut, DeviceInv
    <3> QED BY <2>1, <3>1, <3>5, <3>6, <3>7, <3>8, <3>9 DEF Uncut
  <2> QED BY <2>1, <2>7, <2>8 DEF FilesInv
<1> QED BY <1>1, <1>2

LEMMA ReadRestKeeps ==
  ASSUME FilesInv, ReadRest
  PROVE  FilesInv'
<1>1. CASE LoadFails({"state", "session"})
  BY <1>1, LoadFailsKeeps DEF ReadRest, Names
<1>2. CASE ~LoadFails({"state", "session"})
  <2>1. /\ Shape /\ AppFilesTypeOK /\ todo = <<>> /\ syncing = None
        /\ Parses("state") /\ Parses("session") /\ RestoreSession
        /\ phase = "config" /\ phase' = "running" /\ stage' = "config"
        /\ todo' = <<>> \/ todo' = <<Call("session")>>
    BY <1>2 DEF FilesInv, Shape, ReadRest, RestoreSession, Goes
  <2>2. PICK account :
          /\ Runs(account)
          /\ \/ account = LoadedSession /\ UNCHANGED chosen
             \/ /\ account = None /\ chosen' = [chosen EXCEPT !.session = None]
                /\ todo' = <<Call("session")>>
    BY <2>1 DEF RestoreSession, Goes
  <2>3. /\ UNCHANGED <<files, legacy, syncing, device, devices, cut, stuck, late, exported>>
        /\ memory' = [memory EXCEPT !.view = LoadedView, !.session = account]
    BY <2>2 DEF Runs, diskVars, deviceVars
  <2>4. LoadedView \in Views /\ LoadedSession \in Accounts \cup {None}
    BY <2>1, AppFilesAssumption DEF AppFilesTypeOK, Parses, LoadedView, LoadedSession
  <2>5. /\ memory' \in Memories /\ memory'.config = memory.config /\ memory'.session = account
    <3>1. memory \in Memories /\ account \in Accounts \cup {None}
      BY <2>1, <2>2, <2>4 DEF AppFilesTypeOK
    <3> QED BY <2>3, <2>4, <3>1 DEF Memories
  <2>6. /\ todo' \in Seq(Calls) /\ Len(todo') <= 3
        /\ \A i \in DOMAIN todo' : todo'[i].name = "session"
        /\ todo' = <<Call("session")>> => Due("session")'
    <3>1. Call("session") \in Calls /\ Call("session").name = "session"
      BY DEF Call, Calls
    <3>2. CASE todo' = <<>>
      BY <3>2
    <3>3. CASE todo' = <<Call("session")>>
      BY <3>1, <3>3 DEF Due
    <3> QED BY <2>1, <3>2, <3>3
  <2>7. /\ chosen' \in [offline : BOOLEAN, session : Accounts \cup {None}]
        /\ chosen'.offline = chosen.offline
        /\ \/ account = LoadedSession /\ UNCHANGED chosen
           \/ account = None /\ chosen'.session = None /\ todo' = <<Call("session")>>
    <3>1. chosen \in [offline : BOOLEAN, session : Accounts \cup {None}]
      BY <2>1 DEF AppFilesTypeOK
    <3> QED BY <2>2, <3>1
  <2>8. AppFilesTypeOK'
    BY <2>1, <2>3, <2>5, <2>6, <2>7 DEF AppFilesTypeOK
  <2>9. Shape'
    BY <2>1, <2>3, <2>6, <2>8 DEF Shape, Ended, Started, FailsOnlyAfterCut
  <2>10. ASSUME ~cut
         PROVE  Uncut'
    <3>1. Uncut
      BY <2>10 DEF FilesInv
    <3>2. \A name : ~Due(name)
      BY <2>1 DEF Due
    <3>3. \A name \in {"boot", "config", "export", "tokens"} : ~Due(name)'
      BY <2>6 DEF Due
    <3>4. legacy # None => stuck
      BY <2>1, <3>1 DEF Uncut, MigrationInv, Ended
    <3>5. CallsInv'
      BY <2>1, <2>6 DEF CallsInv
    <3>6. MigrationInv'
      BY <2>1, <2>3, <3>1, <3>4 DEF Uncut, MigrationInv
    <3>7. OfflineInv'
      <4>1. NextOffline' = NextOffline
        BY <2>3 DEF NextOffline, Converts, Converted
      <4> QED BY <2>1, <2>3, <2>5, <2>7, <3>1, <3>2, <4>1 DEF Uncut, OfflineInv, Started
    <3>8. SessionInv'
      <4>1. CASE stuck \/ late
        BY <2>3, <4>1 DEF SessionInv
      <4>2. CASE ~stuck /\ ~late
        <5>1. NextSession = LoadedSession /\ NextSession' = LoadedSession
          BY <2>3, <3>4, <4>2 DEF NextSession, LoadedSession, Converts
        <5>2. NextSession = chosen.session
          BY <3>1, <3>2, <4>2 DEF Uncut, SessionInv
        <5> QED BY <2>5, <2>6, <2>7, <3>3, <5>1, <5>2 DEF SessionInv
      <4> QED BY <4>1, <4>2
    <3>9. DeviceInv'
      BY <2>1, <2>3, <2>5, <3>1, <3>2 DEF Uncut, DeviceInv, Started
    <3> QED BY <2>3, <3>1, <3>5, <3>6, <3>7, <3>8, <3>9 DEF Uncut
  <2> QED BY <2>3, <2>9, <2>10 DEF FilesInv
<1> QED BY <1>1, <1>2

(***************************************************************************)
(* The cycles.                                                             *)
(***************************************************************************)

\* A cycle that starts or ends, with no token to be written, changes no file.
LEMMA RunKeeps ==
  ASSUME FilesInv, KeepsFiles, UNCHANGED <<todo, late>>,
         phase = "running", syncing' \in Accounts \cup {None}, ~cut => ~Due("tokens")
  PROVE  FilesInv'
<1>1. /\ Shape /\ AppFilesTypeOK
      /\ UNCHANGED <<files, legacy, phase, memory, todo, stage, device, devices, chosen, cut, stuck,
                     late, exported>>
  BY DEF FilesInv, Shape, KeepsFiles, diskVars, deviceVars
<1>2. AppFilesTypeOK'
  BY <1>1 DEF AppFilesTypeOK
<1>3. Shape'
  BY <1>1, <1>2 DEF Shape, Ended, Started, FailsOnlyAfterCut
<1>4. ASSUME ~cut
      PROVE  Uncut'
  <2>1. Uncut
    BY <1>4 DEF FilesInv
  <2>2. \A name : Due(name)' <=> Due(name)
    BY <1>1 DEF Due
  <2>3. CallsInv' /\ MigrationInv'
    BY <1>1, <2>1 DEF Uncut, CallsInv, MigrationInv, Ended
  <2>4. OfflineInv'
    BY <1>1, <2>1, <2>2 DEF Uncut, OfflineInv, NextOffline, Converts, Converted, Started
  <2>5. SessionInv'
    BY <1>1, <1>4, <2>1, <2>2 DEF Uncut, SessionInv, NextSession, Converts, Converted
  <2>6. DeviceInv'
    BY <1>1, <2>1, <2>2 DEF Uncut, DeviceInv, Started
  <2> QED BY <1>1, <2>1, <2>3, <2>4, <2>5, <2>6 DEF Uncut
<1> QED BY <1>1, <1>3, <1>4 DEF FilesInv

\* The tokens are written before the calls that the handler has left, so they
\* must be those of the user's last choice.
LEMMA OnTokensKeeps ==
  ASSUME FilesInv, OnTokens
  PROVE  FilesInv'
<1>1. /\ Shape /\ AppFilesTypeOK /\ phase = "running" /\ syncing \in Accounts
      /\ todo' = <<Call("tokens")>> \o todo
      /\ UNCHANGED <<files, legacy, phase, memory, stage, syncing, device, devices, chosen, cut, stuck,
                     exported>>
  BY DEF FilesInv, Shape, AppFilesTypeOK, OnTokens, KeepsFiles, diskVars, deviceVars
<1>2. late' \in BOOLEAN /\ (~late' => ~late /\ syncing = chosen.session)
  BY <1>1 DEF OnTokens
<1>3. Call("tokens") \in Calls /\ Call("tokens").name = "tokens" /\ ~Call("tokens").strict
  BY DEF Call, Calls
<1>4. todo \in Seq(Calls) /\ Len(todo) <= 3
  <2>1. todo \in Seq(Calls) /\ Len(todo) <= 4
    BY <1>1 DEF AppFilesTypeOK
  <2>2. ASSUME Len(todo) = 4
        PROVE  FALSE
    <3>1. todo[1] = Call("tokens") /\ 1 \in DOMAIN todo
      BY <1>1, <2>1, <2>2 DEF Shape
    <3> QED BY <3>1 DEF OnTokens
  <2> DEFINE n == Len(todo)
  <2>3. n \in Nat /\ n <= 4 /\ n # 4
    BY <2>1, <2>2
  <2> HIDE DEF n
  <2>4. n <= 3
    BY <2>3
  <2> QED BY <2>1, <2>4 DEF n
<1>5. /\ todo' \in Seq(Calls) /\ Len(todo') <= 4 /\ todo'[1] = Call("tokens")
      /\ \A i \in DOMAIN todo' : i = 1 \/ (i - 1 \in DOMAIN todo /\ todo'[i] = todo[i - 1])
      /\ \A i \in DOMAIN todo : i + 1 \in DOMAIN todo' /\ todo'[i + 1] = todo[i]
  BY <1>1, <1>3, <1>4, PrependFacts
<1>6. AppFilesTypeOK'
  BY <1>1, <1>2, <1>5 DEF AppFilesTypeOK
<1>7. Shape'
  BY <1>1, <1>5, <1>6 DEF Shape, Ended, Started, FailsOnlyAfterCut
<1>8. ASSUME ~cut
      PROVE  Uncut'
  <2>1. Uncut
    BY <1>8 DEF FilesInv
  <2>2. \A name : name # "tokens" => (Due(name)' <=> Due(name))
    BY <1>3, <1>5 DEF Due
  <2>3. \A i \in DOMAIN todo : todo[i].name # "boot"
    BY <1>1, <2>1 DEF Uncut, CallsInv
  <2>4. CallsInv'
    BY <1>1, <1>3, <1>5, <2>1, <2>3 DEF Uncut, CallsInv
  <2>5. MigrationInv'
    BY <1>1, <2>1 DEF Uncut, MigrationInv, Ended
  <2>6. OfflineInv'
    BY <1>1, <2>1, <2>2 DEF Uncut, OfflineInv, NextOffline, Converts, Converted, Started
  <2>7. SessionInv'
    BY <1>1, <1>2, <2>1, <2>2 DEF Uncut, SessionInv, NextSession, Converts, Converted
  <2>8. DeviceInv'
    BY <1>1, <2>1, <2>2 DEF Uncut, DeviceInv, Started
  <2> QED BY <1>1, <2>1, <2>4, <2>5, <2>6, <2>7, <2>8 DEF Uncut
<1> QED BY <1>1, <1>7, <1>8 DEF FilesInv

LEMMA CycleKeeps ==
  ASSUME FilesInv, Cycle
  PROVE  FilesInv'
<1>1. AppFilesTypeOK /\ (syncing # None => phase = "running")
  BY DEF FilesInv, Shape
<1>2. CASE StartRun
  <2>1. todo = <<>> /\ phase = "running" /\ UNCHANGED <<todo, late>> /\ KeepsFiles
    BY <1>2 DEF StartRun, Ready
  <2>2. syncing' \in Accounts \cup {None}
    BY <1>1, <1>2 DEF StartRun, AppFilesTypeOK, Memories
  <2> QED BY <2>1, <2>2, NoneDue, RunKeeps
<1>3. CASE EndRun
  <2>1. phase = "running" /\ UNCHANGED <<todo, late>> /\ KeepsFiles /\ syncing' \in Accounts \cup {None}
    BY <1>1, <1>3 DEF EndRun
  <2>2. ASSUME ~cut, Due("tokens")
        PROVE  FALSE
    <3>1. PICK i \in DOMAIN todo : todo[i].name = "tokens"
      BY <2>2 DEF Due
    <3>2. todo[i] \in Calls /\ ~todo[i].strict
      BY <1>1, <2>2, <3>1 DEF FilesInv, Uncut, CallsInv, AppFilesTypeOK
    <3>3. todo[i] = Call("tokens")
      BY <3>1, <3>2 DEF Calls, Call
    <3> QED BY <1>3, <3>3 DEF EndRun
  <2> QED BY <2>1, <2>2, RunKeeps
<1>4. CASE OnTokens
  BY <1>4, OnTokensKeeps
<1> QED BY <1>2, <1>3, <1>4 DEF Cycle

(***************************************************************************)
(* The handlers that save.                                                 *)
(***************************************************************************)

\* A handler keeps the invariant when a call of its own writes each choice that
\* it changes, in the memory as in the history.
LEMMA SavesKeep ==
  ASSUME FilesInv, NEW calls, Saves(calls),
         calls \in Seq(Calls), Len(calls) <= 3,
         \A i \in DOMAIN calls : calls[i].name \in {"config", "export", "state", "session"},
         (\E i \in DOMAIN calls : calls[i].name = "export") => exported',
         memory' \in Memories, memory'.config.device = memory.config.device,
         chosen' \in [offline : BOOLEAN, session : Accounts \cup {None}],
         memory.config.offline = chosen.offline => memory'.config.offline = chosen'.offline,
         memory.session = chosen.session => memory'.session = chosen'.session,
         \/ chosen'.offline = chosen.offline
         \/ \E i \in DOMAIN calls : calls[i].name \in {"config", "export"},
         \/ chosen'.session = chosen.session
         \/ \E i \in DOMAIN calls : calls[i].name = "session",
         exported' \in {exported, TRUE}
  PROVE  FilesInv'
<1>1. /\ Shape /\ AppFilesTypeOK /\ todo = <<>> /\ todo' = calls
      /\ phase = "running" /\ Started /\ ~Ended
      /\ UNCHANGED <<files, legacy, phase, stage, syncing, device, devices, cut, stuck, late>>
  BY DEF FilesInv, Shape, Saves, Ready, Started, Ended, diskVars, deviceVars
<1>2. cut' = cut
  BY DEF Saves
<1>3. exported' \in BOOLEAN /\ (exported => exported')
  <2>1. exported \in BOOLEAN
    BY <1>1 DEF AppFilesTypeOK
  <2>2. CASE exported' = exported
    BY <2>1, <2>2, Zenon
  <2>3. CASE exported' = TRUE
    <3>1. exported' \in BOOLEAN
      BY <2>3
    <3> QED BY <2>3, <3>1, Zenon
  <2> QED BY <2>2, <2>3
<1>4. AppFilesTypeOK'
  BY <1>1, <1>3 DEF AppFilesTypeOK
<1>5. Shape'
  BY <1>1, <1>4 DEF Shape, Ended, Started, FailsOnlyAfterCut
<1>6. ASSUME ~cut
      PROVE  Uncut'
  <2>1. Uncut
    BY <1>6 DEF FilesInv
  <2>2. \A name : ~Due(name)
    BY <1>1 DEF Due
  <2>3. legacy # None => stuck
    BY <1>1, <2>1 DEF Uncut, MigrationInv
  <2>4. CallsInv' /\ ~Due("tokens")'
    BY <1>1 DEF CallsInv, Due
  <2>5. MigrationInv'
    BY <1>1, <2>1, <2>3 DEF Uncut, MigrationInv
  <2>6. NextOffline' = NextOffline /\ NextSession' = NextSession
    BY <1>1 DEF NextOffline, NextSession, Converts, Converted
  <2>7. OfflineInv'
    <3>1. NextOffline = chosen.offline /\ memory.config.offline = chosen.offline
      BY <1>1, <2>1, <2>2 DEF Uncut, OfflineInv
    <3>2. chosen'.offline = chosen.offline \/ Due("config")' \/ Due("export")'
      BY <1>1 DEF Due
    <3> QED BY <2>6, <3>1, <3>2 DEF OfflineInv
  <2>8. SessionInv'
    <3>1. ~stuck /\ ~late => NextSession = chosen.session /\ memory.session = chosen.session
      BY <1>1, <2>1, <2>2 DEF Uncut, SessionInv
    <3>2. chosen'.session = chosen.session \/ Due("session")'
      BY <1>1 DEF Due
    <3> QED BY <1>1, <2>4, <2>6, <3>1, <3>2 DEF SessionInv
  <2>9. DeviceInv'
    BY <1>1, <1>3, <2>1, <2>2 DEF Uncut, DeviceInv
  <2> QED BY <1>1, <2>1, <2>4, <2>5, <2>7, <2>8, <2>9 DEF Uncut
<1> QED BY <1>1, <1>2, <1>5, <1>6 DEF FilesInv

LEMMA HandlersKeep ==
  ASSUME FilesInv, Handlers
  PROVE  FilesInv'
<1>1. /\ memory \in Memories /\ chosen \in [offline : BOOLEAN, session : Accounts \cup {None}]
  BY DEF FilesInv, Shape, AppFilesTypeOK
<1>2. /\ \A name \in {"config", "export", "state", "session"} :
           /\ Call(name) \in Calls /\ Call(name).name = name
           /\ Checked(name) \in Calls /\ Checked(name).name = name
  BY DEF Call, Checked, Calls
<1>3. CASE Logout
  <2>1. memory' = [memory EXCEPT !.session = None] /\ chosen' = [chosen EXCEPT !.session = None]
        /\ Saves(<<Call("session")>>) /\ UNCHANGED exported
    BY <1>3 DEF Logout
  <2>2. memory' \in Memories /\ memory'.config = memory.config /\ memory'.session = None
    BY <1>1, <2>1 DEF Memories
  <2>3. /\ chosen' \in [offline : BOOLEAN, session : Accounts \cup {None}]
        /\ chosen'.offline = chosen.offline /\ chosen'.session = None
    BY <1>1, <2>1
  <2> DEFINE calls == <<Call("session")>>
  <2>4. /\ calls \in Seq(Calls) /\ Len(calls) <= 3
        /\ \A i \in DOMAIN calls : calls[i].name = "session"
        /\ \E i \in DOMAIN calls : calls[i].name = "session"
    BY <1>2
  <2> HIDE DEF calls
  <2>5. Saves(calls)
    BY <2>1 DEF calls
  <2> QED BY <2>1, <2>2, <2>3, <2>4, <2>5, SavesKeep
<1>4. CASE ToggleOffline
  <2>1. /\ memory' = [memory EXCEPT !.config.offline = ~memory.config.offline]
        /\ chosen' = [chosen EXCEPT !.offline = ~memory.config.offline]
        /\ Saves(<<Call("config")>>) /\ UNCHANGED exported
    BY <1>4 DEF ToggleOffline
  <2>2. /\ memory' \in Memories /\ memory'.config.device = memory.config.device
        /\ memory'.config.offline = ~memory.config.offline /\ memory'.session = memory.session
    BY <1>1, <2>1 DEF Memories, Configs
  <2>3. /\ chosen' \in [offline : BOOLEAN, session : Accounts \cup {None}]
        /\ chosen'.offline = ~memory.config.offline /\ chosen'.session = chosen.session
    BY <1>1, <2>1 DEF Memories, Configs
  <2> DEFINE calls == <<Call("config")>>
  <2>4. /\ calls \in Seq(Calls) /\ Len(calls) <= 3
        /\ \A i \in DOMAIN calls : calls[i].name = "config"
        /\ \E i \in DOMAIN calls : calls[i].name = "config"
    BY <1>2
  <2> HIDE DEF calls
  <2>5. Saves(calls)
    BY <2>1 DEF calls
  <2> QED BY <2>1, <2>2, <2>3, <2>4, <2>5, SavesKeep
<1>5. CASE ExportLocal
  <2>1. /\ UNCHANGED <<memory, chosen>> /\ exported' = TRUE
        /\ Saves(<<Checked("export"), Checked("state")>>)
    BY <1>5 DEF ExportLocal
  <2> DEFINE calls == <<Checked("export"), Checked("state")>>
  <2>2. /\ calls \in Seq(Calls) /\ Len(calls) <= 3
        /\ \A i \in DOMAIN calls : calls[i].name \in {"export", "state"}
    BY <1>2
  <2> HIDE DEF calls
  <2>3. Saves(calls)
    BY <2>1 DEF calls
  <2> QED BY <1>1, <2>1, <2>2, <2>3, SavesKeep
<1>6. ASSUME NEW a \in Accounts, HandleAuthResult(a)
      PROVE  FilesInv'
  <2>1. /\ memory' = [memory EXCEPT !.session = a, !.config.offline = FALSE]
        /\ chosen' = [session |-> a, offline |-> FALSE]
        /\ Saves(<<Call("session"), Call("config"), Call("state")>>)
        /\ UNCHANGED exported
    BY <1>6 DEF HandleAuthResult
  <2>2. /\ memory' \in Memories /\ memory'.config.device = memory.config.device
        /\ memory'.config.offline = FALSE /\ memory'.session = a
    BY <1>1, <2>1 DEF Memories, Configs
  <2>3. /\ chosen' \in [offline : BOOLEAN, session : Accounts \cup {None}]
        /\ chosen'.offline = FALSE /\ chosen'.session = a
    BY <2>1
  <2> DEFINE calls == <<Call("session"), Call("config"), Call("state")>>
  <2>4. /\ calls \in Seq(Calls) /\ Len(calls) <= 3
        /\ \A i \in DOMAIN calls : calls[i].name \in {"session", "config", "state"}
        /\ 1 \in DOMAIN calls /\ 2 \in DOMAIN calls
        /\ calls[1].name = "session" /\ calls[2].name = "config"
    BY <1>2
  <2> HIDE DEF calls
  <2>5. Saves(calls)
    BY <2>1 DEF calls
  <2> QED BY <2>1, <2>2, <2>3, <2>4, <2>5, SavesKeep
<1>7. ASSUME NEW p \in Prefs, ChangeTheme(p)
      PROVE  FilesInv'
  <2>1. /\ memory' = [memory EXCEPT !.config.prefs = p] /\ Saves(<<>>)
        /\ UNCHANGED <<chosen, exported>>
    BY <1>7 DEF ChangeTheme
  <2>2. /\ memory' \in Memories /\ memory'.config.device = memory.config.device
        /\ memory'.config.offline = memory.config.offline /\ memory'.session = memory.session
    BY <1>1, <2>1 DEF Memories, Configs
  <2> DEFINE calls == <<>>
  <2>3. calls \in Seq(Calls) /\ Len(calls) <= 3 /\ DOMAIN calls = {}
    OBVIOUS
  <2> HIDE DEF calls
  <2>4. Saves(calls)
    BY <2>1 DEF calls
  <2> QED BY <1>1, <2>1, <2>2, <2>3, <2>4, SavesKeep
<1>8. ASSUME NEW p \in Prefs, SaveSettings(p)
      PROVE  FilesInv'
  <2>1. /\ memory' = [memory EXCEPT !.config.prefs = p]
        /\ Saves(<<Checked("config"), Call("state")>>)
        /\ UNCHANGED <<chosen, exported>>
    BY <1>8 DEF SaveSettings
  <2>2. /\ memory' \in Memories /\ memory'.config.device = memory.config.device
        /\ memory'.config.offline = memory.config.offline /\ memory'.session = memory.session
    BY <1>1, <2>1 DEF Memories, Configs
  <2> DEFINE calls == <<Checked("config"), Call("state")>>
  <2>3. /\ calls \in Seq(Calls) /\ Len(calls) <= 3
        /\ \A i \in DOMAIN calls : calls[i].name \in {"config", "state"}
    BY <1>2
  <2> HIDE DEF calls
  <2>4. Saves(calls)
    BY <2>1 DEF calls
  <2> QED BY <1>1, <2>1, <2>2, <2>3, <2>4, SavesKeep
<1>9. ASSUME NEW v \in Views, PersistState(v)
      PROVE  FilesInv'
  <2>1. memory' = [memory EXCEPT !.view = v] /\ Saves(<<Call("state")>>)
        /\ UNCHANGED <<chosen, exported>>
    BY <1>9 DEF PersistState
  <2>2. memory' \in Memories /\ memory'.config = memory.config /\ memory'.session = memory.session
    BY <1>1, <2>1 DEF Memories
  <2> DEFINE calls == <<Call("state")>>
  <2>3. /\ calls \in Seq(Calls) /\ Len(calls) <= 3
        /\ \A i \in DOMAIN calls : calls[i].name = "state"
    BY <1>2
  <2> HIDE DEF calls
  <2>4. Saves(calls)
    BY <2>1 DEF calls
  <2> QED BY <1>1, <2>1, <2>2, <2>3, <2>4, SavesKeep
<1>10. ASSUME NEW v \in Views, NEW p \in Prefs \cup {Unset}, NEW o \in BOOLEAN, ApplyBackup(p, o, v)
       PROVE  FilesInv'
  <2>1. /\ memory' = [memory EXCEPT !.config.prefs = p, !.config.offline = o, !.view = v]
        /\ chosen' = [chosen EXCEPT !.offline = o]
        /\ Saves(<<Checked("config"), Call("state")>>)
        /\ UNCHANGED exported
    BY <1>10 DEF ApplyBackup
  <2>2. /\ memory' \in Memories /\ memory'.config.device = memory.config.device
        /\ memory'.config.offline = o /\ memory'.session = memory.session
    BY <1>1, <2>1 DEF Memories, Configs
  <2>3. /\ chosen' \in [offline : BOOLEAN, session : Accounts \cup {None}]
        /\ chosen'.offline = o /\ chosen'.session = chosen.session
    BY <1>1, <2>1
  <2> DEFINE calls == <<Checked("config"), Call("state")>>
  <2>4. /\ calls \in Seq(Calls) /\ Len(calls) <= 3
        /\ \A i \in DOMAIN calls : calls[i].name \in {"config", "state"}
        /\ 1 \in DOMAIN calls /\ calls[1].name = "config"
    BY <1>2
  <2> HIDE DEF calls
  <2>5. Saves(calls)
    BY <2>1 DEF calls
  <2> QED BY <2>1, <2>2, <2>3, <2>4, <2>5, SavesKeep
<1> QED BY <1>3, <1>4, <1>5, <1>6, <1>7, <1>8, <1>9, <1>10 DEF Handlers

(***************************************************************************)
(* The invariant and the properties.                                       *)
(***************************************************************************)

LEMMA InitHolds ==
  ASSUME Init
  PROVE  FilesInv
<1>1. /\ DOMAIN Nothing = Names
      /\ Nothing.config = Absent /\ Nothing.state = Absent /\ Nothing.session = Absent
  BY DEF Nothing, Names
<1>2. /\ DefaultConfig \in Configs(Prefs) /\ DefaultConfig.offline = TRUE
      /\ DefaultConfig.device = NoDevice
  BY DefaultFacts
<1>3. DefaultConfig # Absent /\ DefaultConfig # Torn /\ Absent # Torn
  BY <1>2, AppFilesAssumption
<1>4. /\ DOMAIN files = Names /\ files.state = Absent /\ files.session = Absent
      /\ files.config \in {Absent, DefaultConfig}
  <2>1. CASE files = Nothing
    BY <1>1, <2>1
  <2>2. CASE files = [Nothing EXCEPT !.config = DefaultConfig]
    BY <1>1, <2>2 DEF Names, Nothing
  <2> QED BY <2>1, <2>2 DEF Init
<1>5. /\ phase = "off" /\ todo = <<>> /\ stage = "config" /\ memory = NoMemory
      /\ device = NoDevice /\ devices = 0 /\ syncing = None
      /\ cut = FALSE /\ stuck = FALSE /\ late = FALSE /\ exported = FALSE
      /\ legacy \in Legacies \cup {None}
  BY DEF Init
<1>6. /\ chosen = [offline |-> chosen.offline, session |-> chosen.session]
      /\ chosen.offline = IF Converts("config") /\ legacy.config # Torn
                          THEN Converted("config").offline ELSE TRUE
      /\ chosen.session = IF Converts("session") /\ legacy.session # Torn
                          THEN Converted("session") ELSE None
  BY DEF Init
<1>7. chosen.offline = NextOffline /\ chosen.session = NextSession
  BY <1>2, <1>3, <1>4, <1>6 DEF NextOffline, NextSession, Converts
<1>8. /\ Converts("config") /\ legacy.config # Torn => Converted("config").offline \in BOOLEAN
      /\ Converts("session") /\ legacy.session # Torn => Converted("session") \in Accounts \cup {None}
  <2>1. ASSUME NEW c \in LegacyConfigs
        PROVE  c \in Configs(Prefs \cup {Unset})
    BY AppFilesAssumption DEF LegacyConfigs, Configs, NoDevice
  <2>2. ASSUME Converts("config"), legacy.config # Torn
        PROVE  Converted("config").offline \in BOOLEAN
    <3>1. legacy.config \in LegacyConfigs
      BY <1>5, <2>2 DEF Converts, Legacies
    <3>2. normalizeConfig(legacy.config) \in Configs(Prefs)
      BY <2>1, <3>1, NormalFacts
    <3> QED BY <3>2 DEF Converted, Configs
  <2>3. ASSUME Converts("session"), legacy.session # Torn
        PROVE  Converted("session") \in Accounts \cup {None}
    <3>1. legacy.session \in LegacySessions
      BY <1>5, <2>3 DEF Converts, Legacies
    <3> QED BY <3>1 DEF LegacySessions, Converted, readLegacySession
  <2> QED BY <2>2, <2>3
<1>9. chosen \in [offline : BOOLEAN, session : Accounts \cup {None}]
  BY <1>6, <1>8
<1>10. AppFilesTypeOK
  <2>1. device \in 0 .. MaxDevices /\ devices \in 0 .. MaxDevices
    BY <1>5, AppFilesAssumption DEF NoDevice
  <2>2. \A history \in {cut, stuck, late, exported} : history \in BOOLEAN
    BY <1>5
  <2>3. todo \in Seq(Calls) /\ Len(todo) <= 4
    BY <1>5
  <2>4. memory \in Memories
    BY <1>5, DefaultFacts
  <2> QED BY <1>2, <1>4, <1>5, <1>9, <2>1, <2>2, <2>3, <2>4 DEF AppFilesTypeOK
<1>11. Shape
  BY <1>4, <1>5, <1>10 DEF Shape, Ended, FailsOnlyAfterCut
<1>12. \A name : ~Due(name)
  BY <1>5 DEF Due
<1>13. CallsInv /\ MigrationInv
  BY <1>4, <1>5 DEF CallsInv, MigrationInv, Ended
<1>14. OfflineInv /\ SessionInv
  BY <1>5, <1>7, <1>12 DEF OfflineInv, SessionInv, Started
<1>15. DeviceInv
  BY <1>2, <1>3, <1>4, <1>5 DEF DeviceInv, Started
<1>16. \A f \in Names : files[f] # Torn
  BY <1>3, <1>4 DEF Names
<1> QED BY <1>11, <1>13, <1>14, <1>15, <1>16 DEF FilesInv, Uncut

LEMMA NextKeeps ==
  ASSUME FilesInv, [Next]_vars
  PROVE  FilesInv'
<1>1. CASE UNCHANGED vars
  <2>1. UNCHANGED <<files, legacy, phase, memory, todo, stage, syncing, device, devices, chosen,
                    cut, stuck, late, exported>>
    BY <1>1 DEF vars, diskVars, progress, deviceVars, historyVars
  <2>2. AppFilesTypeOK' <=> AppFilesTypeOK
    BY <2>1 DEF AppFilesTypeOK
  <2>3. Shape' <=> Shape
    BY <2>1, <2>2 DEF Shape, Ended, Started, FailsOnlyAfterCut, Converts
  <2>4. \A name : Due(name)' <=> Due(name)
    BY <2>1 DEF Due
  <2>5. (CallsInv' <=> CallsInv) /\ (MigrationInv' <=> MigrationInv)
    BY <2>1 DEF CallsInv, MigrationInv, Ended
  <2>6. (OfflineInv' <=> OfflineInv) /\ (SessionInv' <=> SessionInv)
    BY <2>1, <2>4 DEF OfflineInv, SessionInv, Started, NextOffline, NextSession, Converts, Converted
  <2>7. DeviceInv' <=> DeviceInv
    BY <2>1, <2>4 DEF DeviceInv, Started
  <2> QED BY <2>1, <2>3, <2>5, <2>6, <2>7 DEF FilesInv, Uncut
<1>2. CASE Calling
  BY <1>2, StepKeeps, WriteFailsKeeps, DirFailsKeeps DEF Calling
<1>3. CASE Starting
  BY <1>3, BootKeeps, ReadConfigKeeps, ReadRestKeeps DEF Starting
<1> QED BY <1>1, <1>2, <1>3, StopKeeps, CycleKeeps, HandlersKeep DEF Next

\* FilesInv holds in every state the client reaches, for every set of accounts,
\* preferences and views (config/config.go, config/migrate.go, app/cli.go).
THEOREM AppFilesInvariant == Spec => []FilesInv
<1>1. Init => FilesInv
  BY InitHolds
<1>2. FilesInv /\ [Next]_vars => FilesInv'
  BY NextKeeps
<1> QED BY <1>1, <1>2, PTL DEF Spec

\* The variables keep their types.
THEOREM AppFilesTypeCorrect == Spec => []AppFilesTypeOK
<1>1. FilesInv => AppFilesTypeOK
  BY DEF FilesInv, Shape
<1> QED BY <1>1, AppFilesInvariant, PTL

\* A start that can read its files fails only after a write that was cut short,
\* or on a legacy file that it has to migrate and that does not parse
\* (config/config.go:102, config/migrate.go:24).
THEOREM StartTheorem == Spec => []FailsOnlyAfterCut
<1>1. FilesInv => FailsOnlyAfterCut
  BY DEF FilesInv, Shape
<1> QED BY <1>1, AppFilesInvariant, PTL

\* Every start finds the mode and the account of the user's last choice, or what
\* the migration could read of an older release's, through any number of restarts,
\* failed starts and cycles, with the exceptions that ChoicesSurvive names
\* (config/migrate.go:34, app/cli.go:147, tui/model.go:313).
THEOREM ChoicesTheorem == Spec => []ChoicesSurvive
<1>1. FilesInv => ChoicesSurvive
  BY DEF FilesInv, Uncut, OfflineInv, SessionInv, ChoicesSurvive, Started
<1> QED BY <1>1, AppFilesInvariant, PTL

\* Nothing but a local export changes the device id (app/cli.go:230, 310).
THEOREM ConfigTheorem == Spec => []ConfigIsPersistent
<1>1. FilesInv => ConfigIsPersistent
  <2>1. ~Started /\ FilesInv => memory.config.device = NoDevice
    BY DefaultFacts DEF FilesInv, Shape
  <2> QED BY <2>1 DEF FilesInv, Uncut, DeviceInv, ConfigIsPersistent
<1> QED BY <1>1, AppFilesInvariant, PTL
=============================================================================

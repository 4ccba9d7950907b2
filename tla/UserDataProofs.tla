----------------------------- MODULE UserDataProofs ----------------------------
(***************************************************************************)
(* What holds of the voice library, the projects and the settings in every *)
(* state, for any archives, names, wishes, commands and faults.            *)
(***************************************************************************)
EXTENDS UserData, TLAPS

Activating == {"discard", "aside", "swap", "drop"}
With       == Voice \cup {Gone} \cup Settings
Imports    == [at : {"idle", "stage", "write", "settings"} \cup Activating, id : Ids,
               overwrite : BOOLEAN, had : BOOLEAN, with : With]

\* The command under way, and what it is about to put in place.
ImportKnown ==
  /\ import \in Imports
  /\ import.at = "stage" => commands > 0
  /\ import.at \in Activating =>
       /\ import.with \in Voice /\ import.with.model # "none" /\ import.with.manifest # "none"
       /\ import.with.manifest = "ok" => import.with.model = "sound"
  /\ import.at = "write" =>
       /\ import.with \in Voice /\ import.with.manifest # "none"
       /\ import.with.gen = voice[import.id].gen /\ import.with.model = voice[import.id].model
       /\ voice[import.id] # Gone
       /\ owed[import.id] # {} /\ import.with.manifest = "ok" => import.with.model = "sound"
  /\ import.at = "settings" => import.with \in Settings
  /\ import.at = "drop" => voice[import.id] # Gone
  /\ import.at \in {"stage", "discard", "aside", "swap"} /\ owed[import.id] # {} => import.overwrite

\* A voice that is owed is whole, where it belongs or set aside.
Whole(v, i) == /\ v.gen \in owed[i] /\ v.model # "none" /\ v.manifest # "none"
               /\ v.manifest = "ok" => v.model = "sound"
Kept(i)     == owed[i] # {} => Whole(IF Recovers(i) THEN previous[i] ELSE voice[i], i)

\* A project is its last version, or can be read from the backup; a save knows
\* what it was made from.
ProjectKnown ==
  /\ newest \in [version : 0..MaxCommands, base : 0..MaxCommands]
  /\ newest.base # 0 => /\ project.file \in {newest.version, Corrupt} /\ newest.version # 0
                        /\ project.backup \in {newest.version, newest.base}
  /\ saving # NoSave => commands > 0 /\ saving = IF project.file = 0 THEN 0 ELSE Load
  /\ saving # NoSave /\ project.file # 0 => ~Unreadable(Load)
  /\ project.file = 0 => newest.base = 0

IInv == TypeOK /\ ImportKnown /\ (\A i \in Ids : Kept(i)) /\ ProjectKnown

----------------------------------------------------------------------------
\* What the proofs use of the constants.
LEMMA Bounds == NIds \in Nat \ {0} /\ MaxCommands \in Nat /\ MaxFaults \in Nat
  BY BoundsAssumption

ProjectTypes ==
  project \in [file : 0..Corrupt, backup : 0..MaxCommands] /\ saving \in 0..NoSave \ {Corrupt}

\* The default settings are settings.
LEMMA DefaultSettings == Defaults \in Settings
  BY DEF Defaults, Settings, Folders

\* The invariant, from its parts.
LEMMA Together ==
  ASSUME voice' \in [Ids -> Voice \cup {Gone}] /\ previous' \in [Ids -> Voice \cup {Gone}],
         owed' \in [Ids -> SUBSET (1..MaxCommands)], commands' \in 0..MaxCommands /\ faults' \in 0..MaxFaults,
         settings' \in Settings \cup {Absent, Torn, Undecodable}, ProjectTypes' /\ ProjectKnown', ImportKnown',
         \A j \in Ids : Kept(j)'
  PROVE  IInv'
<1>1. import'.at \in {"idle", "stage", "write", "settings"} \cup Activating /\ import'.id \in Ids
  BY DEF ImportKnown, Imports
<1> QED
  BY <1>1 DEF IInv, TypeOK, ProjectTypes, Activating

\* A directory that goes file by file is still one of a voice.
LEMMA Remaining ==
  ASSUME NEW v \in Voice \cup {Gone}, NEW left \in Remains(v)
  PROVE  left \in Voice \cup {Gone}
<1>1. CASE v = Gone
  <2>1. left = Gone
    BY <1>1 DEF Remains, Gone
  <2> QED
    BY <2>1
<1>2. CASE v \in Voice
  BY <1>2 DEF Remains, Voice
<1> QED
  BY <1>1, <1>2

\* What a check of the model finds.
LEMMA Health ==
  ASSUME NEW v \in Voice
  PROVE  [v EXCEPT !.manifest = CheckHealth(v)] \in Voice /\ CheckHealth(v) \in {"ok", "corrupt", "missing"}
<1>1. CheckHealth(v) \in {"ok", "corrupt", "missing"}
  BY DEF CheckHealth
<1> QED
  BY <1>1 DEF Voice

\* A command of the five fields is one.
LEMMA Importing ==
  ASSUME NEW at \in {"idle", "stage", "write", "settings"} \cup Activating, NEW i \in Ids,
         NEW overwrite \in BOOLEAN, NEW had \in BOOLEAN, NEW w \in With
  PROVE  [at |-> at, id |-> i, overwrite |-> overwrite, had |-> had, with |-> w] \in Imports
  BY DEF Imports

\* Nothing is known of no command.
LEMMA IdleImport == ASSUME import' = Idle PROVE ImportKnown'
<1>1. Idle \in Imports /\ Idle.at = "idle"
  BY Bounds DEF Idle, Ids, With, Imports
<1> QED
  BY <1>1 DEF ImportKnown, Activating

\* A manifest that is about to be written again: nothing else of the voice changes.
LEMMA Rewriting ==
  ASSUME IInv, NEW i \in Ids, Listed(i), NEW w \in Voice, w.manifest # "none",
         w.gen = voice[i].gen, w.model = voice[i].model,
         owed[i] # {} /\ w.manifest = "ok" => w.model = "sound",
         import' = [Idle EXCEPT !.at = "write", !.id = i, !.with = w],
         voice' = [voice EXCEPT ![i].manifest = "torn"], UNCHANGED <<previous, owed>>
  PROVE  /\ voice' \in [Ids -> Voice \cup {Gone}] /\ previous' \in [Ids -> Voice \cup {Gone}]
         /\ ImportKnown' /\ \A j \in Ids : Kept(j)'
<1> DEFINE torn == [voice[i] EXCEPT !.manifest = "torn"]
<1>1. voice \in [Ids -> Voice \cup {Gone}] /\ previous \in [Ids -> Voice \cup {Gone}] /\ \A j \in Ids : Kept(j)
  BY DEF IInv, TypeOK
<1>2. voice[i] \in Voice
  BY <1>1 DEF Listed, Gone
<1>3. torn \in Voice /\ torn.manifest = "torn" /\ torn.gen = voice[i].gen /\ torn.model = voice[i].model
  BY <1>2 DEF Voice
<1>4. torn # Gone /\ voice[i] # Gone
  BY <1>3 DEF Gone, Listed
<1>5. voice' = [voice EXCEPT ![i] = torn] /\ voice'[i] = torn
  BY <1>1
<1>6. voice' \in [Ids -> Voice \cup {Gone}]
  BY <1>1, <1>3, <1>5
<1>7. import' = [at |-> "write", id |-> i, overwrite |-> FALSE, had |-> FALSE, with |-> w]
  BY DEF Idle
<1>8. import' \in Imports
  <2>1. w \in With
    BY DEF With
  <2>2. "write" \in {"idle", "stage", "write", "settings"} \cup Activating
    OBVIOUS
  <2> HIDE DEF With
  <2>3. [at |-> "write", id |-> i, overwrite |-> FALSE, had |-> FALSE, with |-> w] \in Imports
    BY <2>1, <2>2, Importing
  <2> QED
    BY <1>7, <2>3
<1>9. ImportKnown'
  <2> HIDE DEF torn
  <2> QED
    BY <1>3, <1>4, <1>5, <1>7, <1>8 DEF ImportKnown, Activating
<1>10. ASSUME NEW j \in Ids PROVE Kept(j)'
  <2>1. CASE j = i
    <3> HIDE DEF torn
    <3> QED
      BY <1>1, <1>3, <1>4, <1>5, <2>1 DEF Kept, Whole, Recovers
  <2>2. CASE j # i
    BY <1>1, <1>5, <2>2 DEF Kept, Whole, Recovers
  <2> QED
    BY <2>1, <2>2
<1> QED
  BY <1>1, <1>6, <1>9, <1>10

\* Settings that a wish was granted in are settings, when they are acceptable.
LEMMA Asked ==
  ASSUME NEW r \in Settings, NEW wish \in Wishes, Acceptable(Updated(r, wish))
  PROVE  Updated(r, wish) \in Settings
<1> DEFINE s == Updated(r, wish)
<1>1. r = [is |-> r.is, quality |-> r.quality, theme |-> r.theme, target_lufs |-> r.target_lufs, output_dir |-> r.output_dir]
  BY DEF Settings
<1>2. DOMAIN r = {"is", "quality", "theme", "target_lufs", "output_dir"} /\ r.is = "whole" /\ r.output_dir \in Folders
  BY DEF Settings
<1>3. s = [f \in {"is", "quality", "theme", "target_lufs", "output_dir"} |-> IF f \in DOMAIN wish THEN wish[f] ELSE r[f]]
  BY <1>2 DEF Updated
<1>4. s.is = "whole"
  BY <1>2, <1>3, WishesAssumption
<1>5. s.output_dir \in Folders
  <2>1. CASE "output_dir" \in DOMAIN wish
    BY <1>3, <2>1 DEF Folders
  <2>2. CASE "output_dir" \notin DOMAIN wish
    BY <1>2, <1>3, <2>2
  <2> QED
    BY <2>1, <2>2
<1>6. s = [is |-> s.is, quality |-> s.quality, theme |-> s.theme, target_lufs |-> s.target_lufs, output_dir |-> s.output_dir]
  BY <1>3
<1>7. /\ s.quality \in {"fast", "balanced", "max"} /\ s.theme \in {"system", "light", "dark"}
      /\ s.target_lufs \in -70..-5
  BY DEF Acceptable
<1> HIDE DEF s
<1>8. s \in Settings
  BY <1>4, <1>5, <1>6, <1>7 DEF Settings
<1> QED
  BY <1>8 DEF s

\* A voice is removed, or its manifest written again.
LEMMA LibrarySteps ==
  ASSUME IInv, NEW i \in Ids, Remove(i) \/ RemoveStops(i) \/ RefreshHealth(i) \/ Update(i)
  PROVE  IInv'
<1> USE DEF IInv, TypeOK, ImportKnown, ProjectTypes, ProjectKnown, Kept, Whole, Recovers, Activating,
      voiceVars, projectVars, others, Command, Ready, Fault, Goes, Idle, Corrupt, NoSave, Load, Unreadable
<1>1. CASE Remove(i)
  <2>1. voice' \in [Ids -> Voice \cup {Gone}] /\ previous' \in [Ids -> Voice \cup {Gone}]
    BY <1>1, Bounds DEF Remove
  <2>2. owed' \in [Ids -> SUBSET (1..MaxCommands)]
    BY <1>1, Bounds DEF Remove
  <2>3. commands' \in 0..MaxCommands /\ faults' \in 0..MaxFaults
    BY <1>1, Bounds DEF Remove
  <2>4. settings' \in Settings \cup {Absent, Torn, Undecodable}
    BY <1>1, Bounds DEF Remove
  <2>5. ProjectTypes' /\ ProjectKnown'
    BY <1>1, Bounds DEF Remove
  <2>6. ImportKnown'
    BY <1>1, Bounds DEF Remove
  <2>7. \A j \in Ids : Kept(j)'
    BY <1>1, Bounds DEF Remove
  <2> QED
    BY <2>1, <2>2, <2>3, <2>4, <2>5, <2>6, <2>7, Together
<1>2. CASE RemoveStops(i)
  <2>1. voice' \in [Ids -> Voice \cup {Gone}] /\ previous' \in [Ids -> Voice \cup {Gone}]
    BY <1>2, Remaining DEF RemoveStops
  <2>2. owed' \in [Ids -> SUBSET (1..MaxCommands)]
    BY <1>2, Bounds DEF RemoveStops
  <2>3. commands' \in 0..MaxCommands /\ faults' \in 0..MaxFaults
    BY <1>2, Bounds DEF RemoveStops
  <2>4. settings' \in Settings \cup {Absent, Torn, Undecodable}
    BY <1>2, Bounds DEF RemoveStops
  <2>5. ProjectTypes' /\ ProjectKnown'
    BY <1>2, Bounds DEF RemoveStops
  <2>6. ImportKnown'
    BY <1>2, Bounds DEF RemoveStops
  <2>7. \A j \in Ids : Kept(j)'
    BY <1>2, Bounds DEF RemoveStops
  <2> QED
    BY <2>1, <2>2, <2>3, <2>4, <2>5, <2>6, <2>7, Together
<1>3. CASE RefreshHealth(i)
  <2>1. voice' \in [Ids -> Voice \cup {Gone}] /\ previous' \in [Ids -> Voice \cup {Gone}]
    <3> HIDE DEF IInv, TypeOK, Idle, Kept
    <3>1. voice[i] \in Voice /\ Listed(i)
      BY <1>3 DEF RefreshHealth, Listed, IInv, TypeOK, Gone
    <3> DEFINE w == [voice[i] EXCEPT !.manifest = CheckHealth(voice[i])]
    <3>2. w \in Voice /\ w.manifest # "none" /\ w.gen = voice[i].gen /\ w.model = voice[i].model
          /\ (w.manifest = "ok" => w.model = "sound")
      BY <3>1, Health DEF Voice, CheckHealth
    <3>3. import' = [Idle EXCEPT !.at = "write", !.id = i, !.with = w]
          /\ voice' = [voice EXCEPT ![i].manifest = "torn"] /\ UNCHANGED <<previous, owed>>
      BY <1>3 DEF RefreshHealth
    <3> HIDE DEF w
    <3> QED
      BY <3>1, <3>2, <3>3, Rewriting
  <2>2. owed' \in [Ids -> SUBSET (1..MaxCommands)]
    BY <1>3, Bounds DEF RefreshHealth, Listed
  <2>3. commands' \in 0..MaxCommands /\ faults' \in 0..MaxFaults
    BY <1>3, Bounds DEF RefreshHealth, Listed
  <2>4. settings' \in Settings \cup {Absent, Torn, Undecodable}
    BY <1>3, Bounds DEF RefreshHealth, Listed
  <2>5. ProjectTypes' /\ ProjectKnown'
    BY <1>3, Bounds DEF RefreshHealth, Listed
  <2>6. ImportKnown'
    <3> HIDE DEF IInv, TypeOK, Idle, Kept
    <3>1. voice[i] \in Voice /\ Listed(i)
      BY <1>3 DEF RefreshHealth, Listed, IInv, TypeOK, Gone
    <3> DEFINE w == [voice[i] EXCEPT !.manifest = CheckHealth(voice[i])]
    <3>2. w \in Voice /\ w.manifest # "none" /\ w.gen = voice[i].gen /\ w.model = voice[i].model
          /\ (w.manifest = "ok" => w.model = "sound")
      BY <3>1, Health DEF Voice, CheckHealth
    <3>3. import' = [Idle EXCEPT !.at = "write", !.id = i, !.with = w]
          /\ voice' = [voice EXCEPT ![i].manifest = "torn"] /\ UNCHANGED <<previous, owed>>
      BY <1>3 DEF RefreshHealth
    <3> HIDE DEF w
    <3> QED
      BY <3>1, <3>2, <3>3, Rewriting
  <2>7. \A j \in Ids : Kept(j)'
    <3> HIDE DEF IInv, TypeOK, Idle, Kept
    <3>1. voice[i] \in Voice /\ Listed(i)
      BY <1>3 DEF RefreshHealth, Listed, IInv, TypeOK, Gone
    <3> DEFINE w == [voice[i] EXCEPT !.manifest = CheckHealth(voice[i])]
    <3>2. w \in Voice /\ w.manifest # "none" /\ w.gen = voice[i].gen /\ w.model = voice[i].model
          /\ (w.manifest = "ok" => w.model = "sound")
      BY <3>1, Health DEF Voice, CheckHealth
    <3>3. import' = [Idle EXCEPT !.at = "write", !.id = i, !.with = w]
          /\ voice' = [voice EXCEPT ![i].manifest = "torn"] /\ UNCHANGED <<previous, owed>>
      BY <1>3 DEF RefreshHealth
    <3> HIDE DEF w
    <3> QED
      BY <3>1, <3>2, <3>3, Rewriting
  <2> QED
    BY <2>1, <2>2, <2>3, <2>4, <2>5, <2>6, <2>7, Together
<1>4. CASE Update(i)
  <2>1. voice' \in [Ids -> Voice \cup {Gone}] /\ previous' \in [Ids -> Voice \cup {Gone}]
    <3> HIDE DEF IInv, TypeOK, Idle, Kept
    <3>1. voice[i] \in Voice /\ Listed(i) /\ voice[i].manifest # "none"
          /\ (owed[i] # {} /\ voice[i].manifest = "ok" => voice[i].model = "sound")
      BY <1>4 DEF Update, Listed, IInv, TypeOK, Gone, Kept, Whole, Recovers
    <3>2. import' = [Idle EXCEPT !.at = "write", !.id = i, !.with = voice[i]]
          /\ voice' = [voice EXCEPT ![i].manifest = "torn"] /\ UNCHANGED <<previous, owed>>
      BY <1>4 DEF Update
    <3> QED
      BY <3>1, <3>2, Rewriting
  <2>2. owed' \in [Ids -> SUBSET (1..MaxCommands)]
    BY <1>4, Bounds DEF Update, Listed
  <2>3. commands' \in 0..MaxCommands /\ faults' \in 0..MaxFaults
    BY <1>4, Bounds DEF Update, Listed
  <2>4. settings' \in Settings \cup {Absent, Torn, Undecodable}
    BY <1>4, Bounds DEF Update, Listed
  <2>5. ProjectTypes' /\ ProjectKnown'
    BY <1>4, Bounds DEF Update, Listed
  <2>6. ImportKnown'
    <3> HIDE DEF IInv, TypeOK, Idle, Kept
    <3>1. voice[i] \in Voice /\ Listed(i) /\ voice[i].manifest # "none"
          /\ (owed[i] # {} /\ voice[i].manifest = "ok" => voice[i].model = "sound")
      BY <1>4 DEF Update, Listed, IInv, TypeOK, Gone, Kept, Whole, Recovers
    <3>2. import' = [Idle EXCEPT !.at = "write", !.id = i, !.with = voice[i]]
          /\ voice' = [voice EXCEPT ![i].manifest = "torn"] /\ UNCHANGED <<previous, owed>>
      BY <1>4 DEF Update
    <3> QED
      BY <3>1, <3>2, Rewriting
  <2>7. \A j \in Ids : Kept(j)'
    <3> HIDE DEF IInv, TypeOK, Idle, Kept
    <3>1. voice[i] \in Voice /\ Listed(i) /\ voice[i].manifest # "none"
          /\ (owed[i] # {} /\ voice[i].manifest = "ok" => voice[i].model = "sound")
      BY <1>4 DEF Update, Listed, IInv, TypeOK, Gone, Kept, Whole, Recovers
    <3>2. import' = [Idle EXCEPT !.at = "write", !.id = i, !.with = voice[i]]
          /\ voice' = [voice EXCEPT ![i].manifest = "torn"] /\ UNCHANGED <<previous, owed>>
      BY <1>4 DEF Update
    <3> QED
      BY <3>1, <3>2, Rewriting
  <2> QED
    BY <2>1, <2>2, <2>3, <2>4, <2>5, <2>6, <2>7, Together
<1> QED
  BY <1>1, <1>2, <1>3, <1>4

\* A manifest or the settings are written.
LEMMA WriteSteps ==
  ASSUME IInv, Written \/ SettingsWritten
  PROVE  IInv'
<1> USE DEF IInv, TypeOK, ImportKnown, ProjectTypes, ProjectKnown, Kept, Whole, Recovers, Activating,
      voiceVars, projectVars, others, Command, Ready, Fault, Goes, Idle, Corrupt, NoSave, Load, Unreadable
<1>1. CASE Written
  <2>1. voice' \in [Ids -> Voice \cup {Gone}] /\ previous' \in [Ids -> Voice \cup {Gone}]
    BY <1>1, Bounds DEF Written
  <2>2. owed' \in [Ids -> SUBSET (1..MaxCommands)]
    BY <1>1, Bounds DEF Written
  <2>3. commands' \in 0..MaxCommands /\ faults' \in 0..MaxFaults
    BY <1>1, Bounds DEF Written
  <2>4. settings' \in Settings \cup {Absent, Torn, Undecodable}
    BY <1>1, Bounds DEF Written
  <2>5. ProjectTypes' /\ ProjectKnown'
    BY <1>1, Bounds DEF Written
  <2>6. ImportKnown'
    BY <1>1, IdleImport DEF Written
  <2>7. \A j \in Ids : Kept(j)'
    <3>1. /\ import.id \in Ids /\ voice' = [voice EXCEPT ![import.id] = import.with] /\ UNCHANGED <<previous, owed>>
          /\ import.with \in Voice
      BY <1>1 DEF Written
    <3>2. import.with # Gone
      BY <3>1, Bounds DEF Voice, Gone
    <3>3. ASSUME NEW j \in Ids PROVE Kept(j)'
      <4>1. CASE j = import.id
        BY <1>1, <3>1, <3>2, <4>1 DEF Written
      <4>2. CASE j # import.id
        BY <1>1, <3>1, <4>2
      <4> QED
        BY <4>1, <4>2
    <3> QED
      BY <3>3
  <2> QED
    BY <2>1, <2>2, <2>3, <2>4, <2>5, <2>6, <2>7, Together
<1>2. CASE SettingsWritten
  <2>1. voice' \in [Ids -> Voice \cup {Gone}] /\ previous' \in [Ids -> Voice \cup {Gone}]
    BY <1>2, Bounds DEF SettingsWritten
  <2>2. owed' \in [Ids -> SUBSET (1..MaxCommands)]
    BY <1>2, Bounds DEF SettingsWritten
  <2>3. commands' \in 0..MaxCommands /\ faults' \in 0..MaxFaults
    BY <1>2, Bounds DEF SettingsWritten
  <2>4. settings' \in Settings \cup {Absent, Torn, Undecodable}
    BY <1>2, Bounds DEF SettingsWritten
  <2>5. ProjectTypes' /\ ProjectKnown'
    BY <1>2, Bounds DEF SettingsWritten
  <2>6. ImportKnown'
    BY <1>2, IdleImport DEF SettingsWritten
  <2>7. \A j \in Ids : Kept(j)'
    BY <1>2, Bounds DEF SettingsWritten
  <2> QED
    BY <2>1, <2>2, <2>3, <2>4, <2>5, <2>6, <2>7, Together
<1> QED
  BY <1>1, <1>2

\* An import begins.
LEMMA ImportStep ==
  ASSUME IInv, NEW i \in Ids, NEW overwrite \in BOOLEAN, Import(i, overwrite)
  PROVE  IInv'
<1> USE DEF IInv, TypeOK, ImportKnown, ProjectTypes, ProjectKnown, Kept, Whole, Recovers, Activating,
      voiceVars, projectVars, others, Command, Ready, Fault, Goes, Idle, Corrupt, NoSave, Load, Unreadable
<1>1. CASE Import(i, overwrite)
  <2>1. voice' \in [Ids -> Voice \cup {Gone}] /\ previous' \in [Ids -> Voice \cup {Gone}]
    BY <1>1, Bounds DEF Import, Recover, Contains
  <2>2. owed' \in [Ids -> SUBSET (1..MaxCommands)]
    BY <1>1, Bounds DEF Import, Recover, Contains
  <2>3. commands' \in 0..MaxCommands /\ faults' \in 0..MaxFaults
    BY <1>1, Bounds DEF Import, Recover, Contains
  <2>4. settings' \in Settings \cup {Absent, Torn, Undecodable}
    BY <1>1, Bounds DEF Import, Recover, Contains
  <2>5. ProjectTypes' /\ ProjectKnown'
    BY <1>1, Bounds DEF Import, Recover, Contains
  <2>6. ImportKnown'
    <3> HIDE DEF IInv, TypeOK, ImportKnown, Kept, Whole
    <3>1. import \in Imports /\ import.at = "idle" /\ UNCHANGED owed /\ commands \in Nat /\ commands' = commands + 1
      BY <1>1, Bounds DEF Import, IInv, ImportKnown, TypeOK
    <3>2. CASE import' = import
      BY <3>1, <3>2 DEF ImportKnown
    <3>3. CASE import' = [Idle EXCEPT !.at = "stage", !.id = i, !.overwrite = overwrite] /\ ~(Contains(voice', i) /\ ~overwrite)
      <4>1. import' = [at |-> "stage", id |-> i, overwrite |-> overwrite, had |-> FALSE, with |-> Gone]
        BY <3>3
      <4>2. import' \in Imports
        BY <4>1, Importing DEF With
      <4>3. import'.at = "stage" /\ import'.id = i /\ import'.overwrite = overwrite /\ commands' > 0
        BY <4>1, <3>1
      <4>4. voice \in [Ids -> Voice \cup {Gone}] /\ Kept(i)
        BY DEF IInv, TypeOK
      <4>5. voice'[i] = IF Recovers(i) THEN previous[i] ELSE voice[i]
        BY <1>1, <4>4 DEF Import, Recover
      <4>6. owed'[import'.id] # {} => import'.overwrite
        BY <3>1, <3>3, <4>3, <4>4, <4>5 DEF Kept, Whole, Contains
      <4> QED
        BY <4>2, <4>3, <4>6 DEF ImportKnown, Activating
    <3> QED
      BY <1>1, <3>2, <3>3 DEF Import
  <2>7. \A j \in Ids : Kept(j)'
    BY <1>1, Bounds DEF Import, Recover, Contains
  <2> QED
    BY <2>1, <2>2, <2>3, <2>4, <2>5, <2>6, <2>7, Together
<1> QED
  BY <1>1

\* An archive is unpacked aside.
LEMMA StageStep ==
  ASSUME IInv, NEW a \in Archives, Stage(a)
  PROVE  IInv'
<1> USE DEF IInv, TypeOK, ImportKnown, ProjectTypes, ProjectKnown, Kept, Whole, Recovers, Activating,
      voiceVars, projectVars, others, Command, Ready, Fault, Goes, Idle, Corrupt, NoSave, Load, Unreadable
<1>1. CASE Stage(a)
  <2>1. voice' \in [Ids -> Voice \cup {Gone}] /\ previous' \in [Ids -> Voice \cup {Gone}]
    BY <1>1, Bounds DEF Stage, Place
  <2>2. owed' \in [Ids -> SUBSET (1..MaxCommands)]
    BY <1>1, Bounds DEF Stage, Place
  <2>3. commands' \in 0..MaxCommands /\ faults' \in 0..MaxFaults
    BY <1>1, Bounds DEF Stage, Place
  <2>4. settings' \in Settings \cup {Absent, Torn, Undecodable}
    BY <1>1, Bounds DEF Stage, Place
  <2>5. ProjectTypes' /\ ProjectKnown'
    BY <1>1, Bounds DEF Stage, Place
  <2>6. ImportKnown'
    <3> HIDE DEF IInv, TypeOK, ImportKnown, Kept, Whole, Idle
    <3> DEFINE staged == ExtractInto(a)
    <3>1. import \in Imports /\ import.at = "stage" /\ UNCHANGED <<voice, owed, commands>> /\ commands \in 1..MaxCommands
      BY <1>1, Bounds DEF Stage, IInv, ImportKnown, TypeOK
    <3>2. CASE import' = Idle
      BY <3>2, IdleImport
    <3>3. CASE import' = [import EXCEPT !.at = "discard", !.with = Place(staged)]
      <4> HIDE DEF staged
      <4> DEFINE v == Place(staged)
      <4>1. v \in Voice /\ v.model # "none" /\ v.manifest # "none" /\ (v.manifest = "ok" => v.model = "sound")
        BY <3>1 DEF Place, CheckHealth, Voice
      <4>2. v \in With /\ import.id \in Ids /\ import.overwrite \in BOOLEAN /\ import.had \in BOOLEAN
        BY <4>1, <3>1 DEF With, Imports
      <4> HIDE DEF v
      <4>3. import' = [at |-> "discard", id |-> import.id, overwrite |-> import.overwrite, had |-> import.had, with |-> v]
        BY <3>1, <3>3 DEF Imports, v
      <4>4. import' \in Imports
        BY <4>2, <4>3, Importing
      <4>5. owed[import.id] # {} => import.overwrite
        BY <3>1 DEF IInv, ImportKnown
      <4> QED
        BY <3>1, <4>1, <4>3, <4>4, <4>5 DEF ImportKnown, Activating
    <3> QED
      BY <1>1, <3>2, <3>3 DEF Stage
  <2>7. \A j \in Ids : Kept(j)'
    BY <1>1, Bounds DEF Stage, Place
  <2> QED
    BY <2>1, <2>2, <2>3, <2>4, <2>5, <2>6, <2>7, Together
<1> QED
  BY <1>1

\* A new voice takes the place of an old one.
LEMMA ActivationSteps ==
  ASSUME IInv, Discard \/ SetAside \/ Swap \/ Drop
  PROVE  IInv'
<1> USE DEF IInv, TypeOK, ImportKnown, ProjectTypes, ProjectKnown, Kept, Whole, Recovers, Activating,
      voiceVars, projectVars, others, Command, Ready, Fault, Goes, Idle, Corrupt, NoSave, Load, Unreadable
<1>1. CASE Discard
  <2>1. voice' \in [Ids -> Voice \cup {Gone}] /\ previous' \in [Ids -> Voice \cup {Gone}]
    BY <1>1, Bounds DEF Discard, Recover
  <2>2. owed' \in [Ids -> SUBSET (1..MaxCommands)]
    BY <1>1, Bounds DEF Discard, Recover
  <2>3. commands' \in 0..MaxCommands /\ faults' \in 0..MaxFaults
    BY <1>1, Bounds DEF Discard, Recover
  <2>4. settings' \in Settings \cup {Absent, Torn, Undecodable}
    BY <1>1, Bounds DEF Discard, Recover
  <2>5. ProjectTypes' /\ ProjectKnown'
    BY <1>1, Bounds DEF Discard, Recover
  <2>6. ImportKnown'
    <3> HIDE DEF IInv, TypeOK, ImportKnown, Kept, Whole, Idle, Recovers
    <3>1. /\ import \in Imports /\ import.with \in Voice /\ import.with.model # "none" /\ import.with.manifest # "none"
          /\ UNCHANGED owed /\ (owed[import.id] # {} => import.overwrite)
          /\ (import.with.manifest = "ok" => import.with.model = "sound")
      BY <1>1 DEF Discard, IInv, ImportKnown
    <3>2. import' = [at |-> "aside", id |-> import.id, overwrite |-> import.overwrite, had |-> import.had,
                     with |-> import.with]
      BY <1>1, <3>1 DEF Discard, Imports
    <3>3. import.id \in Ids /\ import.overwrite \in BOOLEAN /\ import.had \in BOOLEAN /\ import.with \in With
      BY <3>1 DEF Imports
    <3>4. import' \in Imports
      BY <3>2, <3>3, Importing
    <3> QED
      BY <3>1, <3>2, <3>4 DEF ImportKnown, Activating
  <2>7. \A j \in Ids : Kept(j)'
    BY <1>1, Bounds DEF Discard, Recover
  <2> QED
    BY <2>1, <2>2, <2>3, <2>4, <2>5, <2>6, <2>7, Together
<1>2. CASE SetAside
  <2>1. voice' \in [Ids -> Voice \cup {Gone}] /\ previous' \in [Ids -> Voice \cup {Gone}]
    BY <1>2, Bounds DEF SetAside
  <2>2. owed' \in [Ids -> SUBSET (1..MaxCommands)]
    BY <1>2, Bounds DEF SetAside
  <2>3. commands' \in 0..MaxCommands /\ faults' \in 0..MaxFaults
    BY <1>2, Bounds DEF SetAside
  <2>4. settings' \in Settings \cup {Absent, Torn, Undecodable}
    BY <1>2, Bounds DEF SetAside
  <2>5. ProjectTypes' /\ ProjectKnown'
    BY <1>2, Bounds DEF SetAside
  <2>6. ImportKnown'
    <3> HIDE DEF IInv, TypeOK, ImportKnown, Kept, Whole, Idle, Recovers
    <3>1. /\ import \in Imports /\ import.with \in Voice /\ import.with.model # "none" /\ import.with.manifest # "none"
          /\ UNCHANGED owed /\ (owed[import.id] # {} => import.overwrite)
          /\ (import.with.manifest = "ok" => import.with.model = "sound")
      BY <1>2 DEF SetAside, IInv, ImportKnown
    <3>2. import' = [at |-> "swap", id |-> import.id, overwrite |-> import.overwrite, had |-> (voice[import.id] # Gone),
                     with |-> import.with]
      BY <1>2, <3>1 DEF SetAside, Imports
    <3>3. import.id \in Ids /\ import.overwrite \in BOOLEAN /\ import.had \in BOOLEAN /\ import.with \in With
      BY <3>1 DEF Imports
    <3>4. import' \in Imports
      BY <3>2, <3>3, Importing
    <3> QED
      BY <3>1, <3>2, <3>4 DEF ImportKnown, Activating
  <2>7. \A j \in Ids : Kept(j)'
    BY <1>2, Bounds DEF SetAside
  <2> QED
    BY <2>1, <2>2, <2>3, <2>4, <2>5, <2>6, <2>7, Together
<1>3. CASE Swap
  <2>1. voice' \in [Ids -> Voice \cup {Gone}] /\ previous' \in [Ids -> Voice \cup {Gone}]
    BY <1>3, Bounds DEF Swap
  <2>2. owed' \in [Ids -> SUBSET (1..MaxCommands)]
    <3> HIDE DEF IInv, TypeOK, ImportKnown, Kept, Whole, Idle, Recovers
    <3>1. /\ import.id \in Ids /\ import.with \in Voice /\ import.with.model # "none" /\ import.with.manifest # "none"
          /\ import.at = "swap" /\ (import.with.manifest = "ok" => import.with.model = "sound")
      BY <1>3 DEF Swap, IInv, ImportKnown, Imports
    <3>2. import.with.gen \in 1..MaxCommands /\ import.with # Gone
      BY <3>1, Bounds DEF Voice, Gone
    <3>3. /\ owed \in [Ids -> SUBSET (1..MaxCommands)] /\ owed' = [owed EXCEPT ![import.id] = {import.with.gen}]
          /\ voice \in [Ids -> Voice \cup {Gone}] /\ voice' = [voice EXCEPT ![import.id] = import.with]
          /\ import \in Imports /\ import' = [import EXCEPT !.at = "drop"] /\ UNCHANGED previous
      BY <1>3 DEF Swap, IInv, TypeOK, ImportKnown
    <3> QED
      BY <3>1, <3>2, <3>3
  <2>3. commands' \in 0..MaxCommands /\ faults' \in 0..MaxFaults
    BY <1>3, Bounds DEF Swap
  <2>4. settings' \in Settings \cup {Absent, Torn, Undecodable}
    BY <1>3, Bounds DEF Swap
  <2>5. ProjectTypes' /\ ProjectKnown'
    BY <1>3, Bounds DEF Swap
  <2>6. ImportKnown'
    <3> HIDE DEF IInv, TypeOK, ImportKnown, Kept, Whole, Idle, Recovers
    <3>1. /\ import.id \in Ids /\ import.with \in Voice /\ import.with.model # "none" /\ import.with.manifest # "none"
          /\ import.at = "swap" /\ (import.with.manifest = "ok" => import.with.model = "sound")
      BY <1>3 DEF Swap, IInv, ImportKnown, Imports
    <3>2. import.with.gen \in 1..MaxCommands /\ import.with # Gone
      BY <3>1, Bounds DEF Voice, Gone
    <3>3. /\ owed \in [Ids -> SUBSET (1..MaxCommands)] /\ owed' = [owed EXCEPT ![import.id] = {import.with.gen}]
          /\ voice \in [Ids -> Voice \cup {Gone}] /\ voice' = [voice EXCEPT ![import.id] = import.with]
          /\ import \in Imports /\ import' = [import EXCEPT !.at = "drop"] /\ UNCHANGED previous
      BY <1>3 DEF Swap, IInv, TypeOK, ImportKnown
    <3>4. import' = [at |-> "drop", id |-> import.id, overwrite |-> import.overwrite, had |-> import.had, with |-> import.with]
      BY <3>3 DEF Imports
    <3>5. import.with \in With /\ import.overwrite \in BOOLEAN /\ import.had \in BOOLEAN
      BY <3>3 DEF Imports
    <3>6. import' \in Imports
      BY <3>1, <3>4, <3>5, Importing
    <3>7. voice'[import.id] # Gone
      BY <3>1, <3>2, <3>3
    <3> QED
      BY <3>1, <3>4, <3>6, <3>7 DEF ImportKnown, Activating
  <2>7. \A j \in Ids : Kept(j)'
    <3> HIDE DEF IInv, TypeOK, ImportKnown, Kept, Whole, Idle, Recovers
    <3>1. /\ import.id \in Ids /\ import.with \in Voice /\ import.with.model # "none" /\ import.with.manifest # "none"
          /\ import.at = "swap" /\ (import.with.manifest = "ok" => import.with.model = "sound")
      BY <1>3 DEF Swap, IInv, ImportKnown, Imports
    <3>2. import.with.gen \in 1..MaxCommands /\ import.with # Gone
      BY <3>1, Bounds DEF Voice, Gone
    <3>3. /\ owed \in [Ids -> SUBSET (1..MaxCommands)] /\ owed' = [owed EXCEPT ![import.id] = {import.with.gen}]
          /\ voice \in [Ids -> Voice \cup {Gone}] /\ voice' = [voice EXCEPT ![import.id] = import.with]
          /\ import \in Imports /\ import' = [import EXCEPT !.at = "drop"] /\ UNCHANGED previous
      BY <1>3 DEF Swap, IInv, TypeOK, ImportKnown
    <3>4. ASSUME NEW j \in Ids PROVE Kept(j)'
      <4>1. CASE j = import.id
        <5>1. voice'[j] = import.with /\ owed'[j] = {import.with.gen}
          BY <3>1, <3>3, <4>1
        <5> QED
          BY <3>1, <3>2, <5>1 DEF Kept, Whole, Recovers
      <4>2. CASE j # import.id
        <5>1. voice'[j] = voice[j] /\ owed'[j] = owed[j] /\ Kept(j)
          BY <3>3, <4>2 DEF IInv
        <5> QED
          BY <3>3, <5>1 DEF Kept, Whole, Recovers
      <4> QED
        BY <4>1, <4>2
    <3> QED
      BY <3>4
  <2> QED
    BY <2>1, <2>2, <2>3, <2>4, <2>5, <2>6, <2>7, Together
<1>4. CASE Drop
  <2>1. voice' \in [Ids -> Voice \cup {Gone}] /\ previous' \in [Ids -> Voice \cup {Gone}]
    BY <1>4, Bounds DEF Drop
  <2>2. owed' \in [Ids -> SUBSET (1..MaxCommands)]
    BY <1>4, Bounds DEF Drop
  <2>3. commands' \in 0..MaxCommands /\ faults' \in 0..MaxFaults
    BY <1>4, Bounds DEF Drop
  <2>4. settings' \in Settings \cup {Absent, Torn, Undecodable}
    BY <1>4, Bounds DEF Drop
  <2>5. ProjectTypes' /\ ProjectKnown'
    BY <1>4, Bounds DEF Drop
  <2>6. ImportKnown'
    BY <1>4, IdleImport DEF Drop
  <2>7. \A j \in Ids : Kept(j)'
    BY <1>4, Bounds DEF Drop
  <2> QED
    BY <2>1, <2>2, <2>3, <2>4, <2>5, <2>6, <2>7, Together
<1> QED
  BY <1>1, <1>2, <1>3, <1>4

\* An activation breaks off.
LEMMA BrokenOffSteps ==
  ASSUME IInv, DiscardFails \/ RenameRefused \/ DropStops
  PROVE  IInv'
<1> USE DEF IInv, TypeOK, ImportKnown, ProjectTypes, ProjectKnown, Kept, Whole, Recovers, Activating,
      voiceVars, projectVars, others, Command, Ready, Fault, Goes, Idle, Corrupt, NoSave, Load, Unreadable
<1>1. CASE DiscardFails
  <2>1. voice' \in [Ids -> Voice \cup {Gone}] /\ previous' \in [Ids -> Voice \cup {Gone}]
    <3>1. previous[import.id] \in Voice \cup {Gone} /\ UNCHANGED voice
      BY <1>1 DEF DiscardFails
    <3>2. \E left \in Remains(previous[import.id]) : previous' = [previous EXCEPT ![import.id] = left]
      BY <1>1 DEF DiscardFails
    <3> QED
      BY <3>1, <3>2, Remaining
  <2>2. owed' \in [Ids -> SUBSET (1..MaxCommands)]
    BY <1>1, Bounds DEF DiscardFails
  <2>3. commands' \in 0..MaxCommands /\ faults' \in 0..MaxFaults
    BY <1>1, Bounds DEF DiscardFails
  <2>4. settings' \in Settings \cup {Absent, Torn, Undecodable}
    BY <1>1, Bounds DEF DiscardFails
  <2>5. ProjectTypes' /\ ProjectKnown'
    BY <1>1, Bounds DEF DiscardFails
  <2>6. ImportKnown'
    BY <1>1, IdleImport DEF DiscardFails
  <2>7. \A j \in Ids : Kept(j)'
    BY <1>1, Bounds DEF DiscardFails
  <2> QED
    BY <2>1, <2>2, <2>3, <2>4, <2>5, <2>6, <2>7, Together
<1>2. CASE RenameRefused
  <2>1. voice' \in [Ids -> Voice \cup {Gone}] /\ previous' \in [Ids -> Voice \cup {Gone}]
    BY <1>2, Bounds DEF RenameRefused, Recover
  <2>2. owed' \in [Ids -> SUBSET (1..MaxCommands)]
    BY <1>2, Bounds DEF RenameRefused, Recover
  <2>3. commands' \in 0..MaxCommands /\ faults' \in 0..MaxFaults
    BY <1>2, Bounds DEF RenameRefused, Recover
  <2>4. settings' \in Settings \cup {Absent, Torn, Undecodable}
    BY <1>2, Bounds DEF RenameRefused, Recover
  <2>5. ProjectTypes' /\ ProjectKnown'
    BY <1>2, Bounds DEF RenameRefused, Recover
  <2>6. ImportKnown'
    BY <1>2, IdleImport DEF RenameRefused
  <2>7. \A j \in Ids : Kept(j)'
    BY <1>2, Bounds DEF RenameRefused, Recover
  <2> QED
    BY <2>1, <2>2, <2>3, <2>4, <2>5, <2>6, <2>7, Together
<1>3. CASE DropStops
  <2>1. voice' \in [Ids -> Voice \cup {Gone}] /\ previous' \in [Ids -> Voice \cup {Gone}]
    <3>1. previous[import.id] \in Voice \cup {Gone} /\ UNCHANGED voice
      BY <1>3 DEF DropStops
    <3>2. \E left \in Remains(previous[import.id]) : previous' = [previous EXCEPT ![import.id] = left]
      BY <1>3 DEF DropStops
    <3> QED
      BY <3>1, <3>2, Remaining
  <2>2. owed' \in [Ids -> SUBSET (1..MaxCommands)]
    BY <1>3, Bounds DEF DropStops
  <2>3. commands' \in 0..MaxCommands /\ faults' \in 0..MaxFaults
    BY <1>3, Bounds DEF DropStops
  <2>4. settings' \in Settings \cup {Absent, Torn, Undecodable}
    BY <1>3, Bounds DEF DropStops
  <2>5. ProjectTypes' /\ ProjectKnown'
    BY <1>3, Bounds DEF DropStops
  <2>6. ImportKnown'
    BY <1>3, IdleImport DEF DropStops
  <2>7. \A j \in Ids : Kept(j)'
    BY <1>3, Bounds DEF DropStops
  <2> QED
    BY <2>1, <2>2, <2>3, <2>4, <2>5, <2>6, <2>7, Together
<1> QED
  BY <1>1, <1>2, <1>3

\* A project is saved.
LEMMA SaveSteps ==
  ASSUME IInv, Save \/ SaveBackup \/ SaveFile
  PROVE  IInv'
<1> USE DEF IInv, TypeOK, ImportKnown, ProjectTypes, ProjectKnown, Kept, Whole, Recovers, Activating,
      voiceVars, projectVars, others, Command, Ready, Fault, Goes, Idle, Corrupt, NoSave, Load, Unreadable
<1>1. CASE Save
  <2>1. voice' \in [Ids -> Voice \cup {Gone}] /\ previous' \in [Ids -> Voice \cup {Gone}]
    BY <1>1, Bounds DEF Save
  <2>2. owed' \in [Ids -> SUBSET (1..MaxCommands)]
    BY <1>1, Bounds DEF Save
  <2>3. commands' \in 0..MaxCommands /\ faults' \in 0..MaxFaults
    BY <1>1, Bounds DEF Save
  <2>4. settings' \in Settings \cup {Absent, Torn, Undecodable}
    BY <1>1, Bounds DEF Save
  <2>5. ProjectTypes' /\ ProjectKnown'
    BY <1>1, Bounds DEF Save
  <2>6. ImportKnown'
    BY <1>1, Bounds DEF Save
  <2>7. \A j \in Ids : Kept(j)'
    BY <1>1, Bounds DEF Save
  <2> QED
    BY <2>1, <2>2, <2>3, <2>4, <2>5, <2>6, <2>7, Together
<1>2. CASE SaveBackup
  <2>1. voice' \in [Ids -> Voice \cup {Gone}] /\ previous' \in [Ids -> Voice \cup {Gone}]
    BY <1>2, Bounds DEF SaveBackup
  <2>2. owed' \in [Ids -> SUBSET (1..MaxCommands)]
    BY <1>2, Bounds DEF SaveBackup
  <2>3. commands' \in 0..MaxCommands /\ faults' \in 0..MaxFaults
    BY <1>2, Bounds DEF SaveBackup
  <2>4. settings' \in Settings \cup {Absent, Torn, Undecodable}
    BY <1>2, Bounds DEF SaveBackup
  <2>5. ProjectTypes' /\ ProjectKnown'
    BY <1>2, Bounds DEF SaveBackup
  <2>6. ImportKnown'
    BY <1>2, Bounds DEF SaveBackup
  <2>7. \A j \in Ids : Kept(j)'
    BY <1>2, Bounds DEF SaveBackup
  <2> QED
    BY <2>1, <2>2, <2>3, <2>4, <2>5, <2>6, <2>7, Together
<1>3. CASE SaveFile
  <2>1. voice' \in [Ids -> Voice \cup {Gone}] /\ previous' \in [Ids -> Voice \cup {Gone}]
    BY <1>3, Bounds DEF SaveFile
  <2>2. owed' \in [Ids -> SUBSET (1..MaxCommands)]
    BY <1>3, Bounds DEF SaveFile
  <2>3. commands' \in 0..MaxCommands /\ faults' \in 0..MaxFaults
    BY <1>3, Bounds DEF SaveFile
  <2>4. settings' \in Settings \cup {Absent, Torn, Undecodable}
    BY <1>3, Bounds DEF SaveFile
  <2>5. ProjectTypes' /\ ProjectKnown'
    BY <1>3, Bounds DEF SaveFile
  <2>6. ImportKnown'
    BY <1>3, Bounds DEF SaveFile
  <2>7. \A j \in Ids : Kept(j)'
    BY <1>3, Bounds DEF SaveFile
  <2> QED
    BY <2>1, <2>2, <2>3, <2>4, <2>5, <2>6, <2>7, Together
<1> QED
  BY <1>1, <1>2, <1>3

\* The settings are saved.
LEMMA SettingsStep ==
  ASSUME IInv, NEW wish \in Wishes, SettingsSave(wish)
  PROVE  IInv'
<1> USE DEF IInv, TypeOK, ImportKnown, ProjectTypes, ProjectKnown, Kept, Whole, Recovers, Activating,
      voiceVars, projectVars, others, Command, Ready, Fault, Goes, Idle, Corrupt, NoSave, Load, Unreadable
<1>1. CASE SettingsSave(wish)
  <2>1. voice' \in [Ids -> Voice \cup {Gone}] /\ previous' \in [Ids -> Voice \cup {Gone}]
    BY <1>1, Bounds DEF SettingsSave
  <2>2. owed' \in [Ids -> SUBSET (1..MaxCommands)]
    BY <1>1, Bounds DEF SettingsSave
  <2>3. commands' \in 0..MaxCommands /\ faults' \in 0..MaxFaults
    BY <1>1, Bounds DEF SettingsSave
  <2>4. settings' \in Settings \cup {Absent, Torn, Undecodable}
    BY <1>1, Bounds DEF SettingsSave, Cuts
  <2>5. ProjectTypes' /\ ProjectKnown'
    BY <1>1, Bounds DEF SettingsSave
  <2>6. ImportKnown'
    <3> HIDE DEF IInv, TypeOK, ImportKnown, Kept, Whole, Idle
    <3> DEFINE s == Updated(LoadSettings, wish)
    <3>1. ImportKnown /\ import.at = "idle" /\ UNCHANGED <<voice, owed>>
      BY <1>1 DEF SettingsSave, IInv
    <3>2. CASE UNCHANGED import
      BY <3>1, <3>2 DEF ImportKnown
    <3>3. CASE LoadSettings # Raised /\ Acceptable(s) /\ import' = [Idle EXCEPT !.at = "settings", !.with = s]
      <4>5. LoadSettings \in Settings
        BY <3>3, DefaultSettings DEF LoadSettings, IInv, TypeOK
      <4>1. s \in Settings
        BY <4>5, <3>3, Asked
      <4>2. s \in With /\ 1 \in Ids
        BY <4>1, Bounds DEF With, Ids
      <4> HIDE DEF s
      <4>3. import' = [at |-> "settings", id |-> 1, overwrite |-> FALSE, had |-> FALSE, with |-> s]
        BY <3>3 DEF Idle
      <4>4. import' \in Imports
        BY <4>2, <4>3, Importing
      <4> QED
        BY <4>1, <4>3, <4>4 DEF ImportKnown, Activating
    <3> QED
      BY <1>1, <3>2, <3>3 DEF SettingsSave
  <2>7. \A j \in Ids : Kept(j)'
    BY <1>1, Bounds DEF SettingsSave
  <2> QED
    BY <2>1, <2>2, <2>3, <2>4, <2>5, <2>6, <2>7, Together
<1> QED
  BY <1>1

\* The process dies, or a file rots.
LEMMA FaultSteps ==
  ASSUME IInv, Dies \/ FileRots
  PROVE  IInv'
<1> USE DEF IInv, TypeOK, ImportKnown, ProjectTypes, ProjectKnown, Kept, Whole, Recovers, Activating,
      voiceVars, projectVars, others, Command, Ready, Fault, Goes, Idle, Corrupt, NoSave, Load, Unreadable
<1>1. CASE Dies
  <2>1. voice' \in [Ids -> Voice \cup {Gone}] /\ previous' \in [Ids -> Voice \cup {Gone}]
    BY <1>1, Bounds DEF Dies
  <2>2. owed' \in [Ids -> SUBSET (1..MaxCommands)]
    BY <1>1, Bounds DEF Dies
  <2>3. commands' \in 0..MaxCommands /\ faults' \in 0..MaxFaults
    BY <1>1, Bounds DEF Dies
  <2>4. settings' \in Settings \cup {Absent, Torn, Undecodable}
    BY <1>1, Bounds DEF Dies
  <2>5. ProjectTypes' /\ ProjectKnown'
    BY <1>1, Bounds DEF Dies
  <2>6. ImportKnown'
    BY <1>1, IdleImport DEF Dies
  <2>7. \A j \in Ids : Kept(j)'
    BY <1>1, Bounds DEF Dies
  <2> QED
    BY <2>1, <2>2, <2>3, <2>4, <2>5, <2>6, <2>7, Together
<1>2. CASE FileRots
  <2>1. voice' \in [Ids -> Voice \cup {Gone}] /\ previous' \in [Ids -> Voice \cup {Gone}]
    BY <1>2, Bounds DEF FileRots
  <2>2. owed' \in [Ids -> SUBSET (1..MaxCommands)]
    BY <1>2, Bounds DEF FileRots
  <2>3. commands' \in 0..MaxCommands /\ faults' \in 0..MaxFaults
    BY <1>2, Bounds DEF FileRots
  <2>4. settings' \in Settings \cup {Absent, Torn, Undecodable}
    BY <1>2, Bounds DEF FileRots
  <2>5. ProjectTypes' /\ ProjectKnown'
    BY <1>2, Bounds DEF FileRots
  <2>6. ImportKnown'
    BY <1>2, Bounds DEF FileRots
  <2>7. \A j \in Ids : Kept(j)'
    BY <1>2, Bounds DEF FileRots
  <2> QED
    BY <2>1, <2>2, <2>3, <2>4, <2>5, <2>6, <2>7, Together
<1> QED
  BY <1>1, <1>2

\* Every step keeps the invariant.
LEMMA StepInvariant == IInv /\ [Next]_vars => IInv'
<1> SUFFICES ASSUME IInv, [Next]_vars PROVE IInv'
  OBVIOUS
<1>1. CASE LibraryAsks
  <2>1. ASSUME NEW i \in Free, Import(i, FALSE) PROVE IInv'
    BY <2>1, ImportStep DEF Free
  <2>2. ASSUME NEW i \in Ids, Remove(i) \/ RemoveStops(i) \/ RefreshHealth(i) \/ Update(i) PROVE IInv'
    BY <2>2, LibrarySteps
  <2> QED
    BY <1>1, <2>1, <2>2 DEF LibraryAsks, VoicesImport, VoicesChange
<1>2. CASE CliVoices
  <2>1. ASSUME NEW i \in Ids, NEW overwrite \in BOOLEAN, Import(i, overwrite) PROVE IInv'
    BY <2>1, ImportStep
  <2>2. ASSUME NEW i \in Ids, Remove(i) PROVE IInv'
    BY <2>2, LibrarySteps
  <2> QED
    BY <1>2, <2>1, <2>2 DEF CliVoices
<1>3. CASE Written \/ SettingsWritten
  BY <1>3, WriteSteps
<1>4. CASE \E a \in Archives : Stage(a)
  BY <1>4, StageStep
<1>5. CASE Discard \/ SetAside \/ Swap \/ Drop
  BY <1>5, ActivationSteps
<1>6. CASE DiscardFails \/ RenameRefused \/ DropStops
  BY <1>6, BrokenOffSteps
<1>7. CASE Save \/ SaveBackup \/ SaveFile
  BY <1>7, SaveSteps
<1>8. CASE \E wish \in Wishes : SettingsSave(wish)
  BY <1>8, SettingsStep
<1>9. CASE Dies \/ FileRots
  BY <1>9, FaultSteps
<1>10. CASE UNCHANGED vars
  <2>1. /\ UNCHANGED <<voice, previous, import, owed>> /\ UNCHANGED <<project, saving, newest>>
        /\ UNCHANGED <<settings, commands, faults>>
    BY <1>10 DEF vars, voiceVars, others, projectVars
  <2>2. TypeOK'
    BY <2>1 DEF IInv, TypeOK
  <2>3. ImportKnown'
    BY <2>1 DEF IInv, ImportKnown
  <2>4. \A i \in Ids : Kept(i)'
    BY <2>1 DEF IInv, Kept, Whole, Recovers
  <2>5. ProjectKnown'
    BY <2>1 DEF IInv, ProjectKnown, Load, Unreadable
  <2> QED
    BY <2>2, <2>3, <2>4, <2>5 DEF IInv
<1> QED
  BY <1>1, <1>2, <1>3, <1>4, <1>5, <1>6, <1>7, <1>8, <1>9, <1>10 DEF Next

\* The invariant holds when there is nothing yet.
LEMMA InitInvariant == Init => IInv
<1> SUFFICES ASSUME Init PROVE IInv
  OBVIOUS
<1>1. Idle \in Imports /\ Idle.at = "idle"
  BY Bounds DEF Idle, Ids, With, Imports
<1>2. ImportKnown
  BY <1>1 DEF Init, ImportKnown, Activating
<1>3. TypeOK
  <2>1. voice \in [Ids -> Voice \cup {Gone}] /\ previous \in [Ids -> Voice \cup {Gone}] /\ owed \in [Ids -> SUBSET (1..MaxCommands)]
    BY DEF Init
  <2>2. import.at = "idle" /\ import.id \in Ids
    BY Bounds DEF Init, Idle, Ids
  <2>3. project \in [file : 0..Corrupt, backup : 0..MaxCommands] /\ saving \in 0..NoSave \ {Corrupt}
    BY Bounds DEF Init, Corrupt, NoSave
  <2>4. settings \in Settings \cup {Absent, Torn, Undecodable}
    BY DEF Init
  <2>5. commands \in 0..MaxCommands /\ faults \in 0..MaxFaults
    BY Bounds DEF Init
  <2> QED
    BY <2>1, <2>2, <2>3, <2>4, <2>5 DEF TypeOK
<1>4. (\A i \in Ids : Kept(i)) /\ ProjectKnown
  BY Bounds DEF Init, Kept, ProjectKnown
<1> QED
  BY <1>2, <1>3, <1>4 DEF IInv

\* What is known of the command under way, of the voices that are owed and of
\* the project under way holds in every state.
THEOREM Invariance == Spec => []IInv
  BY InitInvariant, StepInvariant, PTL DEF Spec

\* Every variable keeps to its type: a settings file is whole, and has passed
\* every check, or it is one of those that broke off (config.py, server.py).
THEOREM DataTypes == Spec => []TypeOK
<1>1. IInv => TypeOK
  BY DEF IInv
<1> QED
  BY <1>1, Invariance, PTL

\* A voice that was imported, and that nobody removed or replaced, is whole, in
\* its place or where the next import of its id brings it back from, whichever
\* step of an activation failed or never came, and is called usable only when its
\* weights were found sound (importer.py, library.py).
THEOREM VoicesAreKept == Spec => []VoiceKept
<1>1. IInv => VoiceKept
  BY DEF IInv, VoiceKept, Kept, Whole
<1> QED
  BY <1>1, Invariance, PTL

\* A project that was saved twice loads as its last version or as the one that
\* version was made from, whatever happened to its file (store.py).
THEOREM ProjectsAreKept == Spec => []ProjectKept
<1>1. IInv => ProjectKept
  BY Bounds DEF IInv, ProjectKnown, ProjectKept, Load, Unreadable, Corrupt
<1> QED
  BY <1>1, Invariance, PTL

\* Only an import that was told to replaces a voice: no other step changes what
\* is owed under an id to anything but nothing.
LEMMA OnlySwapReplaces ==
  ASSUME IInv, [Next]_vars, NEW i \in Ids, owed[i] # {}, owed'[i] \notin {owed[i], {}}
  PROVE  import.overwrite
<1>1. owed \in [Ids -> SUBSET (1..MaxCommands)]
  BY DEF IInv, TypeOK
<1>2. ~UNCHANGED owed /\ ~(\E j \in Ids : owed' = [owed EXCEPT ![j] = {}])
  BY <1>1
<1>3. ~LibraryAsks /\ ~CliVoices
  BY <1>2 DEF LibraryAsks, VoicesImport, VoicesChange, CliVoices, Import, Remove, RemoveStops, RefreshHealth, Update
<1>4. ~Written /\ ~SettingsWritten /\ ~(\E a \in Archives : Stage(a)) /\ ~(\E wish \in Wishes : SettingsSave(wish))
  BY <1>2 DEF Written, SettingsWritten, Stage, SettingsSave
<1>5. ~Discard /\ ~DiscardFails /\ ~SetAside /\ ~RenameRefused /\ ~Drop /\ ~DropStops
  BY <1>2 DEF Discard, DiscardFails, SetAside, RenameRefused, Drop, DropStops
<1>6. ~Save /\ ~SaveBackup /\ ~SaveFile /\ ~Dies /\ ~FileRots /\ ~UNCHANGED vars
  BY <1>2 DEF Save, SaveBackup, SaveFile, Dies, FileRots, vars, voiceVars
<1>7. Swap
  BY <1>3, <1>4, <1>5, <1>6 DEF Next
<1>8. import.at = "swap" /\ owed' = [owed EXCEPT ![import.id] = {import.with.gen}]
  BY <1>7 DEF Swap
<1>9. import.id = i
  BY <1>1, <1>8
<1> QED
  BY <1>8, <1>9 DEF IInv, ImportKnown

\* A voice of the library is replaced only by an import that was told to, also
\* after an activation that broke off (importer.py).
THEOREM ReplacedWhenTold == Spec => ReplacedOnRequest
<1>1. IInv /\ [Next]_vars => [\A i \in Ids : owed[i] # {} /\ owed'[i] \notin {owed[i], {}} => import.overwrite]_vars
  BY OnlySwapReplaces
<1> QED
  BY <1>1, Invariance, PTL DEF Spec, ReplacedOnRequest
================================================================================

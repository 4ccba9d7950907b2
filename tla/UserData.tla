------------------------------ MODULE UserData -------------------------------
(***************************************************************************)
(* What the user keeps: the voice library (svc_engine/voices), the         *)
(* projects (svc_engine/projects) and the settings (config.py), as         *)
(* directories and files that a process may leave half-way.  Commands run  *)
(* one after the other, in the engine or as `svc voices`, and the process  *)
(* that runs one may die at any step.                                      *)
(***************************************************************************)
EXTENDS Integers, Sequences

Seqs == INSTANCE SequencesExt

CONSTANTS
  NIds,         \* the ids of a name: the plain one, then those with a number
  Archives,     \* what is imported: sequences of [kind, size, sound]
  Wishes,       \* what a save of the settings may ask for: some of their fields
  NonAscii,     \* the folders whose name has a character of several bytes
  MaxCommands,  \* bound: commands in a behaviour
  MaxFaults     \* bound: deaths, locked files and corrupted files

ASSUME BoundsAssumption == NIds \in Nat \ {0} /\ MaxCommands \in Nat /\ MaxFaults \in Nat
ASSUME WishesAssumption == \A w \in Wishes : "is" \notin DOMAIN w

VARIABLES
  voice,        \* voice[i]: the directory of an id
  previous,     \* previous[i]: the directory an activation set aside
  import,       \* the command under way
  owed,         \* history: owed[i], the imports the user may hold under an id
  project,      \* [file, backup]: versions, 0 for none
  saving,       \* the save under way: what was read of the project before it
  newest,       \* history: the version saved last, and what it was made from
  settings,     \* settings.json: Absent, Torn, Undecodable, or what it says
  commands, faults

voiceVars   == <<voice, previous, import, owed>>
projectVars == <<project, saving, newest>>
others == <<projectVars, settings>>
vars == <<voiceVars, others, commands, faults>>

Ids  == 1..NIds
\* gen: which import it comes from; sound: nothing, or whether its model file
\* has the signature of a checkpoint.
Gone    == [gen |-> 0, model |-> "none", manifest |-> "none"]
Voice   == [gen : 1..MaxCommands, model : {"sound", "broken", "none"},
            manifest : {"none", "torn", "ok", "corrupt", "missing"}]
Idle    == [at |-> "idle", id |-> 1, overwrite |-> FALSE, had |-> FALSE, with |-> Gone]
Corrupt == MaxCommands + 1
NoSave  == MaxCommands + 2
\* The settings, one field for each way they are treated.  A file that breaks off
\* is no JSON, and no UTF-8 either when it does so inside a character.
Absent      == [is |-> "absent"]
Torn        == [is |-> "torn"]
Undecodable == [is |-> "undecodable"]
Raised      == [is |-> "raised"]
Folders     == {""} \cup {w.output_dir : w \in {w \in Wishes : "output_dir" \in DOMAIN w}}
Settings == [is : {"whole"}, quality : {"fast", "balanced", "max"}, theme : {"system", "light", "dark"},
             target_lufs : -70..-5, output_dir : Folders]
Defaults == [is |-> "whole", quality |-> "balanced", theme |-> "system", target_lufs |-> -14, output_dir |-> ""]

Init ==
  /\ voice = [i \in Ids |-> Gone] /\ previous = [i \in Ids |-> Gone]
  /\ import = Idle /\ owed = [i \in Ids |-> {}]
  /\ project = [file |-> 0, backup |-> 0] /\ saving = NoSave
  /\ newest = [version |-> 0, base |-> 0] /\ settings = Absent
  /\ commands = 0 /\ faults = MaxFaults

Ready   == import.at = "idle" /\ saving = NoSave
Command == Ready /\ commands < MaxCommands /\ commands' = commands + 1 /\ UNCHANGED faults
Fault   == faults > 0 /\ faults' = faults - 1 /\ UNCHANGED commands
Goes    == UNCHANGED <<commands, faults>>

-----------------------------------------------------------------------------
(* The library *)

Contains(v, i) == v[i].manifest # "none"
\* list and get need a manifest that can be read.
Listed(i)      == voice[i].manifest \notin {"none", "torn"}
CheckHealth(v) == CASE v.model = "none" -> "missing" [] v.model = "broken" -> "corrupt" [] OTHER -> "ok"
Usable(i)      == voice[i].manifest = "ok"

\* A directory that is removed goes file by file; whoever stops leaves some.
Remains(v) == {[v EXCEPT !.model = "none"], [v EXCEPT !.manifest = "none"],
               [v EXCEPT !.model = "none", !.manifest = "none"]}

Remove(i) ==
  /\ Command /\ voice[i] # Gone
  /\ voice' = [voice EXCEPT ![i] = Gone] /\ owed' = [owed EXCEPT ![i] = {}]
  /\ UNCHANGED <<previous, import, others>>
RemoveStops(i) ==
  /\ Ready /\ Fault /\ voice[i] # Gone
  /\ \E left \in Remains(voice[i]) : voice' = [voice EXCEPT ![i] = left]
  /\ owed' = [owed EXCEPT ![i] = {}]
  /\ UNCHANGED <<previous, import, others>>

\* The manifest is written in place, and is torn until it is written.
RefreshHealth(i) ==
  /\ Command /\ Listed(i)
  /\ import' = [Idle EXCEPT !.at = "write", !.id = i, !.with = [voice[i] EXCEPT !.manifest = CheckHealth(voice[i])]]
  /\ voice' = [voice EXCEPT ![i].manifest = "torn"]
  /\ UNCHANGED <<previous, owed, others>>
\* A new name, sample or picture; what the manifest says of the health stays.
Update(i) ==
  /\ Command /\ Listed(i)
  /\ import' = [Idle EXCEPT !.at = "write", !.id = i, !.with = voice[i]]
  /\ voice' = [voice EXCEPT ![i].manifest = "torn"]
  /\ UNCHANGED <<previous, owed, others>>
Written ==
  /\ import.at = "write" /\ Goes
  /\ voice' = [voice EXCEPT ![import.id] = import.with] /\ import' = Idle
  /\ UNCHANGED <<previous, owed, others>>

-----------------------------------------------------------------------------
(* import_voice_from_zip *)

\* Of several models and indexes the largest is taken, of anything else the last.
Better(found, m) ==
  IF m.kind \in {"model", "index"} /\ m.kind \in DOMAIN found /\ m.size <= found[m.kind].size
    THEN found ELSE [k \in DOMAIN found \cup {m.kind} |-> IF k = m.kind THEN m ELSE found[k]]
ExtractInto(archive) == Seqs!FoldLeft(Better, <<>>, archive)

\* Mutant: the manifest is saved once, before the model is looked at.
PlaceUnchecked(staged) ==
  [gen |-> commands, model |-> IF staged["model"].sound THEN "sound" ELSE "broken", manifest |-> "unknown"]

\* The manifest is saved, the model looked at, and the manifest saved again.
Place(staged) ==
  LET v == [gen |-> commands, model |-> IF staged["model"].sound THEN "sound" ELSE "broken", manifest |-> "none"]
  IN  [v EXCEPT !.manifest = CheckHealth(v)]

\* Only what an activation set aside, and nothing in its place: it comes back.
Recovers(i) == previous[i] # Gone /\ voice[i] = Gone
Recover(i) ==
  IF Recovers(i) THEN /\ voice' = [voice EXCEPT ![i] = previous[i]]
                      /\ previous' = [previous EXCEPT ![i] = Gone]
                 ELSE UNCHANGED <<voice, previous>>

\* Mutant: an id that is taken is imported over without being told to.
ImportTaken(i, overwrite) ==
  /\ Command /\ Recover(i) /\ UNCHANGED <<owed, others>>
  /\ import' = [Idle EXCEPT !.at = "stage", !.id = i, !.overwrite = overwrite]

\* Consent is given and the file is a zip archive, or nothing happens.  Without
\* an id the first free one is taken; one that is taken needs `overwrite`.
Import(i, overwrite) ==
  /\ Command /\ Recover(i) /\ UNCHANGED <<owed, others>>
  /\ import' = IF Contains(voice', i) /\ ~overwrite THEN import
               ELSE [Idle EXCEPT !.at = "stage", !.id = i, !.overwrite = overwrite]
Free == {i \in Ids : ~Contains(voice, i) /\ \A j \in 1..(i - 1) : Contains(voice, j)}

\* Everything is made in a directory no listing looks at.
Stage(archive) ==
  LET staged == ExtractInto(archive) IN
  /\ import.at = "stage" /\ Goes
  /\ import' = IF "model" \notin DOMAIN staged THEN Idle
               ELSE [import EXCEPT !.at = "discard", !.with = Place(staged)]
  /\ UNCHANGED <<voice, previous, owed, others>>

\* _activate_replacement.  A directory that is in place makes the one that was
\* set aside stale.
Discard ==
  /\ import.at = "discard" /\ Goes
  /\ IF Recovers(import.id) THEN Recover(import.id)
     ELSE previous' = [previous EXCEPT ![import.id] = Gone] /\ UNCHANGED voice
  /\ import' = [import EXCEPT !.at = "aside"]
  /\ UNCHANGED <<owed, others>>
DiscardFails ==
  /\ import.at = "discard" /\ Fault /\ previous[import.id] # Gone /\ ~Recovers(import.id)
  /\ \E left \in Remains(previous[import.id]) : previous' = [previous EXCEPT ![import.id] = left]
  /\ import' = Idle
  /\ UNCHANGED <<voice, owed, others>>

\* Mutant: the voice in place is removed to make room.
SetAsideRemoves ==
  /\ import.at = "aside" /\ Goes
  /\ import' = [import EXCEPT !.at = "swap"]
  /\ voice' = [voice EXCEPT ![import.id] = Gone]
  /\ UNCHANGED <<previous, owed, others>>

SetAside ==
  /\ import.at = "aside" /\ Goes
  /\ import' = [import EXCEPT !.at = "swap", !.had = voice[import.id] # Gone]
  /\ IF voice[import.id] = Gone THEN UNCHANGED <<voice, previous>>
     ELSE /\ previous' = [previous EXCEPT ![import.id] = voice[import.id]]
          /\ voice' = [voice EXCEPT ![import.id] = Gone]
  /\ UNCHANGED <<owed, others>>
Swap ==
  /\ import.at = "swap" /\ Goes
  /\ voice' = [voice EXCEPT ![import.id] = import.with]
  /\ owed' = [owed EXCEPT ![import.id] = {import.with.gen}]
  /\ import' = [import EXCEPT !.at = "drop"]
  /\ UNCHANGED <<previous, others>>
\* One of the renames is refused: the voice that was there is put back.
RenameRefused ==
  /\ import.at \in {"aside", "swap"} /\ Fault /\ import' = Idle
  /\ IF import.had THEN Recover(import.id) ELSE UNCHANGED <<voice, previous>>
  /\ UNCHANGED <<owed, others>>
\* What was set aside is removed as far as it can be.
Drop ==
  /\ import.at = "drop" /\ Goes /\ import' = Idle
  /\ previous' = IF import.had THEN [previous EXCEPT ![import.id] = Gone] ELSE previous
  /\ UNCHANGED <<voice, owed, others>>
DropStops ==
  /\ import.at = "drop" /\ import.had /\ Fault /\ import' = Idle
  /\ \E left \in Remains(previous[import.id]) : previous' = [previous EXCEPT ![import.id] = left]
  /\ UNCHANGED <<voice, owed, others>>

-----------------------------------------------------------------------------
(* ProjectStore; the window saves the choices whenever it starts a cover *)

Unreadable(v) == v \in {0, Corrupt}
Load          == IF Unreadable(project.file) THEN project.backup ELSE project.file
\* list shows what can be read without the backup.
Shown         == ~Unreadable(project.file)

Save ==
  /\ Command
  /\ saving' = IF project.file # 0 /\ Unreadable(Load) THEN NoSave
               ELSE IF project.file = 0 THEN 0 ELSE Load
  /\ UNCHANGED <<voiceVars, project, newest, settings>>
\* Mutant: the file is copied to the backup as it is.
SaveBackupAsIs ==
  /\ saving \notin {NoSave, 0} /\ project.backup # project.file /\ Goes
  /\ project' = [project EXCEPT !.backup = project.file]
  /\ UNCHANGED <<voiceVars, saving, newest, settings>>

\* A copy of what was read, then the new version; each appears as a whole.
SaveBackup ==
  /\ saving \notin {NoSave, 0} /\ project.backup # saving /\ Goes
  /\ project' = [project EXCEPT !.backup = saving]
  /\ UNCHANGED <<voiceVars, saving, newest, settings>>
SaveFile ==
  /\ saving # NoSave /\ (saving = 0 \/ project.backup = saving) /\ Goes
  /\ project' = [project EXCEPT !.file = commands]
  /\ newest' = [version |-> commands, base |-> saving] /\ saving' = NoSave
  /\ UNCHANGED <<voiceVars, settings>>

-----------------------------------------------------------------------------
(* Settings *)

\* What is no JSON is as good as nothing; what is no text is not foreseen, and
\* the command that reads it is answered with an internal error.
LoadSettings  == CASE settings \in {Absent, Torn} -> Defaults
                   [] settings = Undecodable -> Raised
                   [] OTHER -> settings
Acceptable(s) == s.quality \in {"fast", "balanced", "max"} /\ s.theme \in {"system", "light", "dark"}
                 /\ s.target_lufs \in -70..-5
Updated(s, wish) == [f \in DOMAIN s |-> IF f \in DOMAIN wish THEN wish[f] ELSE s[f]]

\* Where the write of a file may break off.
Cuts(s) == {Torn} \cup (IF s.output_dir \in NonAscii THEN {Undecodable} ELSE {})

\* The fields asked for replace those that are there; all is checked before
\* anything is written, and the file is then written in place.
SettingsSave(wish) ==
  LET s == Updated(LoadSettings, wish) IN
  /\ Command /\ UNCHANGED <<previous, voice, owed, projectVars>>
  /\ IF LoadSettings # Raised /\ Acceptable(s)
     THEN import' = [Idle EXCEPT !.at = "settings", !.with = s] /\ settings' \in Cuts(s)
     ELSE UNCHANGED <<import, settings>>
SettingsWritten ==
  /\ import.at = "settings" /\ Goes
  /\ settings' = import.with /\ import' = Idle
  /\ UNCHANGED <<voice, previous, owed, projectVars>>

-----------------------------------------------------------------------------
(* Who asks *)

\* The engine takes no id from the window and overwrites nothing.
VoicesImport == \E i \in Free : Import(i, FALSE)
VoicesChange == \E i \in Ids : Remove(i) \/ RemoveStops(i) \/ RefreshHealth(i) \/ Update(i)
LibraryAsks  == VoicesImport \/ VoicesChange
\* `svc voices`: an id may be given, and it may be one that is taken.
CliVoices    == \E i \in Ids : Remove(i) \/ \E overwrite \in BOOLEAN : Import(i, overwrite)

\* The process dies; what it made aside stays where nothing looks for it.
Dies ==
  /\ ~Ready /\ Fault /\ import' = Idle /\ saving' = NoSave
  /\ UNCHANGED <<voice, previous, owed, project, newest, settings>>
FileRots ==
  /\ Ready /\ ~Unreadable(project.file) /\ Fault
  /\ project' = [project EXCEPT !.file = Corrupt]
  /\ UNCHANGED <<voiceVars, saving, newest, settings>>

Next ==
  \/ LibraryAsks \/ CliVoices \/ Written
  \/ \E a \in Archives : Stage(a)
  \/ Discard \/ DiscardFails \/ SetAside \/ Swap \/ RenameRefused \/ Drop \/ DropStops
  \/ Save \/ SaveBackup \/ SaveFile
  \/ (\E wish \in Wishes : SettingsSave(wish)) \/ SettingsWritten
  \/ Dies \/ FileRots

Spec == Init /\ [][Next]_vars

-----------------------------------------------------------------------------
(* Properties *)

\* Every variable keeps to its type, whatever was asked for and wherever a save
\* broke off: a settings file that is whole has passed every check.
TypeOK ==
  /\ voice \in [Ids -> Voice \cup {Gone}] /\ previous \in [Ids -> Voice \cup {Gone}]
  /\ import.at \in {"idle", "stage", "discard", "aside", "swap", "drop", "write", "settings"} /\ import.id \in Ids
  /\ owed \in [Ids -> SUBSET (1..MaxCommands)]
  /\ project \in [file : 0..Corrupt, backup : 0..MaxCommands] /\ saving \in 0..NoSave \ {Corrupt}
  /\ settings \in Settings \cup {Absent, Torn, Undecodable}
  /\ commands \in 0..MaxCommands /\ faults \in 0..MaxFaults

\* A voice that was imported and that nobody removed or replaced is there, with
\* its weights and its manifest file, in its place or where the next import of its
\* id brings it back from, whichever step of an activation failed or never came;
\* and its manifest calls it usable only when its weights were found sound
\* (importer.py, library.py).
VoiceKept ==
  \A i \in Ids : owed[i] # {} =>
    \E v \in {voice[i], IF Recovers(i) THEN previous[i] ELSE voice[i]} :
      /\ v.gen \in owed[i] /\ v.model # "none" /\ v.manifest # "none"
      /\ v.manifest = "ok" => v.model = "sound"

\* A voice of the library is replaced only by an import that was told to: any
\* other takes a free id or is refused, also after an activation that broke off
\* has left the id without its directory (importer.py).
ReplacedOnRequest ==
  [][\A i \in Ids : owed[i] # {} /\ owed'[i] \notin {owed[i], {}} => import.overwrite]_vars

\* A project that was saved twice loads, as the version saved last or as the one
\* that version was made from, whatever happened to its file and wherever a save
\* broke off (store.py).
ProjectKept == newest.base # 0 => Load \in {newest.version, newest.base}
==============================================================================

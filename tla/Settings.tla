------------------------------ MODULE Settings ------------------------------
(***************************************************************************)
(* Which profile a command is for, and what its settings are                *)
(* (src/src/config.ts, src/src/profile.ts): the first word, MAX_PROFILE and *)
(* MAX_PROFILE_LOCK, the configuration file with a part for each profile    *)
(* and one for all, and `max config set` and `unset`, which read the file,  *)
(* change it and write it whole, beside one another.                        *)
(*                                                                          *)
(* What the settings stop is Permits' matter.  A setting's values are those *)
(* its schema takes, and one it does not.                                   *)
(***************************************************************************)
EXTENDS Naturals

CONSTANTS
  Terminals,       \* processes, one command at a time
  Names,           \* what may be typed or set as the name of a profile
  PlainNames,      \* those a file may be called
  CommandNames,    \* those that are commands
  DefaultProfile,  \* DEFAULT_PROFILE
  ProfileSettings, DefaultsOnly,
  GoodValues,      \* values the schema takes
  MaxSettings      \* bound on the commands that change something

ASSUME SettingsAssumption ==
  /\ PlainNames \subseteq Names /\ DefaultProfile \in PlainNames \ CommandNames
  /\ ProfileSettings \cap DefaultsOnly = {} /\ MaxSettings \in Nat

Missing == "not given"
BadValue == "refused by the schema"
AllSettings == ProfileSettings \cup DefaultsOnly
Optional(S) == S \cup {Missing}

VARIABLES
  config,     \* the file: defaultProfile, defaults, profiles
  terminal,   \* what the command of each process is about, and what it has read
  overtaken,  \* has another process saved since it read?
  changes

settingsVars == << config, terminal, overtaken, changes >>

NoCommand == [at |-> "idle", lock |-> Missing, profile |-> Missing, defaults |-> FALSE, setting |-> Missing,
              value |-> Missing, read |-> Missing]

\* No file, or one written by hand.
SettingsInit ==
  /\ \E named \in Optional(PlainNames), shared \in Optional(GoodValues) :
       config = [defaultProfile |-> named,
                 defaults |-> [s \in AllSettings |-> IF s \in ProfileSettings THEN shared ELSE Missing],
                 profiles |-> [q \in PlainNames |-> [s \in ProfileSettings |-> Missing]]]
  /\ terminal = [p \in Terminals |-> NoCommand]
  /\ overtaken = [p \in Terminals |-> FALSE]
  /\ changes = 0

----------------------------------------------------------------------------
\* The first word is the profile unless it names a command.
LiftProfile(word) == IF word \in CommandNames THEN Missing ELSE word

\* The first given value wins, and says which it was.
FirstKnown(candidates, fallback) ==
  LET given == { i \in DOMAIN candidates : candidates[i].value # Missing } IN
  IF given = {} THEN [from |-> "default", value |-> fallback]
  ELSE candidates[CHOOSE i \in given : \A j \in given : i <= j]

\* A mutant: the lock gives way to whatever the profile was taken from.
LockedLoosely(profile, lock) == IF lock = Missing \/ profile.from # "default" THEN profile ELSE [from |-> "lock", value |-> lock]

\* One that names another profile is refused; the rest gives way to the lock.
Refusal == [from |-> "refused", value |-> Missing]
Locked(profile, lock) ==
  IF lock = Missing \/ profile.value = lock THEN profile
  ELSE IF profile.from \in {"first word", "MAX_PROFILE"} \/ lock \notin PlainNames THEN Refusal
  ELSE [from |-> "lock", value |-> lock]

ProfileOf(word, env, lock) ==
  LET profile == Locked(FirstKnown(<< [from |-> "first word", value |-> LiftProfile(word)],
                                 [from |-> "MAX_PROFILE", value |-> env],
                                 [from |-> "config file", value |-> config.defaultProfile] >>, DefaultProfile), lock)
  IN IF profile.value \in PlainNames THEN profile ELSE Refusal

\* What a command of the profile uses, and where it comes from.
BuiltIn == "built in"
Resolve(file, profile, setting, flag) ==
  FirstKnown(<< [from |-> "flag", value |-> flag],
           [from |-> "config file", value |-> IF setting \in ProfileSettings THEN file.profiles[profile][setting] ELSE Missing],
           [from |-> "config defaults", value |-> file.defaults[setting]] >>, BuiltIn)

----------------------------------------------------------------------------
\* `config set` and `unset`: the settings are resolved first, and a locked process may not change what all share.
MayChange(lock, defaults) == ~(defaults /\ lock # Missing)

TypesChange(p, lock, profile, defaults, setting, value) ==
  /\ terminal[p].at = "idle" /\ changes < MaxSettings
  /\ MayChange(lock, defaults)
  /\ setting \in ProfileSettings \/ defaults
  /\ changes' = changes + 1
  /\ terminal' = [terminal EXCEPT ![p] =
       [at |-> "resolved", lock |-> lock, profile |-> profile, defaults |-> defaults,
        setting |-> setting, value |-> value, read |-> Missing]]
  /\ UNCHANGED << config, overtaken >>

ReadsFile(p) ==
  /\ terminal[p].at = "resolved"
  /\ terminal' = [terminal EXCEPT ![p].at = "read", ![p].read = config]
  /\ overtaken' = [overtaken EXCEPT ![p] = FALSE]
  /\ UNCHANGED << config, changes >>

\* changeSetting: the scope it read, with the one setting set or deleted; the whole file is checked.
Changed(file, t) ==
  IF t.defaults THEN [file EXCEPT !.defaults[t.setting] = t.value]
                ELSE [file EXCEPT !.profiles[t.profile][t.setting] = t.value]

SavesFile(p) ==
  /\ terminal[p].at = "read"
  /\ IF terminal[p].value = BadValue
     THEN UNCHANGED << config, overtaken >>
     ELSE /\ config' = Changed(terminal[p].read, terminal[p])
          /\ overtaken' = [q \in Terminals |-> overtaken[q] \/ q # p]
  /\ terminal' = [terminal EXCEPT ![p] = NoCommand]
  /\ UNCHANGED changes

\* The profiles a process with this lock may be for.
Selected(lock) ==
  { ProfileOf(word, env, lock) : word \in Optional(Names), env \in Optional(Names) } \ {Refusal}

Typed(p) ==
  \E lock \in Optional(Names) : \E profile \in { selected.value : selected \in Selected(lock) } :
    \E defaults \in BOOLEAN, setting \in AllSettings, value \in Optional(GoodValues \cup {BadValue}) :
      TypesChange(p, lock, profile, defaults, setting, value)

SettingsNext == \E p \in Terminals : Typed(p) \/ ReadsFile(p) \/ SavesFile(p)

SettingsSpec == SettingsInit /\ [][SettingsNext]_settingsVars

----------------------------------------------------------------------------
Files == [defaultProfile : Optional(PlainNames), defaults : [AllSettings -> Optional(GoodValues)],
          profiles : [PlainNames -> [ProfileSettings -> Optional(GoodValues)]]]

SettingsTypeOK ==
  /\ config \in Files
  /\ \A p \in Terminals :
       /\ terminal[p].at \in {"idle", "resolved", "read"} /\ terminal[p].defaults \in BOOLEAN
       /\ {terminal[p].lock, terminal[p].profile} \subseteq Optional(PlainNames)
       /\ terminal[p].setting \in Optional(AllSettings)
       /\ terminal[p].value \in Optional(GoodValues \cup {BadValue})
       /\ terminal[p].at = "read" => terminal[p].read \in Files
  /\ overtaken \in [Terminals -> BOOLEAN]
  /\ changes \in 0 .. MaxSettings

\* Those whose commands read the setting a change is about, and what they read after it.
Reached(t, q) == IF t.defaults THEN t.setting \in DefaultsOnly \/ config.profiles[q][t.setting] = Missing ELSE q = t.profile
Wanted(t) ==
  IF t.value # Missing THEN t.value
  ELSE IF t.defaults \/ config.defaults[t.setting] = Missing THEN BuiltIn ELSE config.defaults[t.setting]

(***************************************************************************)
(* A change that is saved is what the commands it is for read from then on, *)
(* and no other command reads anything else than before: the settings of a  *)
(* profile, those of all and the program's own lie over each other, and the *)
(* file is written whole.  A process locked to a profile changes that one   *)
(* and no other, whatever it was told (src/src/config.ts:184).  The change  *)
(* of another that came between the read and the save is lost, and that is  *)
(* the one exception.                                                       *)
(***************************************************************************)
ChangeIsWhatWasSaid ==
  [][\A p \in Terminals : terminal[p].at = "read" /\ terminal'[p].at = "idle" /\ config' # config /\ ~overtaken[p] =>
       /\ \A q \in PlainNames, s \in AllSettings :
            Resolve(config', q, s, Missing).value =
              IF s = terminal[p].setting /\ Reached(terminal[p], q) THEN Wanted(terminal[p])
              ELSE Resolve(config, q, s, Missing).value
       /\ terminal[p].lock # Missing =>
            \A q \in PlainNames \ {terminal[p].lock} : \A s \in AllSettings : 
              Resolve(config', q, s, Missing) = Resolve(config, q, s, Missing)]_settingsVars
=============================================================================

-------------------------------- MODULE Setup ---------------------------------
(***************************************************************************)
(* `brain init` and `brain install-hooks` over the files they share with   *)
(* the user: three configurations, written only if absent, .gitignore, to  *)
(* which one line is added, and .claude/settings.json, into which two      *)
(* hooks are merged.  A write empties the file first; runs may meet, die   *)
(* anywhere and be repeated, and the user edits the files at any time.     *)
(***************************************************************************)
EXTENDS Naturals, Sequences

CONSTANTS
  Installers,       \* processes that run one of the two commands, again and again
  Configs,          \* the configurations, in the order of the code
  Entries,          \* what the user has in .gitignore and in settings.json
  Own,              \* the line ".brain/", or one that means it
  Missing, Garbled, \* no file; one that does not parse
  MaxUserEdits      \* BOUND

Names  == {Configs[n] : n \in 1 .. Len(Configs)}
Events == {"UserPromptSubmit", "Stop"}

ASSUME SetupConstants ==
  /\ Configs \in Seq({"config", "providers", "project"}) /\ "project" \in Names
  /\ Own \notin Entries /\ MaxUserEdits \in Nat

\* Where a value of another shape than the merge expects may be: instead of the
\* object of the whole file, of its "hooks", or of the array of an event.
OddPlaces == {{"root"}, {"hooks"}} \cup SUBSET Events

\* How often each of our commands is registered, what else is there, and where the
\* user has a value of another shape.
Settings == [own : [Events -> Nat], foreign : SUBSET Entries, odd : OddPlaces]

\* No file, and one that does not parse, are told from what files hold.
ASSUME SetupSentinels ==
  /\ Missing # Garbled /\ {Missing, Garbled} \cap {"default", "edited"} = {}
  /\ \A lines \in SUBSET (Entries \cup {Own}) : lines # Missing
  /\ Missing \notin Settings /\ Garbled \notin Settings

NoSettings == [own |-> [e \in Events |-> 0], foreign |-> {}, odd |-> {}]

VARIABLES
  configs,   \* each configuration: Missing, Garbled, or whose it is
  ignore,    \* .gitignore
  settings,  \* .claude/settings.json
  made,      \* the database and the hook scripts, where they exist
  installer, \* each process: its command, where it is, what it has read
  wanted,    \* what the user has put into each file
  excused,   \* files that a run left half written, or that changed under a run that
             \* rewrote them
  userEdits  \* edits so far

shared    == <<configs, ignore, settings>>
user      == <<wanted, userEdits>>
setupVars == <<shared, made, installer, user, excused>>

IdleInstaller == [op |-> "init", stage |-> "idle", n |-> 1, lines |-> {},
                  merged |-> NoSettings, met |-> FALSE]

SetupInit ==
  /\ wanted \in [configs : [Names -> BOOLEAN], ignore : {{}, Entries},
                 settings : [foreign : {{}, Entries}, odd : {{}}, parses : {TRUE}]]
  /\ configs = [c \in Names |-> IF wanted.configs[c] THEN "edited" ELSE Missing]
  /\ ignore = IF wanted.ignore = {} THEN Missing ELSE wanted.ignore
  /\ settings = IF wanted.settings.foreign = {} THEN Missing
                ELSE [NoSettings EXCEPT !.foreign = Entries]
  /\ made = {} /\ excused = {} /\ userEdits = 0
  /\ installer = [p \in Installers |-> IdleInstaller]

Stage(p)     == installer[p].stage
Working(p)   == Stage(p) \notin {"idle", "done"}
SetupTo(p, l) == installer' = [installer EXCEPT ![p].stage = l]
Config(p)    == Configs[installer[p].n]

\* Between the look at a file and the end of its write.
Rewrites(p, f) ==
  CASE f = "ignore"   -> Stage(p) \in {"open ignore", "fill ignore"}
    [] f = "settings" -> Stage(p) \in {"open settings", "fill settings"}
    [] OTHER          -> Stage(p) \in {"create", "fill"} /\ Config(p) = f
Emptied(p, f) ==
  Rewrites(p, f) /\ Stage(p) \in {"fill", "fill ignore", "fill settings"}

\* A run begins to rewrite f while another one does.
Meets(p, f) ==
  excused' = IF \E q \in Installers \ {p} : Rewrites(q, f) THEN excused \cup {f} ELSE excused

-----------------------------------------------------------------------------
(* scaffold::init.                                                         *)

Initialised == "database" \in made /\ configs["project"] # Missing

BeginSetup(p) ==
  /\ ~Working(p)
  /\ \E op \in {"init", "install"} :
       installer' = [q \in Installers |->
         IF q = p
         THEN [IdleInstaller EXCEPT !.op = op, !.met = \E r \in Installers : Working(r),
                 !.stage = IF op = "install" /\ Initialised THEN "scripts" ELSE "config"]
         ELSE [installer[q] EXCEPT !.met = TRUE]]
  /\ UNCHANGED <<shared, made, user, excused>>

AfterConfig(p) ==
  LET last == installer[p].n = Len(Configs) IN
  installer' = [installer EXCEPT ![p].stage = IF last THEN "database" ELSE "config",
                                 ![p].n     = IF last THEN 1 ELSE @ + 1]

\* Mutant: save, not save_if_absent.
CheckNothing(p) ==
  /\ Stage(p) = "config"
  /\ SetupTo(p, "create") /\ Meets(p, Config(p))
  /\ UNCHANGED <<shared, made, user>>

\* save_if_absent: an existing file is left as it is.
CheckConfig(p) ==
  /\ Stage(p) = "config"
  /\ IF configs[Config(p)] = Missing
     THEN SetupTo(p, "create") /\ Meets(p, Config(p))
     ELSE AfterConfig(p) /\ UNCHANGED excused
  /\ UNCHANGED <<shared, made, user>>

CreateConfig(p) ==
  /\ Stage(p) = "create"
  /\ configs' = [configs EXCEPT ![Config(p)] = Garbled]
  /\ SetupTo(p, "fill")
  /\ UNCHANGED <<ignore, settings, made, user, excused>>

FillConfig(p) ==
  /\ Stage(p) = "fill"
  /\ configs' = [configs EXCEPT ![Config(p)] = "default"]
  /\ AfterConfig(p)
  /\ UNCHANGED <<ignore, settings, made, user, excused>>

\* db::open creates and migrates (Migrations).
CreateDatabase(p) ==
  /\ Stage(p) = "database"
  /\ made' = made \cup {"database"}
  /\ SetupTo(p, "ignore")
  /\ UNCHANGED <<shared, user, excused>>

\* What it read is of no more use.
AfterInit(p) ==
  installer' = [installer EXCEPT ![p].lines = {},
                  ![p].stage = IF installer[p].op = "init" THEN "done" ELSE "scripts"]

ReadIgnore(p) ==
  LET lines == IF ignore = Missing THEN {} ELSE ignore IN
  /\ Stage(p) = "ignore"
  /\ IF Own \in lines
     THEN AfterInit(p) /\ UNCHANGED excused
     ELSE /\ installer' = [installer EXCEPT ![p].stage = "open ignore", ![p].lines = lines]
          /\ Meets(p, "ignore")
  /\ UNCHANGED <<shared, made, user>>

OpenIgnore(p) ==
  /\ Stage(p) = "open ignore"
  /\ ignore' = {}
  /\ SetupTo(p, "fill ignore")
  /\ UNCHANGED <<configs, settings, made, user, excused>>

FillIgnore(p) ==
  /\ Stage(p) = "fill ignore"
  /\ ignore' = installer[p].lines \cup {Own}
  /\ AfterInit(p)
  /\ UNCHANGED <<configs, settings, made, user, excused>>

-----------------------------------------------------------------------------
(* install_hooks::run and merge_settings.                                  *)

\* The client and the two scripts are generated anew each time.
WriteScripts(p) ==
  /\ Stage(p) = "scripts"
  /\ made' = made \cup {"scripts"}
  /\ SetupTo(p, "settings")
  /\ UNCHANGED <<shared, user, excused>>

\* A file that does not parse is taken for an empty one, and a value of another
\* shape gives way to an empty object or array.
ReadSettings(p) ==
  LET read == IF settings \in {Missing, Garbled} THEN NoSettings ELSE settings IN
  /\ Stage(p) = "settings"
  /\ IF \A e \in Events : read.own[e] > 0
     THEN SetupTo(p, "done") /\ UNCHANGED excused
     ELSE /\ installer' = [installer EXCEPT
               ![p].stage = "open settings",
               ![p].merged = [read EXCEPT !.own = [e \in Events |-> IF @[e] > 0 THEN @[e] ELSE 1],
                                          !.odd = {}]]
          /\ Meets(p, "settings")
  /\ UNCHANGED <<shared, made, user>>

OpenSettings(p) ==
  /\ Stage(p) = "open settings"
  /\ settings' = Garbled
  /\ SetupTo(p, "fill settings")
  /\ UNCHANGED <<configs, ignore, made, user, excused>>

FillSettings(p) ==
  /\ Stage(p) = "fill settings"
  /\ settings' = installer[p].merged
  /\ installer' = [installer EXCEPT ![p].stage = "done", ![p].merged = NoSettings]
  /\ UNCHANGED <<configs, ignore, made, user, excused>>

\* The process dies, or an operation of the file system fails.
AbortSetup(p) ==
  /\ Working(p)
  /\ installer' = [installer EXCEPT ![p] = IdleInstaller]
  /\ excused' = excused \cup {f \in Names \cup {"ignore", "settings"} : Emptied(p, f)}
  /\ UNCHANGED <<shared, made, user>>

-----------------------------------------------------------------------------
(* The user.                                                               *)

Edited(f) ==
  /\ userEdits < MaxUserEdits /\ userEdits' = userEdits + 1
  /\ excused' = IF \E p \in Installers : Rewrites(p, f) THEN excused \cup {f} ELSE excused \ {f}
  /\ installer' = [p \in Installers |-> [installer[p] EXCEPT !.met = TRUE]]
  /\ UNCHANGED made

EditConfig(c) ==
  /\ Edited(c)
  /\ \E keep \in BOOLEAN :
       /\ configs' = [configs EXCEPT ![c] = IF keep THEN "edited" ELSE Missing]
       /\ wanted'  = [wanted EXCEPT !.configs[c] = keep]
  /\ UNCHANGED <<ignore, settings>>

EditIgnore ==
  /\ Edited("ignore")
  /\ \E lines \in SUBSET (Entries \cup {Own}) :
       ignore' = lines /\ wanted' = [wanted EXCEPT !.ignore = lines \cap Entries]
  /\ UNCHANGED <<configs, settings>>

\* Some or none of our hooks may be left, values of any shape be put anywhere, or
\* a syntax error made.
EditSettings ==
  LET had == IF settings \in {Missing, Garbled} THEN NoSettings.own ELSE settings.own IN
  /\ Edited("settings")
  /\ \/ \E foreign \in SUBSET Entries, left \in SUBSET Events, odd \in OddPlaces :
          /\ odd = {"root"} => foreign = {}
          /\ odd \in {{"root"}, {"hooks"}} => left = {}
          /\ left \cap odd = {}
          /\ wanted' = [wanted EXCEPT !.settings = [foreign |-> foreign, odd |-> odd, parses |-> TRUE]]
          /\ settings' = [foreign |-> foreign, odd |-> odd,
                          own |-> [e \in Events |-> IF e \in left THEN had[e] ELSE 0]]
     \/ /\ wanted' = [wanted EXCEPT !.settings = [foreign |-> {}, odd |-> {}, parses |-> FALSE]]
        /\ settings' = Garbled
  /\ UNCHANGED <<configs, ignore>>

SetupStep(p) ==
  \/ BeginSetup(p)
  \/ CheckConfig(p) \/ CreateConfig(p) \/ FillConfig(p) \/ CreateDatabase(p)
  \/ ReadIgnore(p) \/ OpenIgnore(p) \/ FillIgnore(p)
  \/ WriteScripts(p) \/ ReadSettings(p) \/ OpenSettings(p) \/ FillSettings(p)
  \/ AbortSetup(p)

SetupNext ==
  \/ \E p \in Installers : SetupStep(p)
  \/ \E c \in Names : EditConfig(c)
  \/ EditIgnore
  \/ EditSettings

SetupSpec == SetupInit /\ [][SetupNext]_setupVars

-----------------------------------------------------------------------------
SetupTypeOK ==
  /\ configs \in [Names -> {Missing, Garbled, "default", "edited"}]
  /\ ignore = Missing \/ ignore \subseteq Entries \cup {Own}
  /\ settings \in {Missing, Garbled} \/ settings \in Settings
  /\ made \subseteq {"database", "scripts"}
  /\ \A p \in Installers : installer[p].lines \subseteq Entries /\ installer[p].merged \in Settings
  /\ wanted \in [configs : [Names -> BOOLEAN], ignore : SUBSET Entries,
                 settings : [foreign : SUBSET Entries, odd : OddPlaces, parses : BOOLEAN]]
  /\ excused \subseteq Names \cup {"ignore", "settings"} /\ userEdits \in 0 .. MaxUserEdits

IgnoreLines == IF ignore = Missing THEN {} ELSE ignore
InForce     == IF settings \in {Missing, Garbled} THEN NoSettings ELSE settings
Rests(f)    == f \notin excused /\ \A p \in Installers : ~Emptied(p, f)

\* No run, wherever it dies and however often it is repeated, takes from a
\* configuration, from .gitignore or from a settings.json that parses the entries
\* the user put there, or leaves a file that does not parse where there was none,
\* unless it was cut short in the middle of that write, or others wrote
\* meanwhile (scaffold.rs: existing config and data are never overwritten).  What
\* it does take from settings.json is NeverClobbers' subject.
UserFilesKept ==
  /\ \A c \in Names : Rests(c) =>
       configs[c] # Garbled /\ (configs[c] = "edited" <=> wanted.configs[c])
  /\ Rests("ignore")   => IgnoreLines \cap Entries = wanted.ignore
  /\ Rests("settings") => /\ InForce.foreign = wanted.settings.foreign
                          /\ settings = Garbled => ~wanted.settings.parses

\* What install_hooks.rs says of settings.json: merging, never clobbering existing
\* settings; preserving existing keys.  Whatever the user has there, of any shape
\* and be it with a syntax error, stays, if no run is cut short in the write and
\* nobody else writes meanwhile.
NeverClobbers ==
  Rests("settings") =>
    /\ InForce.foreign = wanted.settings.foreign /\ InForce.odd = wanted.settings.odd
    /\ settings = Garbled <=> ~wanted.settings.parses

\* A hook is registered at most once, however many installs meet, and never
\* before its script is there.
RegisteredOnce ==
  \A e \in Events : InForce.own[e] > 0 => InForce.own[e] = 1 /\ "scripts" \in made

\* A run that met no other and no edit has made everything, whatever the runs
\* before it left.
ReadyWhenDone ==
  \A p \in Installers : Stage(p) = "done" /\ ~installer[p].met =>
    /\ Initialised
    /\ installer[p].op = "init" => Own \in IgnoreLines /\ \A c \in Names : configs[c] # Missing
    /\ installer[p].op = "install" => \A e \in Events : InForce.own[e] = 1

\* Setting up is safe to repeat on every launch.
SetupIsSafe == UserFilesKept /\ RegisteredOnce /\ ReadyWhenDone
=============================================================================

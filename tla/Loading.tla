------------------------------- MODULE Loading -------------------------------
(***************************************************************************)
(* Which config file a process reads, and what it makes of the environment:  *)
(* LoadConfig of internal/config, its callers in cmd, and the install page's *)
(* Reload.  Files are written by the page, by `init` and by an operator, who *)
(* also stops and starts the server.  How a page's requests interleave is in *)
(* Install; what a config says once it is read is in Config.                 *)
(***************************************************************************)
EXTENDS Naturals

CONSTANTS
    Paths, DefaultPath,     \* config files; ./config.yaml
    Texts,                  \* what may be written to one
    Settings,               \* values of a setting that the environment overrides
    Absent,                 \* no file, no text, no flag, no variable
    Unreadable,             \* a file that is there and cannot be loaded
    Flags,                  \* what --config may be
    Shells,                 \* environments a process may be started in
    DotEnvs,                \* what .env may say
    MaxEdits                \* bound: how often the operator edits a file

\* The two variables that matter here: EMULE_HTTP_CACHE_CONFIG and an override.
Environment == [config : Paths \cup {Absent}, setting : Settings \cup {Absent}]

ASSUME LoadingAssumption ==
    /\ DefaultPath \in Paths
    /\ Absent \notin Paths \cup Texts \cup Settings
    /\ Unreadable \notin Texts \cup {Absent}
    /\ Flags \subseteq Paths \cup {Absent}
    /\ Shells \subseteq Environment
    /\ DotEnvs \subseteq Environment
    /\ MaxEdits \in Nat

VARIABLES
    files,          \* the config files
    dotEnv,         \* .env
    process,        \* "down", "up", or "installing": the page has yet to Reload
    flag, shell,    \* how the server was started
    environ,        \* its environment by now
    held,           \* the text that viper holds
    target,         \* the file its installer writes
    serves,         \* the config in service
    written,        \* what its install page wrote last
    edits,
    edited          \* the operator has edited a file since the server started

processVars == <<process, flag, shell, environ, held, target, serves, written>>
operatorVars == <<edits, edited>>
loadingVars == <<files, dotEnv, processVars, operatorVars>>

-----------------------------------------------------------------------------
\* readEnvFile: .env wins over the environment.
readEnvFile(env) ==
    [variable \in {"config", "setting"} |->
        IF dotEnv[variable] # Absent THEN dotEnv[variable] ELSE env[variable]]

(* The file's name is settled before .env is read.                           *)
FileName(f, env) == IF f # Absent THEN f ELSE env.config

\* The file that LoadConfig opens; without a name it looks for config.yaml.
Opened(f, env) == IF FileName(f, env) # Absent THEN FileName(f, env) ELSE DefaultPath

\* A bug to catch: a file that cannot be loaded goes into service.
LoadFailsNever(f, env) == FALSE

LoadFails(f, env) == files[Opened(f, env)] = Unreadable

(* A file that is not there is no error, and leaves what viper had.          *)
Read(f, env, before) ==
    IF files[Opened(f, env)] = Absent THEN before ELSE files[Opened(f, env)]

\* viper's ConfigFileUsed: a name that was given counts as a file that was found.
ConfigFileUsed(f, env) ==
    IF FileName(f, env) = Absent /\ files[DefaultPath] = Absent
    THEN Absent ELSE Opened(f, env)

Installed(f, env) == ConfigFileUsed(f, env) # Absent

configPath(f, env) ==
    IF ConfigFileUsed(f, env) # Absent THEN ConfigFileUsed(f, env) ELSE DefaultPath

NoService == [text |-> Absent, setting |-> Absent, installed |-> FALSE]

\* What a server that is started now puts in service.
Started(f, env) ==
    [text |-> Read(f, env, Absent), setting |-> readEnvFile(env).setting,
     installed |-> Installed(f, env)]

-----------------------------------------------------------------------------
LoadingInit ==
    /\ files = [p \in Paths |-> Absent]
    /\ dotEnv = [config |-> Absent, setting |-> Absent]
    /\ process = "down"
    /\ flag = Absent
    /\ shell = dotEnv
    /\ environ = dotEnv
    /\ held = Absent
    /\ target = DefaultPath
    /\ serves = NoService
    /\ written = Absent
    /\ edits = 0
    /\ edited = FALSE

\* serve: a config that cannot be loaded is the end of it.
Start(f, env) ==
    /\ process = "down"
    /\ ~LoadFails(f, env)
    /\ process' = "up"
    /\ flag' = f
    /\ shell' = env
    /\ environ' = readEnvFile(env)
    /\ held' = Read(f, env, Absent)
    /\ target' = configPath(f, env)
    /\ serves' = Started(f, env)
    /\ written' = Absent
    /\ edited' = FALSE
    /\ UNCHANGED <<files, dotEnv, edits>>

\* The install page writes where there is no config file yet.
InstallPage(text) ==
    /\ process = "up"
    /\ files[target] = Absent
    /\ process' = "installing"
    /\ files' = [files EXCEPT ![target] = text]
    /\ written' = text
    /\ UNCHANGED <<dotEnv, flag, shell, environ, held, target, serves, operatorVars>>

\* `init` does so by its own flag and environment, in a process of its own.
InitCommand(f, env, text) ==
    /\ ~LoadFails(f, env)
    /\ files[configPath(f, env)] = Absent
    /\ files' = [files EXCEPT ![configPath(f, env)] = text]
    /\ UNCHANGED <<dotEnv, processVars, operatorVars>>

\* A bug to catch: the flag is forgotten when the config is loaded again.
ReloadWithoutFlag ==
    /\ process = "installing"
    /\ process' = "up"
    /\ environ' = readEnvFile(environ)
    /\ held' = Read(Absent, environ, held)
    /\ serves' = [text |-> held', setting |-> environ'.setting, installed |-> TRUE]
    /\ UNCHANGED <<files, dotEnv, flag, shell, target, written, operatorVars>>

(* LoadConfig again, in the environment that the first one left.  If it fails  *)
(* the server goes on with what it had.                                      *)
ReloadConfig ==
    /\ process = "installing"
    /\ process' = "up"
    /\ environ' = readEnvFile(environ)
    /\ IF LoadFails(flag, environ)
       THEN UNCHANGED <<held, serves>>
       ELSE /\ held' = Read(flag, environ, held)
            /\ serves' = [text |-> held', setting |-> environ'.setting, installed |-> TRUE]
    /\ UNCHANGED <<files, dotEnv, flag, shell, target, written, operatorVars>>

\* A shutdown or a crash.
Stop ==
    /\ process # "down"
    /\ process' = "down"
    /\ serves' = NoService
    /\ written' = Absent
    /\ UNCHANGED <<files, dotEnv, flag, shell, environ, held, target, operatorVars>>

Edits ==
    /\ edits < MaxEdits
    /\ edits' = edits + 1
    /\ edited' = TRUE

EditFile(p, content) ==
    /\ Edits
    /\ content # files[p]
    /\ files' = [files EXCEPT ![p] = content]
    /\ UNCHANGED <<dotEnv, processVars>>

EditDotEnv(lines) ==
    /\ Edits
    /\ lines # dotEnv
    /\ dotEnv' = lines
    /\ UNCHANGED <<files, processVars>>

LoadingNext ==
    \/ \E f \in Flags, env \in Shells :
          Start(f, env) \/ \E text \in Texts : InitCommand(f, env, text)
    \/ \E text \in Texts : InstallPage(text)
    \/ ReloadConfig
    \/ Stop
    \/ \E p \in Paths, content \in Texts \cup {Absent, Unreadable} : EditFile(p, content)
    \/ \E lines \in DotEnvs : EditDotEnv(lines)

LoadingSpec == LoadingInit /\ [][LoadingNext]_loadingVars

-----------------------------------------------------------------------------
(* Properties. *)

LoadingTypeOK ==
    /\ files \in [Paths -> Texts \cup {Absent, Unreadable}]
    /\ dotEnv \in Environment
    /\ process \in {"down", "up", "installing"}
    /\ flag \in Paths \cup {Absent}
    /\ shell \in Environment
    /\ environ \in Environment
    /\ held \in Texts \cup {Absent}
    /\ target \in Paths
    /\ serves \in [text : Texts \cup {Absent}, setting : Settings \cup {Absent},
                   installed : BOOLEAN]
    /\ written \in Texts \cup {Absent}
    /\ edits \in 0..MaxEdits
    /\ edited \in BOOLEAN

\* A .env that names another config file than the process was started with.
DotEnvNamesAnother ==
    flag = Absent /\ dotEnv.config \notin {Absent, shell.config}

(* What the install page wrote is in service once it is done, as serve.go:85  *)
(* says, and it is what a restart would put in service: whatever files, flags *)
(* and variables there are, if nobody has edited anything since the server    *)
(* was started, but for a .env that names a config file.  LoadConfig looks up *)
(* the name before it reads .env, so the start overlooks what Reload then     *)
(* obeys, and Reload puts that other file in service, or none.               *)
InstalledIsServed ==
    process = "up" /\ written # Absent /\ ~edited /\ ~DotEnvNamesAnother
    => serves.text = written /\ serves = Started(flag, shell)
=============================================================================

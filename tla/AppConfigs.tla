----------------------------- MODULE AppConfigs -----------------------------
(***************************************************************************)
(* What is done with the content of a configuration file: it is validated  *)
(* (src/config/config-validator.ts), and then every application in it is   *)
(* turned into a process (process-config.ts) and, if it names log files,   *)
(* into a logger (log-manager.ts, log-path-validator.ts), each with checks *)
(* of its own.  Normalizing, merging and comparing (config-normalizer.ts)  *)
(* work on what was validated.                                             *)
(*                                                                         *)
(* An application is a function from its fields to values; of a value only *)
(* what the checks tell apart is kept.                                     *)
(***************************************************************************)
EXTENDS Naturals, Sequences, SequencesExt, FiniteSets

\* Names that the pattern of the validator accepts; a long one has more than
\* 64 characters.
Names == {"a", "b", "long"}

Texts == {"namespace", "args", "cwd", "note", "out_log", "error_log",
          "max_memory_restart"}

LogFiles == {"log_file", "out_file", "error_file"}

Fields == {"name", "script", "env", "merge_logs"} \cup Texts \cup LogFiles

\* A path: inside the project, with the extension of a log or another one, or
\* with a colon; a symbolic link that leads elsewhere; an absolute path; one
\* that leads to a parent; one with characters that no check lets pass.
Paths == {"inside", "other", "colon", "link", "absolute", "parent", "odd"}

\* What may stand in any field.
Anything == {"absent", "null", "number", "boolean", "object", "empty", "blank"}

ValuesOf(f) ==
    Anything \cup
    CASE f = "name" -> Names \cup {"padded", "odd"}
      [] f = "env" -> {"badKey", "badValue", "variables"}
      [] f = "max_memory_restart" -> {"unreadable", "tiny", "huge", "size"}
      [] OTHER -> Paths

Applications == {app \in [Fields -> UNION {ValuesOf(f) : f \in Fields}] :
                    \A f \in Fields : app[f] \in ValuesOf(f)}

IsString(v) == v \notin {"absent", "null", "number", "boolean", "object",
                         "badKey", "badValue", "variables"}

\* JavaScript's: what `if (v)' skips.  The number is not 0, the boolean TRUE.
Given(v) == v \notin {"absent", "null", "empty"}

NotBlank(v) == v \notin {"empty", "blank"}

-----------------------------------------------------------------------------
(***************************************************************************)
(* ConfigValidator: the content is accepted, or an error is thrown.        *)
(***************************************************************************)

Optional(v, fits) == v \in {"absent", "null"} \/ fits

ValidMemorySize(v) == v \notin {"blank", "unreadable", "tiny", "huge"}

\* validatePathSecurity: absolute paths are "an explicit admin choice".
SanitizeFilePath(v) == IsString(v) /\ NotBlank(v) /\ v # "odd"

ValidPath(v) == SanitizeFilePath(v) /\ v # "parent"

ValidEnv(v) == v \in {"absent", "null", "object", "variables"}

\* Mutant of ValidateAppConfig: the types of optional fields are not checked.
ValidateAppConfigTypeless(app) ==
    /\ app.name \in Names
    /\ IsString(app.script) /\ NotBlank(app.script) /\ ValidPath(app.script)
    /\ ValidEnv(app.env)
    /\ Given(app.max_memory_restart) => ValidMemorySize(app.max_memory_restart)
    /\ \A f \in {"cwd", "out_log", "error_log", "log_file"} :
            Given(app[f]) => ValidPath(app[f])

ValidateAppConfig(app) ==
    /\ app.name \in Names
    /\ IsString(app.script) /\ NotBlank(app.script) /\ ValidPath(app.script)
    /\ \A f \in Texts : Optional(app[f], IsString(app[f]))
    /\ Optional(app.merge_logs, app.merge_logs = "boolean")
    /\ ValidEnv(app.env)
    /\ Given(app.max_memory_restart) => ValidMemorySize(app.max_memory_restart)
    /\ \A f \in {"cwd", "out_log", "error_log", "log_file"} :
            Given(app[f]) => ValidPath(app[f])

\* An array of applications with different names.
ValidateConfig(apps) ==
    /\ apps # <<>>
    /\ \A i \in 1..Len(apps) : ValidateAppConfig(apps[i])
    /\ \A i, j \in 1..Len(apps) : apps[i].name = apps[j].name => i = j

\* The type that validateConfig asserts, as the type guard of shared/config.ts
\* defines it.
IsAppConfig(app) ==
    /\ IsString(app.name) /\ NotBlank(app.name)
    /\ IsString(app.script) /\ NotBlank(app.script)
    /\ \A f \in (Texts \ {"out_log", "error_log"}) \cup LogFiles :
            app[f] = "absent" \/ IsString(app[f])
    /\ app.env \in {"absent", "object", "variables", "badKey"}

-----------------------------------------------------------------------------
(***************************************************************************)
(* What is done with an application that was accepted.                     *)
(***************************************************************************)

\* configureProcess: the boundary check of the name, which is trimmed before,
\* and a conversion that splits the arguments as a string.
ConfigureThrows(app) ==
    \/ app.name \notin Names \cup {"padded"}
    \/ Given(app.args) /\ ~IsString(app.args)

\* The memory limit of the process, if any.
MemoryLimit(app) ==
    IF IsString(app.max_memory_restart)
        /\ app.max_memory_restart \notin {"empty", "blank", "unreadable"}
    THEN app.max_memory_restart ELSE "none"

\* loadConfig: the application gets a logger.
HasLogs(app) == \E f \in LogFiles : Given(app[f])

\* validateLogFilePath: only names of logs below the log directory.
ValidLogFilePath(v) == IsString(v) /\ v = "inside"

\* setupAppLogs.
SetupThrows(app) ==
    \E f \in LogFiles : Given(app[f]) /\ ~ValidLogFilePath(app[f])

\* The name under which setupAppLogs keeps the logger: it is trimmed, and made
\* a valid name of a file.
LoggerName(name) == IF name \in {"a", "b"} THEN name ELSE "changed"

-----------------------------------------------------------------------------
(***************************************************************************)
(* ConfigNormalizer.                                                       *)
(***************************************************************************)

NormalizePath(v) == IF Given(v) /\ v # "odd" THEN "absolute" ELSE v

\* It throws at a path that is no string.
NormalizeThrows(app) ==
    \E f \in LogFiles \cup {"cwd"} : Given(app[f]) /\ ~IsString(app[f])

NormalizeApp(app) ==
    [f \in Fields |->
        CASE f = "cwd" -> IF Given(app.cwd) THEN NormalizePath(app.cwd)
                          ELSE "absolute"
          [] f = "env" -> IF Given(app.env) THEN app.env ELSE "object"
          [] f \in LogFiles -> NormalizePath(app[f])
          [] OTHER -> app[f]]

\* The fields of the second application replace those of the first, but the
\* variables of both are kept.
MergeApp(app, over) ==
    [f \in Fields |->
        IF f = "env"
        THEN IF "variables" \in {app.env, over.env} THEN "variables"
             ELSE "object"
        ELSE IF over[f] = "absent" THEN app[f] ELSE over[f]]

\* Mutant of MergeConfigs: applications of the same name are not merged.
MergeConfigsApart(base, override) == base \o override

\* The first application of that name is merged; a new one comes last.
MergeOne(apps, over) ==
    LET same == {i \in DOMAIN apps : apps[i].name = over.name}
    IN  IF same = {} THEN Append(apps, over)
        ELSE [apps EXCEPT ![Min(same)] = MergeApp(@, over)]

MergeConfigs(base, override) ==
    LET merged[k \in 1..Len(override) + 1] ==
            IF k = 1 THEN base ELSE MergeOne(merged[k - 1], override[k - 1])
    IN  merged[Len(override) + 1]

NamesIn(apps) == {apps[i].name : i \in 1..Len(apps)}

AppOf(apps, n) == apps[CHOOSE i \in 1..Len(apps) : apps[i].name = n]

\* What has been added, removed and modified.
CompareConfigs(old, new) ==
    [added |-> NamesIn(new) \ NamesIn(old),
     removed |-> NamesIn(old) \ NamesIn(new),
     modified |-> {n \in NamesIn(old) \cap NamesIn(new) :
                        AppOf(old, n) # AppOf(new, n)}]

-----------------------------------------------------------------------------
(***************************************************************************)
(* Properties, of a good application in which up to two fields hold        *)
(* anything, and of configurations of up to two applications.              *)
(***************************************************************************)

GoodApp(n) ==
    [f \in Fields |-> CASE f = "name" -> n
                        [] f = "script" -> "other"
                        [] OTHER -> "absent"]

BoundedApps ==
    UNION {{[GoodApp("a") EXCEPT ![f] = v, ![g] = w] :
                v \in ValuesOf(f), w \in ValuesOf(g)} : f, g \in Fields}

\* Nothing that was accepted is refused later, after the running processes have
\* been stopped, but for the paths of log files; names stay apart; and the
\* logger of an application is found under the name of its process (unless the
\* name is longer than 64 characters).  What the validator asserts of the type
\* is true but for null and for the two fields it does not look at.
ValidatedConfigsApply ==
    /\ \A app \in BoundedApps : ValidateAppConfig(app) =>
        /\ ~ConfigureThrows(app)
        /\ MemoryLimit(app) \in {"none", "size"}
        /\ app.name # "long" => LoggerName(app.name) = app.name
        /\ \/ IsAppConfig(app)
           \/ \E f \in Fields : app[f] = "null"
           \/ \E f \in {"out_file", "error_file"} : ~IsString(app[f])
    /\ \A n, k \in Names : ValidateConfig(<<GoodApp(n), GoodApp(k)>>) => n # k

\* Valid applications of this name, in which one field holds anything.
ValidApps(n) ==
    {app \in UNION {{[GoodApp(n) EXCEPT ![f] = v] : v \in ValuesOf(f)} :
                        f \in Fields \ {"name"}} : ValidateAppConfig(app)}

\* A valid configuration is valid when it has been normalized, once or again,
\* or merged with another valid one; and comparing it with the merged one
\* reports the applications that came from the other one, and no others.
DerivedConfigsStayValid ==
    /\ \A app \in BoundedApps :
        LET new == NormalizeApp(app) IN
        ValidateAppConfig(app) /\ ~NormalizeThrows(app) =>
            ValidateAppConfig(new) /\ NormalizeApp(new) = new
    /\ \A app \in ValidApps("a"), over \in ValidApps("a") \cup ValidApps("b") :
        LET base == <<app, GoodApp("long")>>
            merged == MergeConfigs(base, <<over>>)
            diff == CompareConfigs(base, merged)
        IN  /\ ValidateConfig(merged)
            /\ diff.removed = {}
            /\ diff.added \cup diff.modified \subseteq {over.name}
            /\ over.name \notin NamesIn(base) => diff.added = {over.name}
=============================================================================

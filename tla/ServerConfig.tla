----------------------------- MODULE ServerConfig -----------------------------
(***************************************************************************)
(* loadConfig of packages/config: every key of serverEnvSchema is read     *)
(* through the environment's secret provider, laid over the profile of the *)
(* environment, and validated.  Pure: ServerHealth boots with it.          *)
(*                                                                         *)
(* A process environment says under `env` and `app` what NODE_ENV and      *)
(* APP_ENV are, under `direct` what each key's variable holds, and under   *)
(* `file` what the file named by its _FILE variable holds once trimmed.    *)
(***************************************************************************)
CONSTANTS
    Unset,   \* undefined
    Missing  \* the content of a file that cannot be read

ASSUME ConfigAssumption == Unset # Missing

RequiredKeys == {"DATABASE_URL", "REDIS_URL", "S3_ACCESS_KEY_ID", "S3_SECRET_ACCESS_KEY"}

UrlKeys == {"CLICKHOUSE_URL", "S3_ENDPOINT"}

OptionalUrlKeys == {"OTEL_EXPORTER_OTLP_ENDPOINT"}

PositiveKeys ==
    {"DATABASE_POOL_MAX", "DATABASE_CONNECT_TIMEOUT_MS", "BACKUP_RETENTION_DAYS"}

NonnegativeKeys == {"DATABASE_STATEMENT_TIMEOUT_MS"}

FlagKeys ==
    {"DATABASE_LOG_QUERIES", "S3_FORCE_PATH_STYLE", "OTEL_TRACES_ENABLED",
     "OTEL_METRICS_ENABLED", "BACKUP_ENABLED"}

TextKeys ==
    {"REDIS_KEY_PREFIX", "CLICKHOUSE_USER", "CLICKHOUSE_PASSWORD", "CLICKHOUSE_DATABASE",
     "S3_REGION", "S3_BUCKET_MEDIA", "S3_BUCKET_EXPORTS", "S3_BUCKET_BACKUPS",
     "OTEL_SERVICE_NAME", "BACKUP_SCHEDULE", "BACKUP_BUCKET"}

Keys ==
    UNION {RequiredKeys, UrlKeys, OptionalUrlKeys, PositiveKeys, NonnegativeKeys,
           FlagKeys, TextKeys}

(* The texts that the rules tell apart.                                      *)
Urls == {"http://host"}
Numbers == {"0", "1", "2", "5", "10", "20"}
Truths == {"true", "1", "yes", "on"}
Texts == Urls \cup Numbers \cup Truths \cup {"", "false", "word"}

(* Mutant: a URL may be blank.                                               *)
Accepts_BlankUrl(key, text) ==
    /\ key \in RequiredKeys => text \notin {Unset, ""}
    /\ key \in UrlKeys => text \in Urls \cup {""}
    /\ key \in OptionalUrlKeys => text \in Urls \cup {Unset}
    /\ key \in PositiveKeys => text \in (Numbers \ {"0"}) \cup {Unset}
    /\ key \in NonnegativeKeys => text \in Numbers \cup {"", Unset}

(* The values that a key of each rule takes, absent ones included.  A blank  *)
(* number is coerced to zero.                                                *)
Accepts(key, text) ==
    /\ key \in RequiredKeys => text \notin {Unset, ""}
    /\ key \in UrlKeys => text \in Urls
    /\ key \in OptionalUrlKeys => text \in Urls \cup {Unset}
    /\ key \in PositiveKeys => text \in (Numbers \ {"0"}) \cup {Unset}
    /\ key \in NonnegativeKeys => text \in Numbers \cup {"", Unset}

(* "default" stands for the default a schema entry names.                    *)
DefaultOf(key) ==
    IF key \in FlagKeys THEN key = "S3_FORCE_PATH_STYLE"
    ELSE IF key \in OptionalUrlKeys THEN Unset ELSE "default"

(* zBool takes every text, and all but four as false.                        *)
Parsed(key, text) ==
    CASE text = Unset -> DefaultOf(key)
      [] text # Unset /\ key \in FlagKeys -> text \in Truths
      [] text = "" /\ key \in NonnegativeKeys -> "0"
      [] OTHER -> text

-----------------------------------------------------------------------------
(* Environments and profiles                                                 *)

ResolveEnvironment(env) ==
    CASE env.node = "test" -> "test"
      [] env.node # "test" /\ env.app \in {"production", "staging"} -> env.app
      [] OTHER -> "development"

(* { ...lower, ...upper }                                                    *)
Over(upper, lower) ==
    [key \in DOMAIN upper \cup DOMAIN lower |->
        IF key \in DOMAIN upper THEN upper[key] ELSE lower[key]]

Telemetry(text) == [OTEL_TRACES_ENABLED |-> text, OTEL_METRICS_ENABLED |-> text]

Profile(environment) ==
    CASE environment = "development" ->
            Over([DATABASE_POOL_MAX |-> "5", DATABASE_LOG_QUERIES |-> "true"], Telemetry("false"))
      [] environment = "test" ->
            Over([DATABASE_POOL_MAX |-> "2", DATABASE_LOG_QUERIES |-> "false"], Telemetry("false"))
      [] environment = "staging" ->
            Over([DATABASE_POOL_MAX |-> "10", DATABASE_LOG_QUERIES |-> "false"], Telemetry("true"))
      [] environment = "production" ->
            Over([DATABASE_POOL_MAX |-> "20", DATABASE_LOG_QUERIES |-> "false",
                  BACKUP_ENABLED |-> "true"], Telemetry("true"))

(* Mutant: an empty variable is a value.                                     *)
Secret_BlankCounts(env, key) ==
    IF env.file[key] # Unset THEN env.file[key] ELSE env.direct[key]

(* EnvSecretProvider.get: a file goes before the variable, and only of the   *)
(* variable is the empty text "not present".                                 *)
Secret(env, key) ==
    CASE env.file[key] # Unset -> env.file[key]
      [] env.file[key] = Unset /\ env.direct[key] # "" -> env.direct[key]
      [] OTHER -> Unset

Explicit(env) == [key \in {k \in Keys : Secret(env, k) # Unset} |-> Secret(env, key)]

Absent == [key \in Keys |-> Unset]

(* Schema defaults, below the profile, below what is explicit.               *)
Source(env) == Over(Explicit(env), Over(Profile(ResolveEnvironment(env)), Absent))

(* readFileSync throws in the middle of the loading.                         *)
Unreadable(env) == \E key \in Keys : Secret(env, key) = Missing

Valid(env) == \A key \in Keys : Accepts(key, Source(env)[key])

(* What loadConfig returns for a readable and valid environment.             *)
Loaded(env) ==
    [environment |-> ResolveEnvironment(env),
     setting |-> [key \in Keys |-> Parsed(key, Source(env)[key])]]
=============================================================================

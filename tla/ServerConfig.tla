---------------------------- MODULE ServerConfig ----------------------------
(***************************************************************************)
(* Package config, as far as the server's behaviour depends on it: where a *)
(* configuration comes from, what it is checked for, and what the server   *)
(* is made of.  A timeout stands for all five durations of the server;     *)
(* logging and metrics settings are no more than what Validate says of     *)
(* them.                                                                   *)
(***************************************************************************)
EXTENDS RateLimiter, TLC

CONSTANTS
  Garbled,     \* an environment variable that does not parse, or a file
               \* that has a bad path, cannot be read or does not parse
  EnvChoices,  \* settings the environment may hold: sets of field -> value
  FileChoices  \* settings a configuration file may hold, or Garbled

DefaultConfig ==
  [environment |-> "development", address |-> ":8080", timeout |-> 10,
   adapter |-> "memory", path |-> "./data", cors |-> "*",
   logging |-> "valid", metrics |-> "valid",
   limit |-> FALSE, rpm |-> Rpm, burst |-> Burst, apiKeys |-> {}]

ProfileDevelopment == DefaultConfig

ProfileTesting == [DefaultConfig EXCEPT !.environment = "testing", !.address = ":0"]

ProfileStaging ==
  [DefaultConfig EXCEPT !.environment = "staging", !.adapter = "file", !.path = "/data",
                        !.limit = TRUE]

ProfileProduction ==
  [DefaultConfig EXCEPT !.environment = "production", !.adapter = "redis",
                        !.limit = TRUE]

ProfileProductionSQL == [ProfileProduction EXCEPT !.adapter = "sql"]

ProfileProductionMySQL == [ProfileProduction EXCEPT !.adapter = "sql"]

LoadProfile(name) ==
  CASE name = "development"      -> ProfileDevelopment
    [] name = "testing"          -> ProfileTesting
    [] name = "staging"          -> ProfileStaging
    [] name = "production"       -> ProfileProduction
    [] name = "production-sql"   -> ProfileProductionSQL
    [] name = "production-mysql" -> ProfileProductionMySQL

Profiles == {"development", "testing", "staging", "production", "production-sql",
             "production-mysql"}

-----------------------------------------------------------------------------
(* loadFromEnv: a variable that is empty is skipped; the first that does    *)
(* not parse is an error.                                                   *)
EnvParses(env) == \A f \in DOMAIN env : env[f] # Garbled

Override(cfg, settings) == settings @@ cfg

(* A bug: the limiter's parameters are taken as they come.                 *)
SecurityNotChecked(cfg) == "" \notin cfg.apiKeys

SecurityValid(cfg) ==
  /\ cfg.limit => cfg.rpm > 0 /\ cfg.burst > 0
  /\ "" \notin cfg.apiKeys

ServerValid(cfg) == cfg.address # "" /\ cfg.timeout > 0

StorageValid(cfg) ==
  /\ cfg.adapter \in {"memory", "redis", "sql", "file"}
  /\ cfg.adapter = "file" => cfg.path # ""

Validate(cfg) ==
  /\ cfg.environment # ""
  /\ ServerValid(cfg)
  /\ StorageValid(cfg)
  /\ cfg.logging = "valid"
  /\ cfg.metrics = "valid"
  /\ SecurityValid(cfg)

(* LoadSecrets: only a production database must have its secret.            *)
SecretsLoad(cfg, secrets) ==
  cfg.environment = "production" /\ cfg.adapter = "sql" => "dsn" \in secrets

(* setupStorage makes no file adapter, and an error ends BuildApp.          *)
StorageMade(cfg, up) ==
  \/ cfg.adapter = "memory"
  \/ cfg.adapter \in {"redis", "sql"} /\ cfg.adapter \in up

-----------------------------------------------------------------------------
(* What NewMux wraps around its routes.                                     *)
Middleware(cfg) ==
  [limited |-> cfg.limit /\ cfg.rpm > 0 /\ cfg.burst > 0,
   keyed   |-> cfg.apiKeys # {},
   allowed |-> cfg.apiKeys \ {""},
   cors    |-> cfg.cors # ""]
=============================================================================

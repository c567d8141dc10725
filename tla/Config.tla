------------------------------- MODULE Config -------------------------------
(***************************************************************************)
(* What a process makes of its environment: config.Load, Validate and      *)
(* IsProduction, and the key auth.NewVault derives.  An environment is a   *)
(* record of the variables Load looks up, each Unset or a value.           *)
(***************************************************************************)
EXTENDS Integers, TLC

CONSTANTS Unset,        \* LookupEnv does not find the variable
          NotANumber    \* a PORT that strconv.Atoi refuses

\* An unset variable is not one that is set to some text.
ASSUME UnsetAssumption == Unset \notin {"production", "Production"}

\* The empty string.
Empty == ""

Default == [Port |-> 8080, AppEnv |-> "development", DBDriver |-> "sqlite",
            DatabaseURL |-> "./echoboard.db", SecretKey |-> Empty]

MaxPort == 65535
Drivers == {"sqlite", "postgres"}

\* strings.ToLower and EqualFold on the spellings in use.
ToLower(s) ==
    CASE s = "SQLITE"     -> "sqlite"
      [] s = "POSTGRES"   -> "postgres"
      [] s = "Production" -> "production"
      [] OTHER            -> s

Loads(env) == env.PORT # NotANumber

\* Load: the defaults, overlaid with what is set (to the empty string too).
Load(env) ==
    LET Get(v, default) == IF v = Unset THEN default ELSE v
    IN  [Port        |-> Get(env.PORT, Default.Port),
         AppEnv      |-> Get(env.APP_ENV, Default.AppEnv),
         DBDriver    |-> ToLower(Get(env.DB_DRIVER, Default.DBDriver)),
         DatabaseURL |-> Get(env.DATABASE_URL, Default.DatabaseURL),
         SecretKey   |-> Get(env.SECRET_KEY, Default.SecretKey)]

\* Variant: the spelling matters.
IsProductionExact(cfg) == cfg.AppEnv = "production"
IsProduction(cfg) == ToLower(cfg.AppEnv) = "production"

Validate(cfg) ==
    /\ cfg.Port \in 1..MaxPort
    /\ cfg.DBDriver \in Drivers
    /\ cfg.DatabaseURL # Empty
    /\ IsProduction(cfg) => cfg.SecretKey # Empty

\* The keys NewVault accepts are the base64 of 32 bytes; here there is one.
RealKeys == {"base64 of 32 bytes"}

\* NewVault: no key is a throwaway one, a malformed one is an error.
NewVault(key) ==
    CASE key = Empty      -> "ephemeral"
      [] key \in RealKeys -> "durable"
      [] OTHER            -> "error"
=============================================================================

---------------------------- MODULE Configuration ----------------------------
(***************************************************************************)
(* What each program makes of its environment (config.go of the services   *)
(* and of the gateway).  A setting is a number: a count, a duration in     *)
(* milliseconds, the length of a string, or 0 and 1 for false and true.  A *)
(* blank string is replaced by its default, so that the checks for empty   *)
(* strings never fail; the settings with no other check are left out.      *)
(***************************************************************************)
EXTENDS Integers, TLC

CONSTANTS
    Retries,   \* default of DB_CONNECT_MAX_RETRIES, smaller than in the code (bound)
    Attempts,  \* default of GATEWAY_GRPC_MAX_ATTEMPTS, smaller too (bound)
    Unset,     \* a variable that is not set
    Garbage    \* a value that does not parse

ASSUME ConfigurationAssumption == Retries \in Nat /\ Attempts \in Nat \ {0}

-----------------------------------------------------------------------------
\* Defaults.

UserDefaults ==
    [PasswordHashIterations |-> 120000, PasswordMinLength |-> 8,
     DBMaxOpenConns |-> 25, DBMaxIdleConns |-> 10, DBConnMaxLifetime |-> 1800000,
     DBConnMaxIdleTime |-> 300000, DBConnectTimeout |-> 3000, DBConnectMaxRetries |-> Retries,
     DBConnectInitialBackoff |-> 500, DBConnectMaxBackoff |-> 8000,
     GracefulShutdownTimeout |-> 10000]

WalletDefaults ==
    [s \in DOMAIN UserDefaults \ {"PasswordHashIterations", "PasswordMinLength"} |-> UserDefaults[s]]

TransactionDefaults == WalletDefaults

FraudDefaults ==
    [PerTxLimitCents |-> 2000000, DailyLimitCents |-> 5000000, VelocityMaxCount |-> 5,
     VelocityWindow |-> 600000, PairCooldown |-> 30000, IdempotencyTTL |-> 86400000,
     CleanupInterval |-> 60000, GracefulShutdownTimeout |-> 10000]

GatewayDefaults ==
    [JWTSecret |-> 44, JWTTTL |-> 86400000, RefreshTokenTTL |-> 604800000,
     GRPCDialTimeout |-> 3000, GRPCMaxAttempts |-> Attempts,
     MetricsEnabled |-> 1, MetricsPathIsRooted |-> 1,
     RateLimitEnabled |-> 1, RateLimitDefaultRequests |-> 120, RateLimitDefaultWindow |-> 60000,
     RateLimitTransfersRequests |-> 20, RateLimitTransfersWindow |-> 60000,
     RateLimitCleanup |-> 120000, GracefulShutdownTimeout |-> 10000]

-----------------------------------------------------------------------------
\* Validate.

Positive(c, settings) == \A s \in settings : c[s] > 0

DatabaseAccepted(c) ==
    /\ Positive(c, {"DBMaxOpenConns", "DBConnectTimeout", "DBConnectInitialBackoff",
                    "DBConnectMaxBackoff", "GracefulShutdownTimeout"})
    /\ c.DBMaxIdleConns \in 0 .. c.DBMaxOpenConns
    /\ c.DBConnectMaxRetries >= 0
    /\ c.DBConnectInitialBackoff <= c.DBConnectMaxBackoff

UserAccepted(c) ==
    DatabaseAccepted(c) /\ c.PasswordHashIterations > 0 /\ c.PasswordMinLength >= 8

WalletAccepted(c) == DatabaseAccepted(c)

TransactionAccepted(c) ==
    DatabaseAccepted(c) /\ Positive(c, {"DBConnMaxLifetime", "DBConnMaxIdleTime"})

FraudAccepted(c) == Positive(c, DOMAIN FraudDefaults) /\ c.PerTxLimitCents <= c.DailyLimitCents

RateLimitAccepted(c) ==
    c.RateLimitEnabled = 1 =>
        Positive(c, {"RateLimitDefaultRequests", "RateLimitDefaultWindow",
                     "RateLimitTransfersRequests", "RateLimitTransfersWindow",
                     "RateLimitCleanup"})

\* Mutant of GatewayAccepted: any number of attempts.
GatewayAcceptedUnbounded(c) ==
    /\ c.JWTSecret >= 32
    /\ Positive(c, {"JWTTTL", "RefreshTokenTTL", "GRPCDialTimeout", "GracefulShutdownTimeout"})
    /\ RateLimitAccepted(c)

GatewayAccepted(c) ==
    /\ c.JWTSecret >= 32
    /\ Positive(c, {"JWTTTL", "RefreshTokenTTL", "GRPCDialTimeout", "GRPCMaxAttempts",
                    "GracefulShutdownTimeout"})
    /\ RateLimitAccepted(c)

-----------------------------------------------------------------------------
\* Load.  A program without a configuration exits.

Refused == [refused |-> TRUE]

\* Strings are not parsed.
Texts == {"JWTSecret", "MetricsPathIsRooted"}

Overridden(defaults, env) ==
    [s \in DOMAIN defaults |-> IF env[s] = Unset THEN defaults[s] ELSE env[s]]

\* A value that does not parse is an error.
Parses(env) == \A s \in DOMAIN env : env[s] # Garbage

UserLoad(env) ==
    LET c == Overridden(UserDefaults, env)
    IN  IF Parses(env) /\ UserAccepted(c) THEN c ELSE Refused

WalletLoad(env) ==
    LET c == Overridden(WalletDefaults, env)
    IN  IF Parses(env) /\ WalletAccepted(c) THEN c ELSE Refused

TransactionLoad(env) ==
    LET c == Overridden(TransactionDefaults, env)
    IN  IF Parses(env) /\ TransactionAccepted(c) THEN c ELSE Refused

FraudLoad(env) ==
    LET c == Overridden(FraudDefaults, env)
    IN  IF Parses(env) /\ FraudAccepted(c) THEN c ELSE Refused

GatewayLoad(env) ==
    LET c == Overridden(GatewayDefaults, env)
    IN  IF Parses(env) /\ GatewayAccepted(c) THEN c ELSE Refused

-----------------------------------------------------------------------------
\* What is built out of a configuration, and how that may fail.

\* BackoffDuration: doubled for each attempt, up to max.
Backoff(tried, initial, max) ==
    IF initial * 2 ^ tried > max THEN max ELSE initial * 2 ^ tried

\* NewPBKDF2Hasher and NewUserGRPCServer.
UserBuilds(c) == c.PasswordHashIterations > 0 /\ c.PasswordMinLength >= 8

\* NewFraudRepository validates anew; the others do not look at the configuration.
FraudBuilds(c) == FraudAccepted(c)

\* NewTypedJWTManager, for access and refresh tokens.
ManagersBuild(c) == c.JWTSecret >= 32 /\ c.JWTTTL > 0 /\ c.RefreshTokenTTL > 0

\* routes: the router panics at a path without a slash.
RoutesBuild(c) == c.MetricsEnabled = 1 => c.MetricsPathIsRooted = 1
=============================================================================

------------------------------ MODULE Deployment ------------------------------
(***************************************************************************)
(* The platform's start, restarts and stops: infra/scripts/                *)
(* run-db-migrator.sh runs the migrator, the orchestrator starts the       *)
(* services and the gateway once it has succeeded and restarts whatever    *)
(* exits, and each program goes through the steps of its run(): it loads   *)
(* its configuration, reaches what it depends on with bounded retries,     *)
(* builds, listens and serves, until SIGTERM or a crash.                   *)
(*                                                                         *)
(* One rollout: there is no program of an earlier one beside the new ones. *)
(***************************************************************************)
EXTENDS Migration, Configuration

CONSTANTS
    Services,   \* among "user", "fraud", "wallet" and "transaction"
    DatabaseOf, \* the number of the database, for those that have one
    Awaits,     \* programs that are started after the migrator has succeeded
    OddValues,  \* values tried for each setting, one setting at a time
    MaxFaults   \* bound: outages, signals, crashes, failures, odd environments

Programs == Services \cup {"gateway"}

ASSUME DeploymentAssumption ==
    /\ Services \subseteq {"user", "fraud", "wallet", "transaction"} /\ Services # {}
    /\ DatabaseOf \in [Services \ {"fraud"} -> Databases]
    /\ Awaits \subseteq Programs /\ DOMAIN DatabaseOf \subseteq Awaits
    /\ OddValues \ {Garbage} \subseteq Int
    /\ MaxFaults \in Nat

ASSUME TasksAssumption == Tasks # {}

VARIABLES
    script,   \* run-db-migrator.sh: idle, waiting, ok or failed
    awaited,  \* the task that it waits for, or that made it end
    dbUp,     \* does PostgreSQL answer?
    at,       \* the step each program is at
    conf,     \* what it still needs of its configuration
    attempt,  \* the attempt its retry loop is at
    dialed,   \* the services that the gateway is connected to
    told,     \* programs that were sent SIGTERM
    faults    \* faults so far

programs == <<at, conf, attempt, dialed, told>>
dvars    == <<mvars, script, awaited, dbUp, programs, faults>>

NoConf == [none |-> TRUE]

\* The steps of run() after Load, in the order of each main.go.
UserSteps        == <<"connect", "listen", "build", "serving">>
WalletSteps      == <<"connect", "build", "listen", "serving">>
TransactionSteps == <<"connect", "build", "listen", "serving">>
FraudSteps       == <<"build", "listen", "serving">>
GatewaySteps     == <<"dial", "build", "listen", "serving">>

Steps == [user |-> UserSteps, wallet |-> WalletSteps, transaction |-> TransactionSteps,
          fraud |-> FraudSteps, gateway |-> GatewaySteps]

\* The order in which the gateway dials.
DialOrder == [user |-> 1, fraud |-> 2, wallet |-> 3, transaction |-> 4]

DeploymentInit ==
    /\ MigrationInit
    /\ script = "idle"
    /\ awaited = CHOOSE t \in Tasks : TRUE
    /\ dbUp = TRUE
    /\ at = [p \in Programs |-> "down"]
    /\ conf = [p \in Programs |-> NoConf]
    /\ attempt = [p \in Programs |-> 0]
    /\ dialed = {}
    /\ told = {}
    /\ faults = 0

Fault == faults < MaxFaults /\ faults' = faults + 1

-----------------------------------------------------------------------------
\* run-db-migrator.sh, and the tasks that it starts.

platform == <<dbUp, programs>>

\* aws ecs run-task, the first time or after a failure.  Tasks that have not been
\* started are alike: which one is next makes no difference.
Apply ==
    /\ script \in {"idle", "failed"}
    /\ \E t \in Tasks :
          /\ Start(t)
          /\ t = CHOOSE u \in Tasks : mpc[u] = "off"
          /\ awaited' = t
    /\ script' = "waiting"
    /\ UNCHANGED <<platform, faults>>

\* Mutant of WaitEnds: the exit code is not looked at.
WaitEndsUnchecked ==
    /\ script = "waiting" /\ mpc[awaited] \in {"succeeded", "failed"}
    /\ script' = "ok"
    /\ UNCHANGED <<mvars, awaited, platform, faults>>

\* aws ecs wait tasks-stopped, then the task's exit code.
WaitEnds ==
    /\ script = "waiting" /\ mpc[awaited] \in {"succeeded", "failed"}
    /\ script' = IF mpc[awaited] = "succeeded" THEN "ok" ELSE "failed"
    /\ UNCHANGED <<mvars, awaited, platform, faults>>

\* The waiter gives up; the task goes on.
WaitTimesOut ==
    /\ script = "waiting" /\ mpc[awaited] \in Working
    /\ script' = "failed"
    /\ Fault
    /\ UNCHANGED <<mvars, awaited, platform>>

TaskSteps(t) ==
    /\ dbUp
    /\ Advance(t)
    /\ UNCHANGED <<script, awaited, platform, faults>>

TaskFails(t) ==
    /\ Fail(t)
    /\ Fault
    /\ UNCHANGED <<script, awaited, platform>>

-----------------------------------------------------------------------------
\* The steps of a program.

others == <<mvars, script, awaited, dbUp>>

\* It goes on to the step after this one, and has done with its loop.
Proceed(p) ==
    LET steps == Steps[p]
        i     == CHOOSE j \in DOMAIN steps : steps[j] = at[p]
    IN  /\ at' = [at EXCEPT ![p] = steps[i + 1]]
        /\ conf' = IF steps[i + 1] = "serving" THEN [conf EXCEPT ![p] = NoConf] ELSE conf
        /\ attempt' = [attempt EXCEPT ![p] = 0]

\* The process ends, and with it what it knew.
Stop(p) ==
    /\ at' = [at EXCEPT ![p] = "down"]
    /\ conf' = [conf EXCEPT ![p] = NoConf]
    /\ attempt' = [attempt EXCEPT ![p] = 0]
    /\ dialed' = IF p = "gateway" THEN {} ELSE dialed
    /\ told' = told \ {p}

Defaults ==
    [user |-> UserDefaults, wallet |-> WalletDefaults, transaction |-> TransactionDefaults,
     fraud |-> FraudDefaults, gateway |-> GatewayDefaults]

PlainEnvironment(p) == [s \in DOMAIN Defaults[p] |-> Unset]

LoadOf(p, env) ==
    CASE p = "user" -> UserLoad(env) [] p = "wallet" -> WalletLoad(env)
      [] p = "transaction" -> TransactionLoad(env) [] p = "fraud" -> FraudLoad(env)
      [] p = "gateway" -> GatewayLoad(env)

\* What its later steps read: how often it tries, and whether it can be built.
Needs(p, c) ==
    CASE p = "gateway" -> [attempts |-> c.GRPCMaxAttempts, builds |-> ManagersBuild(c),
                           routes |-> RoutesBuild(c)]
      [] p = "fraud"   -> [builds |-> FraudBuilds(c)]
      [] OTHER         -> [retries |-> c.DBConnectMaxRetries,
                           initial |-> c.DBConnectInitialBackoff, max |-> c.DBConnectMaxBackoff,
                           builds  |-> p = "user" => UserBuilds(c)]

\* The orchestrator starts it, for the first time or again; it loads its
\* configuration, or exits at once.
LoadFrom(p, env) ==
    /\ at[p] = "down"
    /\ p \in Awaits => script = "ok"
    /\ \/ /\ LoadOf(p, env) = Refused
          /\ Stop(p)
       \/ /\ LoadOf(p, env) # Refused
          /\ at' = [at EXCEPT ![p] = Steps[p][1]]
          /\ conf' = [conf EXCEPT ![p] = Needs(p, LoadOf(p, env))]
          /\ attempt' = [attempt EXCEPT ![p] = IF p = "gateway" THEN 1 ELSE 0]
          /\ UNCHANGED <<dialed, told>>
    /\ UNCHANGED others

Load(p) == LoadFrom(p, PlainEnvironment(p)) /\ UNCHANGED faults

OddLoad(p) ==
    /\ \E s \in DOMAIN PlainEnvironment(p), v \in OddValues :
          /\ s \in Texts => v # Garbage
          /\ LoadFrom(p, [PlainEnvironment(p) EXCEPT ![s] = v])
    /\ Fault

\* The ping, under the context that SIGTERM cancels.
Pings(s) == dbUp /\ DatabaseOf[s] \in exists /\ s \notin told

\* ConnectWithRetry: a ping, that SIGTERM cancels; the last failure ends it.
Connect(s) ==
    /\ at[s] = "connect"
    /\ \/ /\ Pings(s)
          /\ Proceed(s)
          /\ UNCHANGED <<dialed, told>>
       \/ /\ ~Pings(s)
          /\ \/ /\ attempt[s] < conf[s].retries
                /\ at' = [at EXCEPT ![s] = "wait"]
                /\ UNCHANGED <<conf, attempt, dialed, told>>
             \/ /\ attempt[s] = conf[s].retries
                /\ Stop(s)
    /\ UNCHANGED <<others, faults>>

\* Mutant of WaitOver: the wait ends with SIGTERM only.
WaitOverIfTold(s) ==
    /\ at[s] = "wait" /\ s \in told
    /\ Stop(s)
    /\ UNCHANGED <<others, faults>>

\* waitFor: the timer, or SIGTERM.
WaitOver(s) ==
    /\ at[s] = "wait"
    /\ \/ /\ at' = [at EXCEPT ![s] = "connect"]
          /\ attempt' = [attempt EXCEPT ![s] = @ + 1]
          /\ UNCHANGED <<conf, dialed, told>>
       \/ /\ s \in told
          /\ Stop(s)
    /\ UNCHANGED <<others, faults>>

\* dialGRPCWithRetry, to each service in turn: nothing but a service that serves
\* answers the handshake, and SIGTERM does not interrupt it.  The last error is
\* reported; without a single attempt there is none, and the process panics.
NextDialed ==
    CHOOSE s \in Services \ dialed : \A r \in Services \ dialed : DialOrder[s] <= DialOrder[r]

Connected ==
    /\ attempt["gateway"] <= conf["gateway"].attempts
    /\ at[NextDialed] = "serving"

DialsLast == Services \ dialed = {NextDialed}

Dial ==
    /\ at["gateway"] = "dial"
    /\ \/ /\ Connected /\ ~DialsLast
          /\ attempt' = [attempt EXCEPT !["gateway"] = 1]
          /\ dialed' = dialed \cup {NextDialed}
          /\ UNCHANGED <<at, conf, told>>
       \/ /\ Connected /\ DialsLast
          /\ Proceed("gateway")
          /\ dialed' = dialed \cup {NextDialed}
          /\ UNCHANGED told
       \/ /\ ~Connected /\ attempt["gateway"] < conf["gateway"].attempts
          /\ at' = [at EXCEPT !["gateway"] = "wait"]
          /\ UNCHANGED <<conf, attempt, dialed, told>>
       \/ /\ ~Connected /\ attempt["gateway"] >= conf["gateway"].attempts
          /\ IF attempt["gateway"] = conf["gateway"].attempts
             THEN Stop("gateway")
             ELSE /\ at' = [at EXCEPT !["gateway"] = "broken"]
                  /\ UNCHANGED <<conf, attempt, dialed, told>>
    /\ UNCHANGED <<others, faults>>

\* time.Sleep between two attempts.
DialAgain ==
    /\ at["gateway"] = "wait"
    /\ at' = [at EXCEPT !["gateway"] = "dial"]
    /\ attempt' = [attempt EXCEPT !["gateway"] = @ + 1]
    /\ UNCHANGED <<others, conf, dialed, told, faults>>

Builds(p) == conf[p].builds /\ (p = "gateway" => conf[p].routes)

\* The constructors refuse, or the router panics: the process ends.
Build(p) ==
    /\ at[p] = "build"
    /\ \/ /\ Builds(p)
          /\ Proceed(p)
       \/ /\ ~ Builds(p)
          /\ at' = [at EXCEPT ![p] = "broken"]
          /\ UNCHANGED <<conf, attempt>>
    /\ UNCHANGED <<others, dialed, told, faults>>

Broken(p) ==
    /\ at[p] = "broken"
    /\ Stop(p)
    /\ UNCHANGED <<others, faults>>

Listen(p) ==
    /\ at[p] = "listen"
    /\ Proceed(p)
    /\ UNCHANGED <<others, dialed, told, faults>>

\* The health service says NOT_SERVING, and no new call is taken.
Drain(p) ==
    /\ at[p] = "serving" /\ p \in told
    /\ at' = [at EXCEPT ![p] = "draining"]
    /\ UNCHANGED <<others, conf, attempt, dialed, told, faults>>

\* The calls under way have ended ...
StopGracefully(p) ==
    /\ at[p] = "draining"
    /\ Stop(p)
    /\ UNCHANGED <<others, faults>>

\* Mutant of StopAtTimeout: the stop waits for the calls, however long.
StopWithoutTimeout(p) == FALSE /\ UNCHANGED dvars

\* ... or they are cut off.
StopAtTimeout(p) ==
    /\ at[p] = "draining"
    /\ Stop(p)
    /\ UNCHANGED <<others, faults>>

\* What a program does by itself.
Run(p) ==
    \/ Load(p) \/ Build(p) \/ Broken(p) \/ Listen(p)
    \/ Drain(p) \/ StopAtTimeout(p)
    \/ p = "gateway" /\ (Dial \/ DialAgain)
    \/ p \in Services /\ (Connect(p) \/ WaitOver(p))

-----------------------------------------------------------------------------
\* Faults.

Outage ==
    /\ dbUp
    /\ dbUp' = FALSE
    /\ Fault
    /\ UNCHANGED <<mvars, script, awaited, programs>>

Recover ==
    /\ ~dbUp
    /\ dbUp' = TRUE
    /\ UNCHANGED <<mvars, script, awaited, programs, faults>>

\* SIGTERM, which is listened to once the configuration is loaded.
Tell(p) ==
    /\ at[p] \notin {"down", "broken"} /\ p \notin told
    /\ told' = told \cup {p}
    /\ Fault
    /\ UNCHANGED <<others, at, conf, attempt, dialed>>

\* A crash at any moment, Listen that fails among others.
Dies(p) ==
    /\ at[p] # "down"
    /\ Stop(p)
    /\ Fault
    /\ UNCHANGED others

-----------------------------------------------------------------------------
ProgramNext(p) == Run(p) \/ StopGracefully(p) \/ OddLoad(p) \/ Tell(p) \/ Dies(p)

DeploymentNext ==
    \/ Apply \/ WaitEnds \/ WaitTimesOut
    \/ \E t \in Tasks : TaskSteps(t) \/ TaskFails(t)
    \/ Outage \/ Recover
    \/ \E p \in Programs : ProgramNext(p)

DeploymentSpec == DeploymentInit /\ [][DeploymentNext]_dvars

-----------------------------------------------------------------------------
\* Properties.

\* The type invariant; a wait between two attempts is within its bounds.
DeploymentTypeOK ==
    /\ MigrationTypeOK
    /\ script \in {"idle", "waiting", "ok", "failed"}
    /\ awaited \in Tasks
    /\ dbUp \in BOOLEAN
    /\ at \in [Programs -> {"down", "connect", "dial", "wait", "build", "listen",
                            "serving", "draining", "broken"}]
    /\ conf = [p \in Programs |-> conf[p]]
    /\ attempt \in [Programs -> Nat]
    /\ \A s \in DOMAIN DatabaseOf : at[s] = "wait" =>
          /\ attempt[s] < conf[s].retries
          /\ Backoff(attempt[s], conf[s].initial, conf[s].max) \in conf[s].initial .. conf[s].max
    /\ dialed \subseteq Services
    /\ told \subseteq Programs
    /\ faults \in 0 .. MaxFaults

(***************************************************************************)
(* A service that serves finds its tables: every file of the release that  *)
(* was rolled out has taken effect in its database, with the contents of   *)
(* that release, whatever tasks failed, were given up on, or still run.    *)
(***************************************************************************)
ServingHasSchema ==
    \A s \in DOMAIN DatabaseOf :
        at[s] \in {"serving", "draining"} => FilesIn(image[awaited], DatabaseOf[s])

(***************************************************************************)
(* Why it is so: the script says ok only after the task that it waited for *)
(* has, no rollout starts another task after that, and no program with a   *)
(* database is started before.                                             *)
(***************************************************************************)
RolloutInv ==
    /\ MigrationInv
    /\ awaited \in Tasks
    /\ at = [p \in Programs |-> at[p]]
    /\ script = "ok" => mpc[awaited] = "succeeded"
    /\ \A s \in DOMAIN DatabaseOf : at[s] # "down" => script = "ok"

(***************************************************************************)
(* What a program has left of its configuration is enough for the step     *)
(* that it is at: the bounds of its loop, which the loop has not gone past,*)
(* and what its constructors ask for.                                      *)
(***************************************************************************)
ConnectorInOrder(s) ==
    /\ at[s] \notin {"dial", "broken"}
    /\ at[s] \in {"connect", "wait"} =>
          /\ conf[s].retries \in Nat /\ attempt[s] \in 0 .. conf[s].retries
          /\ conf[s].initial \in Nat \ {0} /\ conf[s].max \in Nat
          /\ conf[s].initial <= conf[s].max
    /\ at[s] = "wait" => attempt[s] < conf[s].retries
    /\ at[s] \in {"connect", "wait", "build", "listen"} => conf[s].builds

FraudInOrder ==
    /\ at["fraud"] \notin {"connect", "dial", "wait", "broken"}
    /\ at["fraud"] \in {"build", "listen"} => conf["fraud"].builds

GatewayInOrder ==
    /\ at["gateway"] # "connect"
    /\ at["gateway"] = "down" => dialed = {}
    /\ at["gateway"] \in {"dial", "wait", "build", "listen", "broken"} =>
          conf["gateway"].attempts \in Nat \ {0} /\ conf["gateway"].builds
    /\ at["gateway"] \in {"dial", "wait"} =>
          attempt["gateway"] \in 1 .. conf["gateway"].attempts /\ dialed # Services
    /\ at["gateway"] = "wait" => attempt["gateway"] < conf["gateway"].attempts
    /\ at["gateway"] = "broken" => ~conf["gateway"].routes

ProgramsInOrder ==
    /\ \A s \in DOMAIN DatabaseOf : ConnectorInOrder(s)
    /\ "fraud" \in Services => FraudInOrder
    /\ GatewayInOrder

\* Types and bounds, and the order in which tasks, script and programs go: no step
\* of one of them, failures and restarts included, gets ahead of another.
DeploymentInv == DeploymentTypeOK /\ RolloutInv /\ ProgramsInOrder

(***************************************************************************)
(* A configuration that its Validate has accepted is refused by nothing    *)
(* afterwards; the one exception is the router's panic at a metrics path   *)
(* without its slash, which Validate does not look at.                     *)
(***************************************************************************)
AcceptedConfigurationBuilds ==
    \A p \in Programs : at[p] = "broken" =>
        p = "gateway" /\ conf[p].attempts > 0 /\ conf[p].builds /\ ~conf[p].routes

(***************************************************************************)
(* A program that is sent SIGTERM stops, even in its retry loops, which    *)
(* SIGTERM interrupts in the services and not in the gateway, and even if  *)
(* its clients never end their calls.                                      *)
(***************************************************************************)
StopsWhenTold == (told # {}) ~> (told = {})

(***************************************************************************)
(* After the migrator has succeeded the platform comes up, in whatever     *)
(* order its programs start, give up and are started again.                *)
(***************************************************************************)
ComesUp == (script = "ok") ~> (at["gateway"] = "serving")
=============================================================================

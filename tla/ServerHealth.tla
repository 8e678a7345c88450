----------------------------- MODULE ServerHealth -----------------------------
(***************************************************************************)
(* A server process: it loads its configuration, registers health checks   *)
(* in a HealthRegistry (packages/health) and answers overlapping calls of  *)
(* HealthRegistry.run.  The probes are those of packages/config, db,       *)
(* redis, clickhouse and storage; the services they ask, and the process   *)
(* that starts all this, are external.                                     *)
(***************************************************************************)
EXTENDS ServerConfig, Naturals, Sequences, SequencesExt

CONSTANTS
    Environments,  \* the process environments it may be started in
    Checks,        \* the checks that may be registered
    NonCritical,   \* those registered with critical = false
    Buckets,       \* the buckets of the storage check, in order
    Runs,          \* the calls of run
    MaxChecks,     \* bound on the registrations
    MaxChanges     \* bound on the changes of services

ASSUME HealthAssumption ==
    /\ Checks \subseteq {"configuration", "database", "redis", "clickhouse", "storage"}
    /\ NonCritical \subseteq Checks
    /\ Buckets \in Seq(ToSet(Buckets))
    /\ MaxChecks \in Nat /\ MaxChanges \in Nat

VARIABLES
    processEnv, \* the process environment, until it was read
    boot,      \* how the loading of the configuration ended
    config,    \* what it loaded
    checks,    \* the registry, in the order of registration
    service,   \* what each service does with a request
    changes,   \* how often services changed
    asked,     \* the checks each run covers
    left,      \* the requests each probe of a run still has to make
    result,    \* the outcome of each probe
    report,    \* the status of each run's report
    seen       \* history: what services did while each run was going on

registryVars == <<processEnv, boot, config, checks>>
serviceVars == <<service, changes>>
runVars == <<asked, left, result, report, seen>>
vars == <<registryVars, serviceVars, runVars>>

(* The requests of a probe, in order: storage asks for one bucket after the  *)
(* other, and the configuration asks nobody.                                 *)
RequestsOf(check) ==
    CASE check = "configuration" -> <<>>
      [] check = "storage" -> Buckets
      [] OTHER -> <<check>>

(* The services that a sequence of checks asks.                              *)
AskedBy(sequence) == UNION {ToSet(RequestsOf(check)) : check \in ToSet(sequence)}

Services == UNION {ToSet(RequestsOf(check)) : check \in Checks}

(* What is left of a sequence of requests when the first of them are done.   *)
After(requests, done) == SubSeq(requests, done + 1, Len(requests))

(* The lengths of the four endpoints, three of them through their clients.   *)
Complete(settings) ==
    \A key \in {"DATABASE_URL", "REDIS_URL", "CLICKHOUSE_URL", "S3_ENDPOINT"} :
        settings[key] # ""

FailureOf(check) == IF check \in NonCritical THEN "degraded" ELSE "unhealthy"

(* How a probe that still has the requests to make stands.                   *)
Outcome(check, requests) ==
    CASE check = "configuration" ->
            IF Complete(config.setting) THEN "healthy" ELSE FailureOf(check)
      [] check # "configuration" /\ requests = <<>> -> "healthy"
      [] OTHER -> "pending"

Aggregate(results) ==
    CASE "unhealthy" \in results -> "unhealthy"
      [] "unhealthy" \notin results /\ "degraded" \in results -> "degraded"
      [] OTHER -> "healthy"

HttpStatus(status) == IF status = "unhealthy" THEN 503 ELSE 200

Running(r) == report[r] = "running"

TypeOK ==
    /\ processEnv \in Environments \cup {Unset}
    /\ boot \in {"off", "up", "invalid", "crashed"}
    /\ checks \in Seq(Checks) /\ Len(checks) <= MaxChecks
    /\ boot # "up" => checks = <<>>
    /\ service \in [Services -> {"up", "down", "hung"}]
    /\ changes \in 0..MaxChanges
    /\ report \in [Runs -> {"none", "running", "healthy", "degraded", "unhealthy"}]
    /\ seen \in [Runs -> SUBSET (Services \X {"up", "down", "hung"})]
    /\ asked \in [Runs -> Seq(Checks)]
    /\ DOMAIN left = Runs /\ DOMAIN result = Runs
    /\ \A r \in Runs :
          /\ Len(asked[r]) <= Len(checks)
          /\ DOMAIN left[r] = DOMAIN asked[r] /\ DOMAIN result[r] = DOMAIN asked[r]
          /\ \A i \in DOMAIN asked[r] :
                /\ asked[r][i] = checks[i]
                /\ \E done \in 0..Len(RequestsOf(asked[r][i])) :
                      left[r][i] = After(RequestsOf(asked[r][i]), done)
                /\ result[r][i] \in {"pending", "healthy", FailureOf(asked[r][i])}

-----------------------------------------------------------------------------
(* Actions                                                                   *)

Init ==
    /\ processEnv \in Environments
    /\ boot = "off" /\ config = Unset /\ checks = <<>>
    /\ service = [s \in Services |-> "up"] /\ changes = 0
    /\ asked = [r \in Runs |-> <<>>]
    /\ left = [r \in Runs |-> <<>>]
    /\ result = [r \in Runs |-> <<>>]
    /\ report = [r \in Runs |-> "none"]
    /\ seen = [r \in Runs |-> {}]

(* loadConfig: a file that cannot be read throws past the validation.        *)
Boot ==
    /\ boot = "off"
    /\ processEnv' = Unset
    /\ \/ Unreadable(processEnv) /\ boot' = "crashed" /\ UNCHANGED config
       \/ /\ ~Unreadable(processEnv) /\ ~Valid(processEnv)
          /\ boot' = "invalid"
          /\ UNCHANGED config
       \/ /\ ~Unreadable(processEnv) /\ Valid(processEnv)
          /\ boot' = "up"
          /\ config' = Loaded(processEnv)
    /\ UNCHANGED <<checks, serviceVars, runVars>>

(* register appends one check, registerAll several.                          *)
Register(added) ==
    /\ boot = "up"
    /\ Len(checks \o added) <= MaxChecks
    /\ checks' = checks \o added
    /\ UNCHANGED <<processEnv, boot, config, serviceVars, runVars>>

(* run calls every probe there is before it awaits any of them.              *)
Run(r) ==
    /\ boot = "up"
    /\ report[r] = "none"
    /\ asked' = [asked EXCEPT ![r] = checks]
    /\ left' = [left EXCEPT ![r] = [i \in DOMAIN checks |-> RequestsOf(checks[i])]]
    /\ result' = [result EXCEPT ![r] =
                     [i \in DOMAIN checks |-> Outcome(checks[i], RequestsOf(checks[i]))]]
    /\ report' = [report EXCEPT ![r] = "running"]
    /\ seen' = [seen EXCEPT ![r] = {<<s, service[s]>> : s \in AskedBy(checks)}]
    /\ UNCHANGED <<registryVars, serviceVars>>

(* Mutant: the storage probe is content with the first bucket.               *)
Rest_FirstOnly(requests) == <<>>

(* Mutant: it loses the last bucket for each one it asked.                   *)
Rest_DropsLast(requests) == Front(requests)

(* What a probe goes on to ask once a service answered.                      *)
Rest(requests) == Tail(requests)

(* The service a probe has asked answers; runOne catches what the probe      *)
(* throws, be it the client's error or an answer it does not like.           *)
Answered(r, i) ==
    /\ Running(r) /\ result[r][i] = "pending"
    /\ LET rest == Rest(left[r][i]) IN
       \/ /\ service[Head(left[r][i])] = "up"
          /\ left' = [left EXCEPT ![r][i] = rest]
          /\ result' = [result EXCEPT ![r][i] = Outcome(asked[r][i], rest)]
       \/ /\ service[Head(left[r][i])] = "down"
          /\ left' = [left EXCEPT ![r][i] = <<>>]
          /\ result' = [result EXCEPT ![r][i] = FailureOf(asked[r][i])]
    /\ UNCHANGED <<asked, report, seen, registryVars, serviceVars>>

(* Mutant: a run waits for the checks registered in the meantime too.        *)
Settled_AllRegistered(r) ==
    \A i \in DOMAIN checks : i \in DOMAIN asked[r] /\ result[r][i] # "pending"

(* Promise.all over the probes that run has called.                          *)
Settled(r) == \A i \in DOMAIN asked[r] : result[r][i] # "pending"

(* The run returns, and what it kept is gone.                                *)
Report(r) ==
    /\ Running(r) /\ Settled(r)
    /\ report' = [report EXCEPT ![r] = Aggregate(ToSet(result[r]))]
    /\ asked' = [asked EXCEPT ![r] = <<>>]
    /\ left' = [left EXCEPT ![r] = <<>>]
    /\ result' = [result EXCEPT ![r] = <<>>]
    /\ seen' = [seen EXCEPT ![r] = {}]
    /\ UNCHANGED <<registryVars, serviceVars>>

(* A service comes up, goes down or stops answering.                         *)
Change(s, does) ==
    /\ changes < MaxChanges
    /\ does # service[s]
    /\ service' = [service EXCEPT ![s] = does]
    /\ changes' = changes + 1
    /\ seen' = [r \in Runs |-> seen[r] \cup ({<<s, does>>} \cap (AskedBy(asked[r]) \X {does}))]
    /\ UNCHANGED <<asked, left, result, report, registryVars>>

RunStep(r) == Report(r) \/ \E i \in DOMAIN asked[r] : Answered(r, i)

Next ==
    \/ Boot
    \/ \E added \in BoundedSeq(Checks, MaxChecks) \ {<<>>} : Register(added)
    \/ \E r \in Runs : Run(r) \/ RunStep(r)
    \/ \E s \in Services, does \in {"up", "down", "hung"} : Change(s, does)

Spec == Init /\ [][Next]_vars

(* A service that is up or down answers, and the event loop goes on.         *)
FairSpec == Spec /\ \A r \in Runs : WF_vars(RunStep(r))

-----------------------------------------------------------------------------
(* Properties                                                                *)

(* The configuration check never fails in a process that loaded its          *)
(* configuration: "validated at load (fail-fast)" (config/src/server/        *)
(* health.ts:6), whichever of variable, secret file and profile each         *)
(* endpoint comes from.                                                      *)
LoadedConfigIsHealthy ==
    \A r \in Runs : \A i \in DOMAIN asked[r] :
        asked[r][i] = "configuration" => result[r][i] = "healthy"

(* The keys that the operator set: a blank file, unlike a blank variable, is *)
(* a setting too.                                                            *)
Told ==
    {key \in Keys : processEnv.file[key] # Unset \/ processEnv.direct[key] \notin {Unset, ""}}

(* What nobody set keeps its profile: an empty variable, as an env file      *)
(* leaves it, neither turns off the backups of production nor anything else  *)
(* (config.ts:116, env-provider.ts:23).                                      *)
ProfileIsKept ==
    [][boot = "off" /\ boot' = "up" =>
          LET profile == Profile(ResolveEnvironment(processEnv)) IN
          \A key \in DOMAIN profile \ Told :
              config'.setting[key] = Parsed(key, profile[key])]_vars

(* The services that the critical checks of a run ask.                       *)
MustBeUp(r) ==
    UNION {ToSet(RequestsOf(check)) : check \in ToSet(asked[r]) \ NonCritical}

WasUp(r) == {s \in Services : <<s, "up">> \in seen[r]}

WasDown(r) == {s \in Services : <<s, "down">> \in seen[r]}

(* A load balancer may believe what it reads: 200 is answered only if every  *)
(* service that a critical check asks was up, and 503 only if one was down,  *)
(* at some moment of that run, and "healthy" only if the others were up too, *)
(* however runs overlap and services and registrations change meanwhile      *)
(* (registry.ts:44-53).                                                      *)
ReportIsTrue ==
    [][\A r \in Runs : Running(r) /\ report'[r] # "running" =>
          /\ HttpStatus(report'[r]) = 200 => MustBeUp(r) \subseteq WasUp(r)
          /\ HttpStatus(report'[r]) = 503 => MustBeUp(r) \cap WasDown(r) # {}
          /\ report'[r] = "healthy" => AskedBy(asked[r]) \subseteq WasUp(r)]_vars

(* A report keeps nobody waiting but for a service that one of its own       *)
(* checks asks and that does not answer: neither an overlapping run nor a    *)
(* check registered after it began holds it up (registry.ts:19).             *)
ReportEnds ==
    \A r \in Runs :
        Running(r) ~> ~Running(r) \/ \E s \in AskedBy(asked[r]) : service[s] = "hung"
-----------------------------------------------------------------------------
(* The inductive invariant                                                   *)

(* What a process that is up has loaded is complete.                         *)
LoadedIsComplete == boot = "up" => Complete(config.setting)

AsksFor(r, i) == ToSet(RequestsOf(asked[r][i]))

(* What the services of a run do now is among what was seen of them.         *)
PresentIsSeen ==
    \A r \in Runs : \A i \in DOMAIN asked[r] : \A s \in AsksFor(r, i) :
        <<s, service[s]>> \in seen[r]

(* What a probe that is not done has not asked yet is left; it passes when   *)
(* each service it asks was up at its turn, and fails when one was down.     *)
ProbesAreTrue ==
    \A r \in Runs : \A i \in DOMAIN asked[r] :
        /\ result[r][i] = "pending" =>
              /\ left[r][i] # <<>>
              /\ AsksFor(r, i) \subseteq WasUp(r) \cup ToSet(left[r][i])
        /\ result[r][i] = "healthy" => AsksFor(r, i) \subseteq WasUp(r)
        /\ result[r][i] = FailureOf(asked[r][i]) => AsksFor(r, i) \cap WasDown(r) # {}

(* The strengthening of LoadedConfigIsHealthy that every step preserves, and *)
(* from which ReportIsTrue follows.                                          *)
IInv ==
    /\ TypeOK
    /\ LoadedIsComplete
    /\ LoadedConfigIsHealthy
    /\ PresentIsSeen
    /\ ProbesAreTrue
=============================================================================

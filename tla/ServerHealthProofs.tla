-------------------------- MODULE ServerHealthProofs --------------------------
(***************************************************************************)
(* Proofs about ServerHealth: what the loader accepts is complete, what    *)
(* nobody set keeps its profile, and a health report is true of its run,   *)
(* for any environments, checks, overlapping runs and failing services.    *)
(***************************************************************************)
EXTENDS ServerHealth, SequenceTheorems, TLAPS

USE HealthAssumption, ConfigAssumption

-----------------------------------------------------------------------------
(* Facts about the definitions                                               *)

LEMMA ElementsOfASequence ==
    ASSUME NEW S, NEW q \in Seq(S)
    PROVE  /\ ToSet(q) \subseteq S
           /\ q \in Seq(ToSet(q))
           /\ \A x : x \in ToSet(q) <=> \E i \in 1..Len(q) : x = q[i]
  <1>1. PICK n \in Nat : n = Len(q) /\ DOMAIN q = 1..n
    OBVIOUS
  <1>2. \A i \in 1..n : q[i] \in S /\ q[i] \in ToSet(q)
    BY <1>1 DEF ToSet
  <1>3. q \in Seq(ToSet(q))
    BY <1>1, <1>2, IsASeq
  <1> QED
    BY <1>1, <1>2, <1>3 DEF ToSet

LEMMA RequestsAreASequence ==
    ASSUME NEW check \in Checks
    PROVE  /\ RequestsOf(check) \in Seq(ToSet(RequestsOf(check)))
           /\ ToSet(RequestsOf(check)) \subseteq Services
           /\ check = "configuration" => RequestsOf(check) = <<>>
  <1>1. ToSet(RequestsOf(check)) \subseteq Services
    BY DEF Services
  <1>2. CASE check = "configuration"
    <2>1. RequestsOf(check) = <<>>
      BY <1>2 DEF RequestsOf
    <2> QED
      BY <1>1, <2>1
  <1>3. CASE check = "storage"
    <2>1. RequestsOf(check) = Buckets
      BY <1>3 DEF RequestsOf
    <2> QED
      BY <1>1, <1>3, <2>1
  <1>4. CASE check \notin {"configuration", "storage"}
    <2>1. RequestsOf(check) = <<check>>
      BY <1>4 DEF RequestsOf
    <2>2. <<check>> \in Seq({check})
      OBVIOUS
    <2> QED
      BY <1>1, <1>4, <2>1, <2>2, ElementsOfASequence
  <1> QED
    BY <1>2, <1>3, <1>4

(* What is left of requests, request by request.                             *)
LEMMA AfterNothing ==
    ASSUME NEW S, NEW q \in Seq(S)
    PROVE  After(q, 0) = q /\ After(q, Len(q)) = <<>>
  <1>1. Len(q) \in Nat
    OBVIOUS
  <1>2. SubSeq(q, 1, Len(q)) = q
    BY SubSeqFull
  <1>3. SubSeq(q, Len(q) + 1, Len(q)) = <<>>
    BY <1>1, SubSeqEmpty
  <1> QED
    BY <1>2, <1>3 DEF After

LEMMA AfterTheNext ==
    ASSUME NEW S, NEW q \in Seq(S), NEW done \in 0..Len(q), After(q, done) # <<>>
    PROVE  /\ done + 1 \in 0..Len(q)
           /\ Head(After(q, done)) \in ToSet(q)
           /\ Tail(After(q, done)) = After(q, done + 1)
           /\ ToSet(After(q, done))
                 = {Head(After(q, done))} \cup ToSet(After(q, done + 1))
  <1>1. PICK n \in Nat : n = Len(q) /\ DOMAIN q = 1..n
    OBVIOUS
  <1>2. done # n
    BY <1>1, AfterNothing
  <1>3. done + 1 \in 1..n /\ n \in (done + 1)..n /\ done + 1 \in 0..n
    BY <1>1, <1>2
  <1>4. /\ Head(After(q, done)) = q[done + 1]
        /\ Tail(After(q, done)) = After(q, done + 1)
    BY <1>1, <1>3, HeadTailOfSubSeq DEF After
  <1>5. q[done + 1] \in ToSet(q)
    BY <1>1, <1>3 DEF ToSet
  <1>6. After(q, done) \in Seq(S)
    <2>1. \A i \in (done + 1)..n : q[i] \in S
      BY <1>1, <1>3
    <2> QED
      BY <1>1, <1>3, <2>1, SubSeqProperties DEF After
  <1>7. ASSUME NEW s \in Seq(S), s # <<>>
        PROVE  ToSet(s) = {Head(s)} \cup ToSet(Tail(s))
    <2>1. PICK m \in Nat : Len(s) = m + 1
      BY <1>7
    <2>2. Len(Tail(s)) = m /\ \A i \in 1..m : Tail(s)[i] = s[i + 1]
      BY <1>7, <2>1, HeadTailProperties
    <2>3. Tail(s) \in Seq(S) /\ Head(s) = s[1]
      BY <1>7, HeadTailProperties
    <2>4. \A x : x \in ToSet(s) <=> \E i \in 1..(m + 1) : x = s[i]
      BY <2>1, ElementsOfASequence
    <2>5. \A x : x \in ToSet(Tail(s)) <=> \E i \in 1..m : x = s[i + 1]
      <3>1. \A x : x \in ToSet(Tail(s)) <=> \E i \in 1..Len(Tail(s)) : x = Tail(s)[i]
        BY <2>3, ElementsOfASequence
      <3>2. \A x : x \in ToSet(Tail(s)) <=> \E i \in 1..m : x = Tail(s)[i]
        BY <2>2, <3>1
      <3> QED
        BY <2>2, <3>2
    <2>6. ASSUME NEW x \in ToSet(s) PROVE x = Head(s) \/ x \in ToSet(Tail(s))
      <3>1. PICK i \in 1..(m + 1) : x = s[i]
        BY <2>4
      <3>2. CASE i = 1
        BY <2>3, <3>1, <3>2
      <3>3. CASE i # 1
        <4>1. i - 1 \in 1..m /\ s[(i - 1) + 1] = s[i]
          BY <3>3
        <4> QED
          BY <2>5, <3>1, <4>1
      <3> QED
        BY <3>2, <3>3
    <2>7. Head(s) \in ToSet(s)
      BY <2>3, <2>4
    <2>8. ASSUME NEW x \in ToSet(Tail(s)) PROVE x \in ToSet(s)
      <3>1. PICK i \in 1..m : x = s[i + 1]
        BY <2>5
      <3>2. i + 1 \in 1..(m + 1)
        OBVIOUS
      <3> QED
        BY <2>4, <3>1, <3>2
    <2> QED
      BY <2>6, <2>7, <2>8
  <1> QED
    BY <1>1, <1>3, <1>4, <1>5, <1>6, <1>7

(* A probe is pending exactly while it has requests to make; that of the     *)
(* configuration passes when what was loaded is complete.                    *)
LEMMA OutcomeOfAProbe ==
    ASSUME NEW check \in Checks, NEW requests,
           check = "configuration" => Complete(config.setting)
    PROVE  /\ Outcome(check, requests) \in {"healthy", "pending"}
           /\ Outcome(check, requests) = "pending"
                <=> check # "configuration" /\ requests # <<>>
  BY DEF Outcome

LEMMA FailureIsNoOutcome ==
    \A check : FailureOf(check) \notin {"pending", "healthy"}
  BY DEF FailureOf

(* What the loader accepts is complete.                                      *)
LEMMA ValidIsComplete ==
    ASSUME NEW env, Valid(env)
    PROVE  Complete(Loaded(env).setting)
  <1> SUFFICES ASSUME NEW key \in {"DATABASE_URL", "REDIS_URL", "CLICKHOUSE_URL",
                                   "S3_ENDPOINT"}
               PROVE  Loaded(env).setting[key] # ""
    BY DEF Complete
  <1>1. key \in Keys /\ key \notin FlagKeys \cup NonnegativeKeys
    BY DEF Keys, RequiredKeys, UrlKeys, FlagKeys, NonnegativeKeys
  <1>2. Loaded(env).setting[key] = Parsed(key, Source(env)[key])
    BY <1>1 DEF Loaded
  <1>3. Accepts(key, Source(env)[key])
    BY <1>1 DEF Valid
  <1>4. Source(env)[key] # ""
    BY <1>3 DEF Accepts, RequiredKeys, UrlKeys, Urls
  <1>5. DefaultOf(key) # "" \/ Source(env)[key] # Unset
    BY <1>1 DEF DefaultOf, OptionalUrlKeys
  <1>6. Parsed(key, Source(env)[key]) # ""
    BY <1>1, <1>4, <1>5 DEF Parsed
  <1> QED
    BY <1>2, <1>6
-----------------------------------------------------------------------------
(* The invariant                                                             *)

LEMMA InitIInv == Init => IInv
  <1> SUFFICES ASSUME Init PROVE IInv
    OBVIOUS
  <1>1. /\ boot = "off" /\ checks = <<>>
        /\ \A r \in Runs : asked[r] = <<>> /\ left[r] = <<>> /\ result[r] = <<>>
    BY DEF Init
  <1>2. TypeOK
    BY DEF Init, TypeOK
  <1> QED
    BY <1>1, <1>2 DEF IInv, LoadedIsComplete, LoadedConfigIsHealthy, PresentIsSeen, ProbesAreTrue

LEMMA BootKeepsIInv ==
    ASSUME IInv, Boot
    PROVE  IInv'
  <1>1. /\ boot = "off" /\ boot' \in {"up", "invalid", "crashed"} /\ processEnv' = Unset
        /\ UNCHANGED <<checks, service, changes, asked, left, result, report, seen>>
        /\ boot' = "up" => Valid(processEnv) /\ config' = Loaded(processEnv)
    BY DEF Boot, serviceVars, runVars
  <1>2. checks = <<>> /\ \A r \in Runs : asked[r] = <<>>
    BY <1>1 DEF IInv, TypeOK
  <1>3. TypeOK'
    BY <1>1, <1>2 DEF IInv, TypeOK
  <1>4. LoadedIsComplete'
    BY <1>1, ValidIsComplete DEF LoadedIsComplete, Complete
  <1>5. (LoadedConfigIsHealthy /\ PresentIsSeen /\ ProbesAreTrue)'
    BY <1>1, <1>2 DEF LoadedConfigIsHealthy, PresentIsSeen, ProbesAreTrue
  <1> QED
    BY <1>3, <1>4, <1>5 DEF IInv

LEMMA RegisterKeepsIInv ==
    ASSUME IInv, NEW added \in BoundedSeq(Checks, MaxChecks), Register(added)
    PROVE  IInv'
  <1>1. /\ boot = "up" /\ checks' = checks \o added /\ Len(checks \o added) <= MaxChecks
        /\ UNCHANGED <<processEnv, boot, config, service, changes>>
        /\ UNCHANGED <<asked, left, result, report, seen>>
    BY DEF Register, serviceVars, runVars
  <1>2. added \in Seq(Checks) /\ checks \in Seq(Checks)
    BY DEF BoundedSeq, SeqOf, IInv, TypeOK
  <1>3. PICK n \in Nat, m \in Nat : n = Len(checks) /\ m = Len(added)
    BY <1>2
  <1>4. /\ checks' \in Seq(Checks) /\ Len(checks') = n + m
        /\ \A i \in 1..n : checks'[i] = checks[i]
    BY <1>1, <1>2, <1>3
  <1>5. TypeOK'
    <2>1. ASSUME NEW r \in Runs
          PROVE  /\ Len(asked[r]) <= Len(checks')
                 /\ \A i \in DOMAIN asked[r] : asked[r][i] = checks'[i]
      <3>1. PICK k \in Nat : k = Len(asked[r]) /\ DOMAIN asked[r] = 1..k /\ k <= n
        <4>1. asked[r] \in Seq(Checks) /\ Len(asked[r]) <= n
          BY <1>3 DEF IInv, TypeOK
        <4> QED
          BY <4>1
      <3>2. \A i \in 1..k : asked[r][i] = checks[i] /\ i \in 1..n
        BY <3>1 DEF IInv, TypeOK
      <3> QED
        BY <1>4, <3>1, <3>2
    <2> QED
      BY <1>1, <1>4, <2>1 DEF IInv, TypeOK
  <1>6. (LoadedIsComplete /\ LoadedConfigIsHealthy /\ PresentIsSeen /\ ProbesAreTrue)'
    BY <1>1 DEF IInv, LoadedIsComplete, LoadedConfigIsHealthy, PresentIsSeen, ProbesAreTrue,
       AsksFor, WasUp, WasDown
  <1> QED
    BY <1>5, <1>6 DEF IInv

LEMMA RunKeepsIInv ==
    ASSUME IInv, NEW r \in Runs, Run(r)
    PROVE  IInv'
  <1> DEFINE Requests(i) == RequestsOf(checks[i])
  <1>1. /\ boot = "up" /\ report[r] = "none"
        /\ asked' = [asked EXCEPT ![r] = checks]
        /\ left' = [left EXCEPT ![r] = [i \in DOMAIN checks |-> Requests(i)]]
        /\ result' = [result EXCEPT ![r] =
                          [i \in DOMAIN checks |-> Outcome(checks[i], Requests(i))]]
        /\ report' = [report EXCEPT ![r] = "running"]
        /\ seen' = [seen EXCEPT ![r] = {<<s, service[s]>> : s \in AskedBy(checks)}]
        /\ UNCHANGED <<processEnv, boot, config, checks, service, changes>>
    BY DEF Run, registryVars, serviceVars
  <1>t. TypeOK /\ checks \in Seq(Checks)
    BY DEF IInv, TypeOK
  <1>2. PICK n \in Nat : n = Len(checks) /\ DOMAIN checks = 1..n
    BY <1>t
  <1>3. /\ asked'[r] = checks
        /\ left'[r] = [i \in 1..n |-> Requests(i)]
        /\ result'[r] = [i \in 1..n |-> Outcome(checks[i], Requests(i))]
        /\ seen'[r] = {<<s, service[s]>> : s \in AskedBy(checks)}
        /\ \A q \in Runs \ {r} : /\ asked'[q] = asked[q] /\ left'[q] = left[q]
                                /\ result'[q] = result[q] /\ seen'[q] = seen[q]
    BY <1>1, <1>2, <1>t DEF TypeOK
  <1>4. ASSUME NEW i \in 1..n
        PROVE  /\ checks[i] \in Checks
               /\ Requests(i) \in Seq(ToSet(Requests(i)))
               /\ ToSet(Requests(i)) \subseteq Services
               /\ ToSet(Requests(i)) \subseteq AskedBy(checks)
               /\ checks[i] = "configuration" => Requests(i) = <<>>
               /\ Outcome(checks[i], Requests(i)) \in {"healthy", "pending"}
               /\ Outcome(checks[i], Requests(i)) = "pending" <=> Requests(i) # <<>>
               /\ checks[i] = "configuration" =>
                     Outcome(checks[i], Requests(i)) = "healthy"
    <2>1. checks[i] \in Checks /\ checks[i] \in ToSet(checks)
      BY <1>2, <1>t DEF ToSet
    <2>2. Complete(config.setting)
      BY <1>1 DEF IInv, LoadedIsComplete
    <2> QED
      BY <2>1, <2>2, RequestsAreASequence, OutcomeOfAProbe DEF AskedBy
  <1>5. TypeOK'
    <2>1. ASSUME NEW i \in 1..n
          PROVE  \E done \in 0..Len(Requests(i)) : left'[r][i] = After(Requests(i), done)
      <3>1. Requests(i) \in Seq(ToSet(Requests(i))) /\ Len(Requests(i)) \in Nat
        BY <1>4
      <3>2. left'[r][i] = After(Requests(i), 0) /\ 0 \in 0..Len(Requests(i))
        BY <1>3, <3>1, AfterNothing
      <3> QED
        BY <3>2
    <2>2. /\ Len(asked'[r]) <= Len(checks')
          /\ DOMAIN left'[r] = DOMAIN asked'[r] /\ DOMAIN result'[r] = DOMAIN asked'[r]
          /\ \A i \in DOMAIN asked'[r] :
                /\ asked'[r][i] = checks'[i]
                /\ \E done \in 0..Len(RequestsOf(asked'[r][i])) :
                      left'[r][i] = After(RequestsOf(asked'[r][i]), done)
                /\ result'[r][i] \in {"pending", "healthy", FailureOf(asked'[r][i])}
      <3>1. /\ asked'[r] = checks /\ checks' = checks /\ Len(checks) = n
            /\ DOMAIN asked'[r] = 1..n /\ DOMAIN left'[r] = 1..n /\ DOMAIN result'[r] = 1..n
        BY <1>1, <1>2, <1>3
      <3>2. \A i \in 1..n : result'[r][i] \in {"pending", "healthy"}
        BY <1>3, <1>4
      <3> HIDE DEF Requests
      <3>3. \A i \in 1..n : \E done \in 0..Len(Requests(i)) :
               left'[r][i] = After(Requests(i), done)
        BY <2>1
      <3>4. \A i \in 1..n : Requests(i) = RequestsOf(asked'[r][i])
        BY <3>1 DEF Requests
      <3> QED
        BY <3>1, <3>2, <3>3, <3>4
    <2>3. seen'[r] \in SUBSET (Services \X {"up", "down", "hung"})
      <3>1. \A s \in AskedBy(checks) : s \in Services
        <4>1. ToSet(checks) \subseteq Checks
          BY <1>t, ElementsOfASequence
        <4> QED
          BY <4>1, RequestsAreASequence DEF AskedBy
      <3>2. \A s \in Services : service[s] \in {"up", "down", "hung"}
        BY <1>t DEF TypeOK
      <3> QED
        BY <1>3, <3>1, <3>2
    <2>4. /\ report' \in [Runs -> {"none", "running", "healthy", "degraded", "unhealthy"}]
          /\ seen' \in [Runs -> SUBSET (Services \X {"up", "down", "hung"})]
          /\ asked' \in [Runs -> Seq(Checks)]
          /\ DOMAIN left' = Runs /\ DOMAIN result' = Runs
      BY <1>1, <1>3, <1>t, <2>3 DEF TypeOK
    <2>5. ASSUME NEW q \in Runs
          PROVE  /\ Len(asked'[q]) <= Len(checks')
                 /\ DOMAIN left'[q] = DOMAIN asked'[q] /\ DOMAIN result'[q] = DOMAIN asked'[q]
                 /\ \A i \in DOMAIN asked'[q] :
                       /\ asked'[q][i] = checks'[i]
                       /\ \E done \in 0..Len(RequestsOf(asked'[q][i])) :
                             left'[q][i] = After(RequestsOf(asked'[q][i]), done)
                       /\ result'[q][i] \in {"pending", "healthy", FailureOf(asked'[q][i])}
      <3>1. CASE q = r
        BY <2>2, <3>1
      <3>2. CASE q # r
        BY <1>1, <1>3, <1>t, <3>2 DEF TypeOK
      <3> QED
        BY <3>1, <3>2
    <2> QED
      BY <1>1, <1>t, <2>4, <2>5 DEF TypeOK
  <1>6. LoadedIsComplete'
    BY <1>1 DEF IInv, LoadedIsComplete
  <1>7. LoadedConfigIsHealthy'
    <2> SUFFICES ASSUME NEW q \in Runs, NEW i \in DOMAIN asked'[q],
                        asked'[q][i] = "configuration"
                 PROVE  result'[q][i] = "healthy"
      BY DEF LoadedConfigIsHealthy
    <2>1. CASE q = r
      BY <1>2, <1>3, <1>4, <2>1
    <2>2. CASE q # r
      BY <1>3, <2>2 DEF IInv, LoadedConfigIsHealthy
    <2> QED
      BY <2>1, <2>2
  <1>8. PresentIsSeen'
    <2> SUFFICES ASSUME NEW q \in Runs, NEW i \in DOMAIN asked'[q],
                        NEW s \in ToSet(RequestsOf(asked'[q][i]))
                 PROVE  <<s, service[s]>> \in seen'[q]
      BY <1>1 DEF PresentIsSeen, AsksFor
    <2>1. CASE q = r
      BY <1>2, <1>3, <1>4, <2>1
    <2>2. CASE q # r
      BY <1>3, <2>2 DEF IInv, PresentIsSeen, AsksFor
    <2> QED
      BY <2>1, <2>2
  <1>9. ProbesAreTrue'
    <2> SUFFICES ASSUME NEW q \in Runs, NEW i \in DOMAIN asked'[q]
                 PROVE  /\ result'[q][i] = "pending" =>
                              /\ left'[q][i] # <<>>
                              /\ AsksFor(q, i)' \subseteq WasUp(q)' \cup ToSet(left'[q][i])
                        /\ result'[q][i] = "healthy" => AsksFor(q, i)' \subseteq WasUp(q)'
                        /\ result'[q][i] = FailureOf(asked'[q][i]) =>
                              AsksFor(q, i)' \cap WasDown(q)' # {}
      BY DEF ProbesAreTrue
    <2>1. CASE q = r
      <3>1. /\ i \in 1..n /\ asked'[q][i] = checks[i] /\ left'[q][i] = Requests(i)
            /\ result'[q][i] = Outcome(checks[i], Requests(i))
        BY <1>2, <1>3, <2>1
      <3>2. AsksFor(q, i)' = ToSet(Requests(i))
        BY <3>1 DEF AsksFor
      <3>3. result'[q][i] = "healthy" => ToSet(Requests(i)) = {}
        <4>1. ToSet(<<>>) = {}
          BY DEF ToSet
        <4> QED
          BY <1>4, <3>1, <4>1
      <3> QED
        BY <1>4, <3>1, <3>2, <3>3, FailureIsNoOutcome
    <2>2. CASE q # r
      <3>1. /\ asked'[q] = asked[q] /\ left'[q] = left[q] /\ result'[q] = result[q]
            /\ seen'[q] = seen[q]
        BY <1>3, <2>2
      <3>2. AsksFor(q, i)' = AsksFor(q, i) /\ WasUp(q)' = WasUp(q) /\ WasDown(q)' = WasDown(q)
        BY <3>1 DEF AsksFor, WasUp, WasDown
      <3> QED
        BY <3>1, <3>2 DEF IInv, ProbesAreTrue
    <2> QED
      BY <2>1, <2>2
  <1> QED
    BY <1>5, <1>6, <1>7, <1>8, <1>9 DEF IInv

(* The others' probes are none of its business.                              *)
LEMMA OtherRunsKeepIInv ==
    ASSUME IInv, NEW r \in Runs,
           UNCHANGED <<registryVars, service>>,
           \A q \in Runs \ {r} : /\ asked'[q] = asked[q] /\ left'[q] = left[q]
                                 /\ result'[q] = result[q] /\ seen'[q] = seen[q]
    PROVE  \A q \in Runs \ {r} : \A i \in DOMAIN asked'[q] :
              /\ asked'[q][i] = "configuration" => result'[q][i] = "healthy"
              /\ \A s \in AsksFor(q, i)' : <<s, service'[s]>> \in seen'[q]
              /\ result'[q][i] = "pending" =>
                    /\ left'[q][i] # <<>>
                    /\ AsksFor(q, i)' \subseteq WasUp(q)' \cup ToSet(left'[q][i])
              /\ result'[q][i] = "healthy" => AsksFor(q, i)' \subseteq WasUp(q)'
              /\ result'[q][i] = FailureOf(asked'[q][i]) =>
                    AsksFor(q, i)' \cap WasDown(q)' # {}
  <1> SUFFICES ASSUME NEW q \in Runs \ {r}, NEW i \in DOMAIN asked'[q]
               PROVE  /\ asked'[q][i] = "configuration" => result'[q][i] = "healthy"
                      /\ \A s \in AsksFor(q, i)' : <<s, service'[s]>> \in seen'[q]
                      /\ result'[q][i] = "pending" =>
                            /\ left'[q][i] # <<>>
                            /\ AsksFor(q, i)' \subseteq WasUp(q)' \cup ToSet(left'[q][i])
                      /\ result'[q][i] = "healthy" => AsksFor(q, i)' \subseteq WasUp(q)'
                      /\ result'[q][i] = FailureOf(asked'[q][i]) =>
                            AsksFor(q, i)' \cap WasDown(q)' # {}
    OBVIOUS
  <1>1. /\ asked'[q] = asked[q] /\ left'[q] = left[q] /\ result'[q] = result[q]
        /\ seen'[q] = seen[q] /\ service' = service
    OBVIOUS
  <1>2. AsksFor(q, i)' = AsksFor(q, i) /\ WasUp(q)' = WasUp(q) /\ WasDown(q)' = WasDown(q)
    BY <1>1 DEF AsksFor, WasUp, WasDown
  <1> QED
    BY <1>1, <1>2 DEF IInv, LoadedConfigIsHealthy, PresentIsSeen, ProbesAreTrue

LEMMA AnsweredKeepsIInv ==
    ASSUME IInv, NEW r \in Runs, NEW i \in DOMAIN asked[r], Answered(r, i)
    PROVE  IInv'
  <1> DEFINE check == asked[r][i]
             requests == RequestsOf(check)
             asks == ToSet(requests)
             s == Head(left[r][i])
             rest == Tail(left[r][i])
  <1>t. TypeOK
    BY DEF IInv
  <1>1. /\ Running(r) /\ result[r][i] = "pending" /\ service[s] \in {"up", "down"}
        /\ left' = [left EXCEPT ![r][i] = IF service[s] = "up" THEN rest ELSE <<>>]
        /\ result' = [result EXCEPT ![r][i] =
                          IF service[s] = "up" THEN Outcome(check, rest) ELSE FailureOf(check)]
        /\ UNCHANGED <<asked, report, seen, processEnv, boot, config, checks, service, changes>>
    BY DEF Answered, Rest, registryVars, serviceVars
  <1>2. /\ check \in Checks /\ check # "configuration"
        /\ requests \in Seq(asks) /\ asks \subseteq Services
        /\ left[r][i] # <<>> /\ asks \subseteq WasUp(r) \cup ToSet(left[r][i])
    <2>1. check \in Checks
      <3>1. asked[r] \in Seq(Checks)
        BY <1>t DEF TypeOK
      <3> QED
        BY <3>1
    <2>2. check # "configuration"
      BY <1>1 DEF IInv, LoadedConfigIsHealthy
    <2> QED
      BY <1>1, <2>1, <2>2, RequestsAreASequence DEF IInv, ProbesAreTrue, AsksFor
  <1>3. PICK done \in 0..Len(requests) : left[r][i] = After(requests, done)
    BY <1>t DEF TypeOK
  <1>4. /\ done + 1 \in 0..Len(requests) /\ s \in asks /\ rest = After(requests, done + 1)
        /\ ToSet(left[r][i]) = {s} \cup ToSet(rest)
    <2>1. asks = ToSet(requests)
      OBVIOUS
    <2> HIDE DEF requests, asks
    <2>2. After(requests, done) # <<>> /\ requests \in Seq(asks)
      BY <1>2, <1>3
    <2>3. /\ done + 1 \in 0..Len(requests)
          /\ Head(After(requests, done)) \in ToSet(requests)
          /\ Tail(After(requests, done)) = After(requests, done + 1)
          /\ ToSet(After(requests, done))
                = {Head(After(requests, done))} \cup ToSet(After(requests, done + 1))
      BY <2>2, AfterTheNext
    <2> QED
      BY <1>3, <2>1, <2>3
  <1>5. Len(requests) \in 0..Len(requests) /\ After(requests, Len(requests)) = <<>>
    <2>1. Len(requests) \in Nat
      BY <1>2
    <2> QED
      BY <1>2, <2>1, AfterNothing
  <1>6. <<s, service[s]>> \in seen[r] /\ s \in Services
    BY <1>2, <1>4 DEF IInv, PresentIsSeen, AsksFor
  <1>7. /\ DOMAIN left' = Runs /\ DOMAIN result' = Runs
        /\ DOMAIN left'[r] = DOMAIN asked[r] /\ DOMAIN result'[r] = DOMAIN asked[r]
        /\ left'[r][i] = IF service[s] = "up" THEN rest ELSE <<>>
        /\ result'[r][i] = IF service[s] = "up" THEN Outcome(check, rest) ELSE FailureOf(check)
        /\ \A j \in DOMAIN asked[r] \ {i} :
              left'[r][j] = left[r][j] /\ result'[r][j] = result[r][j]
        /\ \A q \in Runs \ {r} : left'[q] = left[q] /\ result'[q] = result[q]
    BY <1>1, <1>t DEF TypeOK
  <1>8. /\ result'[r][i] \in {"pending", "healthy", FailureOf(check)}
        /\ service[s] = "up" =>
              /\ result'[r][i] \in {"pending", "healthy"}
              /\ result'[r][i] = "pending" <=> rest # <<>>
        /\ service[s] # "up" => result'[r][i] = FailureOf(check)
    <2> HIDE DEF check, rest, s
    <2> QED
      BY <1>2, <1>7, OutcomeOfAProbe
  <1>9. TypeOK'
    <2>1. \E k \in 0..Len(requests) : left'[r][i] = After(requests, k)
      BY <1>4, <1>5, <1>7
    <2>2. ASSUME NEW q \in Runs, NEW j \in DOMAIN asked[q]
          PROVE  /\ \E k \in 0..Len(RequestsOf(asked[q][j])) :
                       left'[q][j] = After(RequestsOf(asked[q][j]), k)
                 /\ result'[q][j] \in {"pending", "healthy", FailureOf(asked[q][j])}
      <3>1. CASE q = r /\ j = i
        BY <1>8, <2>1, <3>1
      <3>2. CASE ~(q = r /\ j = i)
        <4>1. left'[q][j] = left[q][j] /\ result'[q][j] = result[q][j]
          BY <1>7, <3>2
        <4> QED
          BY <1>t, <4>1 DEF TypeOK
      <3> QED
        BY <3>1, <3>2
    <2>3. \A q \in Runs : DOMAIN left'[q] = DOMAIN asked[q] /\ DOMAIN result'[q] = DOMAIN asked[q]
      BY <1>7, <1>t DEF TypeOK
    <2>4. \A q \in Runs :
             /\ Len(asked[q]) <= Len(checks)
             /\ \A j \in DOMAIN asked[q] : asked[q][j] = checks[j]
      BY <1>t DEF TypeOK
    <2> HIDE DEF requests, rest, s
    <2> QED
      BY <1>1, <1>7, <1>t, <2>2, <2>3, <2>4 DEF TypeOK
  <1>10. LoadedIsComplete'
    BY <1>1 DEF IInv, LoadedIsComplete
  <1>11. \A q \in Runs : \A j \in DOMAIN asked[q] :
            /\ AsksFor(q, j)' = AsksFor(q, j)
            /\ WasUp(q)' = WasUp(q) /\ WasDown(q)' = WasDown(q)
    BY <1>1 DEF AsksFor, WasUp, WasDown
  <1>12. (LoadedConfigIsHealthy /\ PresentIsSeen)'
    <2>1. PresentIsSeen'
      BY <1>1, <1>11 DEF IInv, PresentIsSeen
    <2>2. LoadedConfigIsHealthy'
      BY <1>1, <1>2, <1>7 DEF IInv, LoadedConfigIsHealthy
    <2> QED
      BY <2>1, <2>2
  <1>13. ASSUME NEW q \in Runs, NEW j \in DOMAIN asked[q]
         PROVE  /\ result'[q][j] = "pending" =>
                      /\ left'[q][j] # <<>>
                      /\ AsksFor(q, j) \subseteq WasUp(q) \cup ToSet(left'[q][j])
                /\ result'[q][j] = "healthy" => AsksFor(q, j) \subseteq WasUp(q)
                /\ result'[q][j] = FailureOf(asked[q][j]) => AsksFor(q, j) \cap WasDown(q) # {}
    <2>1. CASE q = r /\ j = i
      <3>1. AsksFor(r, i) = asks
        BY DEF AsksFor
      <3>2. CASE service[s] = "up"
        <4>1. s \in WasUp(r)
          BY <1>6, <3>2 DEF WasUp
        <4>2. asks \subseteq WasUp(r) \cup ToSet(rest) /\ left'[r][i] = rest
          BY <1>2, <1>4, <1>7, <3>2, <4>1
        <4>3. rest = <<>> => ToSet(rest) = {}
          BY DEF ToSet
        <4> QED
          BY <1>8, <2>1, <3>1, <3>2, <4>2, <4>3, FailureIsNoOutcome
      <3>3. CASE service[s] # "up"
        <4>1. s \in WasDown(r)
          BY <1>1, <1>6, <3>3 DEF WasDown
        <4> QED
          BY <1>4, <1>8, <2>1, <3>1, <3>3, <4>1, FailureIsNoOutcome
      <3> QED
        BY <3>2, <3>3
    <2>2. CASE ~(q = r /\ j = i)
      <3>1. left'[q][j] = left[q][j] /\ result'[q][j] = result[q][j]
        BY <1>7, <2>2
      <3> QED
        BY <3>1 DEF IInv, ProbesAreTrue
    <2> QED
      BY <2>1, <2>2
  <1>14. ProbesAreTrue'
    BY <1>1, <1>11, <1>13 DEF ProbesAreTrue
  <1> QED
    BY <1>9, <1>10, <1>12, <1>14 DEF IInv

LEMMA ReportKeepsIInv ==
    ASSUME IInv, NEW r \in Runs, Report(r)
    PROVE  IInv'
  <1>t. TypeOK
    BY DEF IInv
  <1>1. /\ asked' = [asked EXCEPT ![r] = <<>>] /\ left' = [left EXCEPT ![r] = <<>>]
        /\ result' = [result EXCEPT ![r] = <<>>] /\ seen' = [seen EXCEPT ![r] = {}]
        /\ report' = [report EXCEPT ![r] = Aggregate(ToSet(result[r]))]
        /\ UNCHANGED <<registryVars, serviceVars>>
    BY DEF Report
  <1>2. /\ asked'[r] = <<>> /\ left'[r] = <<>> /\ result'[r] = <<>> /\ seen'[r] = {}
        /\ \A q \in Runs \ {r} : /\ asked'[q] = asked[q] /\ left'[q] = left[q]
                                /\ result'[q] = result[q] /\ seen'[q] = seen[q]
    BY <1>1, <1>t DEF TypeOK
  <1>3. TypeOK'
    <2>1. /\ report' \in [Runs -> {"none", "running", "healthy", "degraded", "unhealthy"}]
          /\ seen' \in [Runs -> SUBSET (Services \X {"up", "down", "hung"})]
          /\ asked' \in [Runs -> Seq(Checks)]
          /\ DOMAIN left' = Runs /\ DOMAIN result' = Runs
      <3>1. Aggregate(ToSet(result[r])) \in {"healthy", "degraded", "unhealthy"}
        BY DEF Aggregate
      <3> QED
        BY <1>1, <1>t, <3>1 DEF TypeOK
    <2>2. Len(checks) \in Nat
      BY <1>t DEF TypeOK
    <2>3. ASSUME NEW q \in Runs
          PROVE  /\ Len(asked'[q]) <= Len(checks)
                 /\ DOMAIN left'[q] = DOMAIN asked'[q] /\ DOMAIN result'[q] = DOMAIN asked'[q]
                 /\ \A i \in DOMAIN asked'[q] :
                       /\ asked'[q][i] = checks[i]
                       /\ \E done \in 0..Len(RequestsOf(asked'[q][i])) :
                             left'[q][i] = After(RequestsOf(asked'[q][i]), done)
                       /\ result'[q][i] \in {"pending", "healthy", FailureOf(asked'[q][i])}
      <3>1. CASE q = r
        BY <1>2, <2>2, <3>1
      <3>2. CASE q # r
        BY <1>2, <1>t, <3>2 DEF TypeOK
      <3> QED
        BY <3>1, <3>2
    <2> QED
      BY <1>1, <1>t, <2>1, <2>3 DEF TypeOK, registryVars, serviceVars
  <1>4. LoadedIsComplete'
    BY <1>1 DEF IInv, LoadedIsComplete, registryVars
  <1>5. (LoadedConfigIsHealthy /\ PresentIsSeen /\ ProbesAreTrue)'
    <2>1. DOMAIN asked'[r] = {}
      BY <1>2
    <2> QED
      BY <1>1, <1>2, <2>1, OtherRunsKeepIInv
      DEF LoadedConfigIsHealthy, PresentIsSeen, ProbesAreTrue, serviceVars
  <1> QED
    BY <1>3, <1>4, <1>5 DEF IInv

LEMMA ChangeKeepsIInv ==
    ASSUME IInv, NEW s \in Services, NEW does \in {"up", "down", "hung"}, Change(s, does)
    PROVE  IInv'
  <1>t. TypeOK
    BY DEF IInv
  <1>1. /\ changes < MaxChanges /\ changes' = changes + 1
        /\ service' = [service EXCEPT ![s] = does]
        /\ seen' = [r \in Runs |-> seen[r] \cup ({<<s, does>>} \cap (AskedBy(asked[r]) \X {does}))]
        /\ UNCHANGED <<asked, left, result, report, processEnv, boot, config, checks>>
    BY DEF Change, registryVars
  <1>2. \A r \in Runs : seen[r] \subseteq seen'[r]
    BY <1>1
  <1>3. TypeOK'
    <2>1. service' \in [Services -> {"up", "down", "hung"}] /\ changes' \in 0..MaxChanges
      BY <1>1, <1>t DEF TypeOK
    <2>2. seen' \in [Runs -> SUBSET (Services \X {"up", "down", "hung"})]
      BY <1>1, <1>t DEF TypeOK
    <2> QED
      BY <1>1, <1>t, <2>1, <2>2 DEF TypeOK
  <1>4. LoadedIsComplete' /\ LoadedConfigIsHealthy'
    BY <1>1 DEF IInv, LoadedIsComplete, LoadedConfigIsHealthy
  <1>5. PresentIsSeen'
    <2> SUFFICES ASSUME NEW r \in Runs, NEW i \in DOMAIN asked[r], NEW x \in AsksFor(r, i)
                 PROVE  <<x, service'[x]>> \in seen'[r]
      BY <1>1 DEF PresentIsSeen, AsksFor
    <2>1. <<x, service[x]>> \in seen[r]
      BY DEF IInv, PresentIsSeen
    <2>2. x \in AskedBy(asked[r])
      BY DEF AsksFor, AskedBy, ToSet
    <2>3. CASE x = s
      BY <1>1, <1>t, <2>2, <2>3 DEF TypeOK
    <2>4. CASE x # s
      <3>1. service'[x] = service[x]
        <4>1. x \in Services
          BY <1>t, <2>1 DEF TypeOK
        <4> QED
          BY <1>1, <1>t, <2>4, <4>1 DEF TypeOK
      <3> QED
        BY <1>2, <2>1, <3>1
    <2> QED
      BY <2>3, <2>4
  <1>6. ProbesAreTrue'
    <2> SUFFICES ASSUME NEW r \in Runs, NEW i \in DOMAIN asked[r]
                 PROVE  /\ result[r][i] = "pending" =>
                              /\ left[r][i] # <<>>
                              /\ AsksFor(r, i) \subseteq WasUp(r)' \cup ToSet(left[r][i])
                        /\ result[r][i] = "healthy" => AsksFor(r, i) \subseteq WasUp(r)'
                        /\ result[r][i] = FailureOf(asked[r][i]) =>
                              AsksFor(r, i) \cap WasDown(r)' # {}
      BY <1>1 DEF ProbesAreTrue, AsksFor
    <2>1. WasUp(r) \subseteq WasUp(r)' /\ WasDown(r) \subseteq WasDown(r)'
      BY <1>2 DEF WasUp, WasDown
    <2> QED
      BY <2>1 DEF IInv, ProbesAreTrue
  <1> QED
    BY <1>3, <1>4, <1>5, <1>6 DEF IInv

LEMMA StepKeepsIInv ==
    ASSUME IInv, [Next]_vars
    PROVE  IInv'
  <1>1. CASE Boot
    BY <1>1, BootKeepsIInv
  <1>2. ASSUME NEW added \in BoundedSeq(Checks, MaxChecks), Register(added)
        PROVE  IInv'
    BY <1>2, RegisterKeepsIInv
  <1>3. ASSUME NEW r \in Runs, Run(r)
        PROVE  IInv'
    BY <1>3, RunKeepsIInv
  <1>4. ASSUME NEW r \in Runs, RunStep(r)
        PROVE  IInv'
    BY <1>4, ReportKeepsIInv, AnsweredKeepsIInv DEF RunStep
  <1>5. ASSUME NEW s \in Services, NEW does \in {"up", "down", "hung"}, Change(s, does)
        PROVE  IInv'
    BY <1>5, ChangeKeepsIInv
  <1>6. CASE UNCHANGED vars
    <2>1. UNCHANGED <<processEnv, boot, config, checks, service, changes>>
      BY <1>6 DEF vars, registryVars, serviceVars
    <2>2. UNCHANGED <<asked, left, result, report, seen>>
      BY <1>6 DEF vars, runVars
    <2>3. TypeOK'
      BY <2>1, <2>2 DEF IInv, TypeOK
    <2>4. (LoadedIsComplete /\ LoadedConfigIsHealthy)'
      BY <2>1, <2>2 DEF IInv, LoadedIsComplete, LoadedConfigIsHealthy
    <2>5. (PresentIsSeen /\ ProbesAreTrue)'
      BY <2>1, <2>2 DEF IInv, PresentIsSeen, ProbesAreTrue, AsksFor, WasUp, WasDown
    <2> QED
      BY <2>3, <2>4, <2>5 DEF IInv
  <1> QED
    BY <1>1, <1>2, <1>3, <1>4, <1>5, <1>6 DEF Next

(* Of any overlapping runs, each probe's outcome is what the services it     *)
(* asked were seen to do since its run began (registry.ts:19-53).            *)
THEOREM ServerHealthInvariant == Spec => []IInv
  <1>1. Init => IInv
    BY InitIInv
  <1>2. IInv /\ [Next]_vars => IInv'
    BY StepKeepsIInv
  <1> QED
    BY <1>1, <1>2, PTL DEF Spec

(* A run keeps to the checks there were when it was called: registrations    *)
(* only append to them, and every probe asks its own services in order.      *)
THEOREM ServerHealthTypes == Spec => []TypeOK
  <1>1. IInv => TypeOK
    BY DEF IInv
  <1> QED
    BY <1>1, ServerHealthInvariant, PTL

(* What the loader let through never fails the configuration check           *)
(* (config/src/server/health.ts:6).                                          *)
THEOREM LoadedConfigsAreHealthy == Spec => []LoadedConfigIsHealthy
  <1>1. IInv => LoadedConfigIsHealthy
    BY DEF IInv
  <1> QED
    BY <1>1, ServerHealthInvariant, PTL
-----------------------------------------------------------------------------
(* What a report says                                                        *)

(* Only its own return ends a run.                                           *)
LEMMA OnlyReportsEndRuns ==
    ASSUME TypeOK, [Next]_vars, NEW r \in Runs, Running(r), report'[r] # "running"
    PROVE  Report(r)
  <1>1. report \in [Runs -> {"none", "running", "healthy", "degraded", "unhealthy"}]
        /\ report[r] = "running"
    BY DEF TypeOK, Running
  <1>2. ASSUME report' = report PROVE FALSE
    BY <1>1, <1>2
  <1>3. ~Boot /\ ~UNCHANGED vars
    BY <1>2 DEF Boot, runVars, vars
  <1>4. \A added \in BoundedSeq(Checks, MaxChecks) : ~Register(added)
    BY <1>2 DEF Register, runVars
  <1>5. \A s \in Services, does \in {"up", "down", "hung"} : ~Change(s, does)
    BY <1>2 DEF Change
  <1>6. \A q \in Runs : ~Run(q)
    BY <1>1 DEF Run
  <1>7. \A q \in Runs : \A i \in DOMAIN asked[q] : ~Answered(q, i)
    BY <1>2 DEF Answered
  <1>8. \A q \in Runs : Report(q) => q = r
    BY <1>1 DEF Report
  <1> QED
    BY <1>3, <1>4, <1>5, <1>6, <1>7, <1>8 DEF Next, RunStep

(* What a run reports is true of the services its checks asked.              *)
LEMMA ReportsOfARun ==
    ASSUME IInv, NEW r \in Runs, Report(r)
    PROVE  /\ HttpStatus(report'[r]) = 200 => MustBeUp(r) \subseteq WasUp(r)
           /\ HttpStatus(report'[r]) = 503 => MustBeUp(r) \cap WasDown(r) # {}
           /\ report'[r] = "healthy" => AskedBy(asked[r]) \subseteq WasUp(r)
  <1> DEFINE outcomes == ToSet(result[r])
  <1>1. report'[r] = Aggregate(outcomes)
    BY DEF Report, IInv, TypeOK
  <1>2. DOMAIN result[r] = DOMAIN asked[r]
    BY DEF IInv, TypeOK
  <1>3. PICK n \in Nat : DOMAIN asked[r] = 1..n
    <2>1. asked[r] \in Seq(Checks)
      BY DEF IInv, TypeOK
    <2> QED
      BY <2>1
  <1>4. ASSUME NEW i \in 1..n
        PROVE  /\ result[r][i] \in {"healthy", FailureOf(asked[r][i])}
               /\ result[r][i] \in outcomes
               /\ result[r][i] = "healthy" => AsksFor(r, i) \subseteq WasUp(r)
               /\ result[r][i] = FailureOf(asked[r][i]) =>
                     AsksFor(r, i) \cap WasDown(r) # {}
    <2>1. result[r][i] # "pending"
      BY <1>3 DEF Report, Settled
    <2>2. result[r][i] \in {"pending", "healthy", FailureOf(asked[r][i])}
      BY <1>3 DEF IInv, TypeOK
    <2>3. result[r][i] \in outcomes
      BY <1>2, <1>3 DEF ToSet
    <2> QED
      BY <1>3, <2>1, <2>2, <2>3 DEF IInv, ProbesAreTrue
  <1>5. \A x \in outcomes : \E i \in 1..n : x = result[r][i]
    BY <1>2, <1>3 DEF ToSet
  <1>6. ToSet(asked[r]) = {asked[r][i] : i \in 1..n}
    BY <1>3 DEF ToSet
  <1> HIDE DEF outcomes
  <1>7. HttpStatus(report'[r]) = 503 <=> "unhealthy" \in outcomes
    BY <1>1 DEF HttpStatus, Aggregate
  <1>8. HttpStatus(report'[r]) = 200 <=> "unhealthy" \notin outcomes
    BY <1>1 DEF HttpStatus, Aggregate
  <1>9. report'[r] = "healthy" <=> outcomes \cap {"unhealthy", "degraded"} = {}
    BY <1>1 DEF Aggregate
  <1>10. ASSUME "unhealthy" \notin outcomes
         PROVE  MustBeUp(r) \subseteq WasUp(r)
    <2> SUFFICES ASSUME NEW i \in 1..n, asked[r][i] \notin NonCritical
                 PROVE  ToSet(RequestsOf(asked[r][i])) \subseteq WasUp(r)
      BY <1>6 DEF MustBeUp
    <2>1. FailureOf(asked[r][i]) = "unhealthy"
      BY DEF FailureOf
    <2> QED
      BY <1>4, <1>10, <2>1 DEF AsksFor
  <1>11. ASSUME "unhealthy" \in outcomes
         PROVE  MustBeUp(r) \cap WasDown(r) # {}
    <2>1. PICK i \in 1..n : result[r][i] = "unhealthy"
      BY <1>5, <1>11
    <2>2. FailureOf(asked[r][i]) = "unhealthy" /\ asked[r][i] \notin NonCritical
      BY <1>4, <2>1 DEF FailureOf
    <2>3. AsksFor(r, i) \cap WasDown(r) # {}
      BY <1>4, <2>1, <2>2
    <2>4. AsksFor(r, i) \subseteq MustBeUp(r)
      BY <1>6, <2>2 DEF AsksFor, MustBeUp
    <2> QED
      BY <2>3, <2>4
  <1>12. ASSUME outcomes \cap {"unhealthy", "degraded"} = {}
         PROVE  AskedBy(asked[r]) \subseteq WasUp(r)
    <2> SUFFICES ASSUME NEW i \in 1..n
                 PROVE  ToSet(RequestsOf(asked[r][i])) \subseteq WasUp(r)
      BY <1>6 DEF AskedBy
    <2>1. FailureOf(asked[r][i]) \in {"unhealthy", "degraded"}
      BY DEF FailureOf
    <2> QED
      BY <1>4, <1>12, <2>1 DEF AsksFor
  <1> QED
    BY <1>7, <1>8, <1>9, <1>10, <1>11, <1>12

(* A load balancer may believe what it reads: 200 only if every service that *)
(* a critical check asks was up at a moment of that run, 503 only if one was *)
(* down, however many runs overlap (registry.ts:44-53).                      *)
THEOREM ReportsAreTrue == Spec => ReportIsTrue
  <1>1. ASSUME IInv, [Next]_vars
        PROVE  \A r \in Runs : Running(r) /\ report'[r] # "running" =>
                  /\ HttpStatus(report'[r]) = 200 => MustBeUp(r) \subseteq WasUp(r)
                  /\ HttpStatus(report'[r]) = 503 => MustBeUp(r) \cap WasDown(r) # {}
                  /\ report'[r] = "healthy" => AskedBy(asked[r]) \subseteq WasUp(r)
    <2>1. ASSUME NEW r \in Runs, Running(r), report'[r] # "running"
          PROVE  Report(r)
      <3>1. TypeOK
        BY <1>1 DEF IInv
      <3> QED
        BY <1>1, <2>1, <3>1, OnlyReportsEndRuns
    <2> QED
      BY <1>1, <2>1, ReportsOfARun
  <1> QED
    BY <1>1, ServerHealthInvariant, PTL DEF Spec, ReportIsTrue
-----------------------------------------------------------------------------
(* What nobody set                                                           *)

LEMMA ProfilesAreOfKeys ==
    ASSUME NEW env
    PROVE  DOMAIN Profile(ResolveEnvironment(env)) \subseteq Keys
  <1>1. ResolveEnvironment(env) \in {"development", "test", "staging", "production"}
    BY DEF ResolveEnvironment
  <1>2. \A e \in {"development", "test", "staging", "production"} :
           DOMAIN Profile(e) \subseteq
              {"DATABASE_POOL_MAX", "DATABASE_LOG_QUERIES", "BACKUP_ENABLED",
               "OTEL_TRACES_ENABLED", "OTEL_METRICS_ENABLED"}
    BY DEF Profile, Telemetry, Over
  <1>3. {"DATABASE_POOL_MAX", "DATABASE_LOG_QUERIES", "BACKUP_ENABLED",
         "OTEL_TRACES_ENABLED", "OTEL_METRICS_ENABLED"} \subseteq Keys
    BY DEF Keys, PositiveKeys, FlagKeys
  <1> QED
    BY <1>1, <1>2, <1>3

(* Only loadConfig brings a process up.                                      *)
LEMMA OnlyBootComesUp ==
    ASSUME [Next]_vars, boot = "off", boot' = "up"
    PROVE  config' = Loaded(processEnv)
  <1>1. ~UNCHANGED vars
    BY DEF vars, registryVars
  <1>2. \A added \in BoundedSeq(Checks, MaxChecks) : ~Register(added)
    BY DEF Register
  <1>3. \A r \in Runs : ~Run(r) /\ ~RunStep(r)
    BY DEF Run, RunStep, Report, Answered, registryVars
  <1>4. \A s \in Services, does \in {"up", "down", "hung"} : ~Change(s, does)
    BY DEF Change, registryVars
  <1>5. Boot
    BY <1>1, <1>2, <1>3, <1>4 DEF Next
  <1> QED
    BY <1>5 DEF Boot

(* An empty variable, as an env file leaves it, neither turns off the        *)
(* backups of production nor anything else that a profile sets               *)
(* (config.ts:116, env-provider.ts:23).                                      *)
THEOREM ProfilesAreKept == Spec => ProfileIsKept
  <1>1. ASSUME [Next]_vars, boot = "off", boot' = "up"
        PROVE  LET profile == Profile(ResolveEnvironment(processEnv)) IN
               \A key \in DOMAIN profile \ Told :
                  config'.setting[key] = Parsed(key, profile[key])
    <2> DEFINE profile == Profile(ResolveEnvironment(processEnv))
    <2> SUFFICES ASSUME NEW key \in DOMAIN profile \ Told
                 PROVE  config'.setting[key] = Parsed(key, profile[key])
      OBVIOUS
    <2>1. key \in Keys
      BY ProfilesAreOfKeys
    <2>2. Secret(processEnv, key) = Unset
      BY <2>1 DEF Told, Secret
    <2>3. key \notin DOMAIN Explicit(processEnv)
      BY <2>2 DEF Explicit
    <2>4. Source(processEnv)[key] = profile[key]
      <3> HIDE DEF profile
      <3>1. Source(processEnv) = Over(Explicit(processEnv), Over(profile, Absent))
        BY DEF Source, profile
      <3> QED
        BY <2>3, <3>1 DEF Over
    <2>5. config'.setting = [k \in Keys |-> Parsed(k, Source(processEnv)[k])]
      <3>1. config' = Loaded(processEnv)
        BY <1>1, OnlyBootComesUp
      <3> QED
        BY <3>1 DEF Loaded
    <2> HIDE DEF profile
    <2> QED
      BY <2>1, <2>4, <2>5
  <1> QED
    BY <1>1, PTL DEF Spec, ProfileIsKept
=============================================================================

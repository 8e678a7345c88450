--------------------------- MODULE ContainerProofs ---------------------------
(***************************************************************************)
(* Proofs about Container, for any number of scopes, tokens, registrations *)
(* and instances and for any depth of the stack.                           *)
(***************************************************************************)
EXTENDS Container, TLAPS

USE ContainerAssumption

-----------------------------------------------------------------------------
(* What a step leaves as it was                                             *)

(* Containers, registrations and instances that exist do not change.        *)
Grows ==
    /\ \A c \in Containers : Exists(c) => above'[c] = above[c]
    /\ \A r \in Registrations : Made(r) => kind'[r] = kind[r] /\ home'[r] = home[r]
    /\ \A i \in Instances : Built(i) => origin'[i] = origin[i]

(* What a container can see it goes on seeing.                              *)
LEMMA SightStays ==
    ASSUME TypeOK, RegistrationsAreMade, Grows,
           NEW c \in Containers, NEW i \in Instances, SeenFrom(c, i)
    PROVE  SeenFrom(c, i)'
  <1>1. Exists(c) /\ Built(i) /\ origin[i] \in Registrations /\ Made(origin[i])
    BY DEF SeenFrom, Exists, Built, TypeOK, RegistrationsAreMade
  <1>2. above'[c] = above[c] /\ origin'[i] = origin[i] /\ home'[origin[i]] = home[origin[i]]
    BY <1>1 DEF Grows
  <1> QED
    BY <1>1, <1>2 DEF SeenFrom, Built

(* A container sees what a container above it sees.                         *)
LEMMA SightFromAbove ==
    ASSUME ScopesAreATree,
           NEW c \in Containers, NEW d \in above[c], NEW i, SeenFrom(d, i)
    PROVE  SeenFrom(c, i)
  BY DEF ScopesAreATree, SeenFrom

(* So does the container of a registration.                                 *)
LEMMA SightOfHomeStays ==
    ASSUME TypeOK, RegistrationsAreMade, Grows,
           NEW r \in Registrations, Made(r),
           NEW i \in Instances, SeenFrom(home[r], i)
    PROVE  SeenFrom(home[r], i)'
  <1>1. home[r] \in Containers /\ home'[r] = home[r]
    BY DEF TypeOK, Grows
  <1>2. \A c \in Containers : SeenFrom(c, i) => SeenFrom(c, i)'
    BY SightStays
  <1>3. Built(i)' /\ home'[origin'[i]] \in above'[home[r]]
    BY <1>1, <1>2 DEF SeenFrom
  <1> QED
    BY <1>1, <1>3 DEF SeenFrom

-----------------------------------------------------------------------------
(* Scopes and registrations                                                 *)

(* A step of the registry keeps the invariant when the tree of scopes stays *)
(* one, new registrations are made in a container that exists, and only a   *)
(* new value brings an instance of its own.                                 *)
LEMMA RegistryStepKeepsInvariant ==
    ASSUME IInv, TypeOK', ScopesAreATree', Grows,
           UNCHANGED <<stack, parts, given, reentered>>,
           \A r \in Registrations : Made(r)' => Exists(home[r])',
           \A i \in Instances : Built(i)' => Built(i) \/ Made(origin[i])',
           \A r \in Registrations : memo'[r] = memo[r] \/
                /\ ~Made(r)
                /\ kind'[r] = "value"
                /\ SeenFrom(home[r], memo[r])'
    PROVE  IInv'
  <1> USE DEF IInv
  <1>1. /\ \A r \in Registrations : Made(r) => Made(r)' /\ kind'[r] = kind[r] /\ home'[r] = home[r]
        /\ \A r \in Registrations : Made(r) => memo'[r] = memo[r]
        /\ \A r \in Registrations : ~Made(r) => given[r] = {} /\ memo[r] = Absent
        /\ \A r \in Registrations : memo[r] # Absent => memo[r] \in Instances
    BY DEF Grows, Made, RegistrationsAreMade, TypeOK
  <1>2. \A i \in Instances : Built(i) => /\ Built(i)' /\ origin'[i] = origin[i]
                                         /\ origin[i] \in Registrations /\ Made(origin[i])
    BY DEF Grows, Built, RegistrationsAreMade, TypeOK
  <1>3. RegistrationsAreMade'
    <2>1. \A r \in Registrations : ~Made(r)' => given'[r] = {}
      BY <1>1
    <2>2. \A i \in Instances : Built(i)' => Made(origin[i])'
      BY <1>1, <1>2 DEF Made
    <2>3. \A i \in Instances : ~Built(i)' => parts'[i] = {}
      BY <1>2 DEF RegistrationsAreMade
    <2> QED
      BY <2>1, <2>2, <2>3 DEF RegistrationsAreMade
  <1>4. KeptIsSeen'
    <2> SUFFICES ASSUME NEW r \in Registrations, memo'[r] # Absent
                 PROVE  SeenFrom(home[r], memo[r])'
      BY DEF KeptIsSeen
    <2>1. CASE memo'[r] = memo[r]
      <3>1. Made(r) /\ memo[r] \in Instances /\ SeenFrom(home[r], memo[r])
        BY <1>1, <2>1 DEF KeptIsSeen
      <3>2. \A i \in Instances : SeenFrom(home[r], i) => SeenFrom(home[r], i)'
        BY <3>1, SightOfHomeStays
      <3> QED
        BY <2>1, <3>1, <3>2 DEF SeenFrom, Built
    <2> QED
      BY <2>1
  <1>5. FramesAreNested'
    <2>1. ASSUME NEW k \in DOMAIN stack
          PROVE  /\ stack[k].registration \in Registrations /\ Made(stack[k].registration)
                 /\ stack[k].container \in Containers /\ Exists(stack[k].container)
                 /\ stack[k].got \subseteq Instances
      <3>1. stack[k] \in Frame
        BY DEF TypeOK
      <3>2. Made(stack[k].registration) /\ stack[k].container = home[stack[k].registration]
        BY DEF FramesAreNested, Made
      <3> QED
        BY <3>1, <3>2 DEF Frame, RegistrationsAreMade
    <2>2. ASSUME NEW k \in DOMAIN stack
          PROVE  /\ kind'[stack[k].registration] \in {"singleton", "transient"}
                 /\ stack[k].container = home'[stack[k].registration]
      BY <1>1, <2>1 DEF FramesAreNested
    <2>3. ASSUME NEW k \in DOMAIN stack, k > 1
          PROVE  stack[k].container \in above'[stack[k - 1].container]
      <3>1. k - 1 \in DOMAIN stack
        BY <2>3 DEF TypeOK
      <3>2. above'[stack[k - 1].container] = above[stack[k - 1].container]
        BY <2>1, <3>1 DEF Grows
      <3> QED
        BY <2>3, <3>2 DEF FramesAreNested
    <2>4. ASSUME NEW k \in DOMAIN stack, NEW i \in stack[k].got
          PROVE  SeenFrom(stack[k].container, i)'
      <3>1. /\ SeenFrom(stack[k].container, i) /\ i \in Instances
            /\ Made(stack[k].registration) /\ stack[k].registration \in Registrations
            /\ stack[k].container = home[stack[k].registration]
        BY <2>1 DEF FramesAreNested
      <3>2. SeenFrom(home[stack[k].registration], i)
        BY <3>1 DEF SeenFrom
      <3>3. SeenFrom(stack[k].container, i)' <=> SeenFrom(home[stack[k].registration], i)'
        BY <2>2 DEF SeenFrom
      <3>4. \A r \in Registrations : r = stack[k].registration => SeenFrom(home[r], i)'
        BY <3>1, <3>2, SightOfHomeStays DEF SeenFrom
      <3> QED
        BY <2>2, <3>1, <3>4 DEF SeenFrom
    <2> QED
      BY <2>2, <2>3, <2>4 DEF FramesAreNested
  <1>6. RunsOnce'
    <2>1. \A k \in DOMAIN stack : Made(stack[k].registration) /\ stack[k].registration \in Registrations
      <3>1. \A k \in DOMAIN stack : stack[k] \in Frame
        BY DEF TypeOK
      <3> QED
        BY <3>1 DEF FramesAreNested, Made, Frame
    <2> QED
      BY <1>1, <2>1 DEF RunsOnce, Running
  <1>7. NoCaptiveDependency'
    <2>1. ASSUME NEW r \in Registrations, NEW i \in given[r]
          PROVE  SeenFrom(home[r], i)'
      <3>1. Made(r) /\ i \in Instances /\ SeenFrom(home[r], i)
        BY <1>1, <2>1 DEF NoCaptiveDependency, TypeOK
      <3> QED
        BY <3>1, SightOfHomeStays
    <2>2. ASSUME NEW i \in Instances, NEW part \in parts[i]
          PROVE  SeenFrom(home[origin[i]], part)'
      <3>1. /\ Built(i) /\ part \in Instances /\ SeenFrom(home[origin[i]], part)
            /\ origin[i] \in Registrations /\ Made(origin[i]) /\ origin'[i] = origin[i]
        BY <1>2, <2>2 DEF NoCaptiveDependency, TypeOK, RegistrationsAreMade
      <3>2. \A r \in Registrations : r = origin[i] => SeenFrom(home[r], part)'
        BY <3>1, SightOfHomeStays DEF SeenFrom
      <3> QED
        BY <3>1, <3>2 DEF SeenFrom, Built
    <2> QED
      BY <2>1, <2>2 DEF NoCaptiveDependency
  <1>8. SingletonIsWhatItGave'
    <2> SUFFICES ASSUME NEW r \in Registrations, kind'[r] = "singleton", r \notin reentered
                 PROVE  given[r] = (IF memo'[r] = Absent THEN {} ELSE {memo'[r]})
      BY DEF SingletonIsWhatItGave
    <2>1. CASE Made(r)
      BY <1>1, <2>1 DEF SingletonIsWhatItGave
    <2>2. CASE ~Made(r)
      BY <1>1, <2>2
    <2> QED
      BY <2>1, <2>2
  <1> QED
    BY <1>3, <1>4, <1>5, <1>6, <1>7, <1>8

LEMMA CreateScopeKeepsInvariant ==
    ASSUME IInv, NEW c \in Containers, NEW scope \in Containers, CreateScope(c, scope)
    PROVE  IInv'
  <1> USE DEF CreateScope, history
  <1>1. TypeOK'
    BY DEF IInv, TypeOK, Made
  <1>2. Grows
    BY DEF IInv, TypeOK, Grows, Made, Built, Exists
  <1>3. ScopesAreATree'
    BY DEF IInv, TypeOK, ScopesAreATree, Exists
  <1>4. \A r \in Registrations : Made(r)' => Exists(home[r])'
    BY <1>2 DEF IInv, TypeOK, RegistrationsAreMade, Grows, Made, Exists
  <1> QED
    BY <1>1, <1>2, <1>3, <1>4, RegistryStepKeepsInvariant DEF Built

(* The registration r of the given kind was added to c.                     *)
Added(c, r, as) ==
    /\ table' \in [Containers -> [Tokens -> Registrations \cup {Absent}]]
    /\ kind' \in [Registrations -> {"value", "singleton", "transient", Absent}]
    /\ home' \in [Registrations -> Containers \cup {Absent}]
    /\ kind'[r] = as /\ home'[r] = c
    /\ \A other \in Registrations \ {r} :
          kind'[other] = kind[other] /\ home'[other] = home[other]
    /\ \A d \in Containers, u \in Tokens : table'[d][u] # Absent =>
          Made(table[d][u])' /\ home'[table'[d][u]] = d
    /\ \A other \in Registrations : Made(other)' =>
          home'[other] \in Containers /\ Exists(home[other])'
    /\ ScopesAreATree'

(* What both kinds of registration have in common.                          *)
LEMMA RegistrationIsAdded ==
    ASSUME IInv, NEW c \in Containers, NEW t \in Tokens, NEW r \in Registrations,
           NEW as \in {"value", "singleton", "transient"}, AddRegistration(c, t, r, as)
    PROVE  Added(c, r, as)
  <1>1. /\ table' = [table EXCEPT ![c][t] = r]
        /\ kind' = [kind EXCEPT ![r] = as]
        /\ home' = [home EXCEPT ![r] = c]
        /\ above' = above /\ Exists(c) /\ ~Made(r)
    BY DEF AddRegistration
  <1>2. /\ table' \in [Containers -> [Tokens -> Registrations \cup {Absent}]]
        /\ kind' \in [Registrations -> {"value", "singleton", "transient", Absent}]
        /\ home' \in [Registrations -> Containers \cup {Absent}]
        /\ kind'[r] = as /\ home'[r] = c
        /\ \A other \in Registrations \ {r} :
              kind'[other] = kind[other] /\ home'[other] = home[other]
    BY <1>1 DEF IInv, TypeOK
  <1>3. ASSUME NEW d \in Containers, NEW u \in Tokens, table'[d][u] # Absent
        PROVE  Made(table[d][u])' /\ home'[table'[d][u]] = d
    <2>1. CASE d = c /\ u = t
      <3>1. table'[d][u] = r
        BY <1>1, <2>1 DEF IInv, TypeOK
      <3> QED
        BY <1>2, <2>1, <3>1 DEF Made
    <2>2. CASE ~(d = c /\ u = t)
      <3>1. table'[d][u] = table[d][u] /\ table[d][u] \in Registrations
        BY <1>1, <1>3, <2>2 DEF IInv, TypeOK
      <3>2. Made(table[d][u]) /\ home[table[d][u]] = d
        BY <1>3, <3>1 DEF IInv, TypeOK
      <3>3. table[d][u] # r
        BY <1>1, <3>2
      <3> QED
        BY <1>2, <3>1, <3>2, <3>3 DEF Made
    <2> QED
      BY <2>1, <2>2
  <1>4. \A other \in Registrations : Made(other)' =>
            home'[other] \in Containers /\ Exists(home[other])'
    <2>1. ASSUME NEW other \in Registrations \ {r}, Made(other)'
          PROVE  home'[other] \in Containers /\ Exists(home[other])'
      <3>1. Made(other) /\ home'[other] = home[other]
        BY <1>2, <2>1 DEF Made
      <3>2. home[other] \in Containers /\ Exists(home[other])
        BY <3>1 DEF IInv, TypeOK, RegistrationsAreMade
      <3> QED
        BY <1>1, <3>1, <3>2 DEF Exists
    <2>2. home'[r] \in Containers /\ Exists(home[r])'
      BY <1>1, <1>2 DEF Exists
    <2> QED
      BY <2>1, <2>2
  <1>5. ScopesAreATree'
    BY <1>1 DEF IInv, ScopesAreATree, Exists
  <1> QED
    BY <1>2, <1>3, <1>4, <1>5 DEF Added

LEMMA RegisterFactoryKeepsInvariant ==
    ASSUME IInv, NEW c \in Containers, NEW t \in Tokens, NEW r \in Registrations,
           NEW as \in {"singleton", "transient"}, RegisterFactory(c, t, r, as)
    PROVE  IInv'
  <1>1. /\ AddRegistration(c, t, r, as) /\ ~Made(r)
        /\ UNCHANGED <<above, memo, stack, origin, parts, given, reentered>>
    BY DEF RegisterFactory, AddRegistration
  <1>a. Added(c, r, as)
    BY <1>1, RegistrationIsAdded
  <1>2. Grows
    BY <1>1, <1>a DEF Added, Grows, Made
  <1>3. TypeOK'
    <2>1. \A other \in Registrations :
             /\ kind'[other] \in {"transient", Absent} => memo'[other] = Absent
             /\ kind'[other] = "value" => memo'[other] # Absent
      BY <1>1, <1>a DEF Added, IInv, TypeOK, Made
    <2>2. stack \in Seq(Frame) /\ Len(stack) <= MaxDepth
      BY DEF IInv, TypeOK
    <2> QED
      BY <1>1, <2>1, <2>2, <1>a DEF Added, IInv, TypeOK
  <1> QED
    BY <1>1, <1>2, <1>3, <1>a, RegistryStepKeepsInvariant DEF Added, Built

LEMMA RegisterValueKeepsInvariant ==
    ASSUME IInv, NEW c \in Containers, NEW t \in Tokens, NEW r \in Registrations,
           NEW i \in Instances, RegisterValue(c, t, r, i)
    PROVE  IInv'
  <1>1. /\ AddRegistration(c, t, r, "value") /\ ~Made(r) /\ ~Built(i) /\ Exists(c)
        /\ memo' = [memo EXCEPT ![r] = i]
        /\ origin' = [origin EXCEPT ![i] = r]
        /\ UNCHANGED <<above, stack, parts, given, reentered>>
    BY DEF RegisterValue, AddRegistration
  <1>a. Added(c, r, "value")
    BY <1>1, RegistrationIsAdded
  <1>2. /\ memo' \in [Registrations -> Instances \cup {Absent}] /\ memo'[r] = i
        /\ \A other \in Registrations \ {r} : memo'[other] = memo[other]
        /\ origin' \in [Instances -> Registrations \cup {Absent}] /\ origin'[i] = r
        /\ \A j \in Instances \ {i} : origin'[j] = origin[j]
    BY <1>1 DEF IInv, TypeOK
  <1>3. Grows
    BY <1>1, <1>2, <1>a DEF Added, Grows, Made, Built
  <1>4. TypeOK'
    <2>1. \A other \in Registrations :
             /\ kind'[other] \in {"transient", Absent} => memo'[other] = Absent
             /\ kind'[other] = "value" => memo'[other] # Absent
      BY <1>1, <1>2, <1>a DEF Added, IInv, TypeOK, Made
    <2>2. stack \in Seq(Frame) /\ Len(stack) <= MaxDepth
      BY DEF IInv, TypeOK
    <2> QED
      BY <1>1, <1>2, <2>1, <2>2, <1>a DEF Added, IInv, TypeOK
  <1>5. SeenFrom(home[r], i)'
    BY <1>1, <1>2, <1>a DEF Added, SeenFrom, Built, IInv, ScopesAreATree
  <1>6. \A j \in Instances : Built(j)' => Built(j) \/ Made(origin[j])'
    BY <1>1, <1>2, <1>a DEF Added, Built, Made
  <1>7. SeenFrom(home[r], memo[r])'
    BY <1>2, <1>5 DEF SeenFrom, Built
  <1> QED
    BY <1>1, <1>2, <1>3, <1>4, <1>6, <1>7, <1>a, RegistryStepKeepsInvariant DEF Added

-----------------------------------------------------------------------------
(* Calls of factories                                                       *)

(* What resolve finds: a registration of a container above the one asked.   *)
LEMMA AnswersFromAbove ==
    ASSUME IInv, NEW c \in Containers, NEW d \in Containers, NEW t \in Tokens,
           Answers(d, c, t)
    PROVE  /\ d \in above[c]
           /\ table[d][t] \in Registrations
           /\ Made(table[d][t])
           /\ home[table[d][t]] = d
  BY DEF IInv, TypeOK, Answers, Knowing

LEMMA FramesAreTyped ==
    ASSUME IInv, NEW k \in DOMAIN stack
    PROVE  /\ stack[k] \in Frame
           /\ stack[k].registration \in Registrations /\ Made(stack[k].registration)
           /\ stack[k].container \in Containers
           /\ stack[k].container = home[stack[k].registration]
           /\ stack[k].got \subseteq Instances
  <1>1. stack[k] \in Frame
    BY DEF IInv, TypeOK
  <1> QED
    BY <1>1 DEF IInv, FramesAreNested, Frame, Made

(* Only the caller receives.                                                *)
LEMMA ReceiveIsLocal ==
    ASSUME NEW frames \in Seq(Frame), NEW i \in Instances
    PROVE  /\ Receive(frames, i) \in Seq(Frame)
           /\ Len(Receive(frames, i)) = Len(frames)
           /\ \A k \in 1..Len(frames) :
                 /\ Receive(frames, i)[k].registration = frames[k].registration
                 /\ Receive(frames, i)[k].container = frames[k].container
                 /\ Receive(frames, i)[k].got \subseteq frames[k].got \cup {i}
                 /\ k # Len(frames) => Receive(frames, i)[k].got = frames[k].got
  <1>1. CASE frames = <<>>
    BY <1>1 DEF Receive
  <1>2. CASE frames # <<>>
    <2> DEFINE n == Len(frames)
               f == [frames[n] EXCEPT !.got = @ \cup {i}]
    <2>1. n \in 1..n /\ frames[n] \in Frame /\ DOMAIN frames = 1..n
      BY <1>2
    <2>2. /\ f \in Frame /\ f.registration = frames[n].registration
          /\ f.container = frames[n].container /\ f.got = frames[n].got \cup {i}
      BY <2>1 DEF Frame
    <2>3. Receive(frames, i) = [frames EXCEPT ![n] = f]
      BY <1>2 DEF Receive
    <2> HIDE DEF f
    <2> QED
      BY <2>1, <2>2, <2>3
  <1> QED
    BY <1>1, <1>2

(* When calls return or throw to the n-th frame, which receives an instance *)
(* that its container sees or nothing, the frames stay nested.              *)
LEMMA ShorterStackIsNested ==
    ASSUME IInv, Grows, UNCHANGED registry,
           NEW n \in 0..Len(stack), NEW i \in Instances,
           stack' \in Seq(Frame), Len(stack') = n,
           \A k \in 1..n :
              /\ stack'[k].registration = stack[k].registration
              /\ stack'[k].container = stack[k].container
              /\ stack'[k].got \subseteq stack[k].got \cup {i}
              /\ SeenFrom(stack[k].container, i)' \/ stack'[k].got = stack[k].got
    PROVE  FramesAreNested'
  <1>1. DOMAIN stack' = 1..n /\ 1..n \subseteq DOMAIN stack
    BY DEF IInv, TypeOK
  <1>2. ASSUME NEW k \in 1..n
        PROVE  /\ kind[stack'[k].registration] \in {"singleton", "transient"}
               /\ stack'[k].container = home[stack'[k].registration]
    BY <1>1 DEF IInv, FramesAreNested
  <1>3. ASSUME NEW k \in 1..n, k > 1
        PROVE  stack'[k].container \in above[stack'[k - 1].container]
    <2>1. k - 1 \in 1..n
      BY <1>3
    <2> QED
      BY <1>1, <1>3, <2>1 DEF IInv, FramesAreNested
  <1>4. ASSUME NEW k \in 1..n, NEW j \in stack'[k].got
        PROVE  SeenFrom(stack[k].container, j)'
    <2>1. k \in DOMAIN stack /\ stack[k].container \in Containers /\ stack[k].got \subseteq Instances
      BY <1>1, FramesAreTyped
    <2>2. CASE j \in stack[k].got
      <3>1. SeenFrom(stack[k].container, j) /\ j \in Instances
        BY <2>1, <2>2 DEF IInv, FramesAreNested
      <3>2. \A c \in Containers : SeenFrom(c, j) => SeenFrom(c, j)'
        BY <3>1, SightStays DEF IInv
      <3>3. Built(j)' /\ home'[origin'[j]] \in above'[stack[k].container]
        BY <2>1, <3>1, <3>2 DEF SeenFrom
      <3> QED
        BY <3>3 DEF SeenFrom
    <2>3. CASE j = i /\ j \notin stack[k].got
      BY <1>4, <2>3 DEF SeenFrom, Built
    <2> QED
      BY <1>4, <2>2, <2>3
  <1> QED
    BY <1>1, <1>2, <1>3, <1>4 DEF FramesAreNested, registry

LEMMA ResolveKeptKeepsInvariant ==
    ASSUME IInv, NEW c \in Containers, NEW t \in Tokens, ResolveKept(c, t)
    PROVE  IInv'
  <1>1. PICK d \in Containers :
            /\ Answers(d, c, t)
            /\ memo[table[d][t]] # Absent
            /\ stack' = Receive(stack, memo[table[d][t]])
            /\ Give(table[d][t], memo[table[d][t]])
    BY DEF ResolveKept
  <1>2. /\ UNCHANGED <<registry, memo, origin, parts, reentered>>
        /\ UNCHANGED <<above, table, kind, home>>
        /\ MayUse(c)
    BY DEF ResolveKept, registry
  <1>3. PICK r \in Registrations, i \in Instances :
            /\ memo[r] = i
            /\ d \in above[c] /\ Made(r) /\ home[r] = d /\ SeenFrom(d, i)
            /\ stack' = Receive(stack, i)
            /\ given' = [given EXCEPT ![r] = @ \cup {i}]
    <2>1. /\ d \in above[c] /\ table[d][t] \in Registrations
          /\ Made(table[d][t]) /\ home[table[d][t]] = d
      BY <1>1, AnswersFromAbove
    <2>2. memo[table[d][t]] \in Instances /\ SeenFrom(d, memo[table[d][t]])
      BY <1>1, <2>1 DEF IInv, TypeOK, KeptIsSeen
    <2> QED
      BY <1>1, <2>1, <2>2 DEF Give
  <1>4. Grows
    BY <1>2 DEF Grows
  <1>5. given' \in [Registrations -> SUBSET Instances]
    BY <1>3 DEF IInv, TypeOK
  <1>6. /\ stack' \in Seq(Frame) /\ Len(stack') = Len(stack)
        /\ \A k \in 1..Len(stack) :
              /\ stack'[k].registration = stack[k].registration
              /\ stack'[k].container = stack[k].container
              /\ stack'[k].got \subseteq stack[k].got \cup {i}
              /\ k # Len(stack) => stack'[k].got = stack[k].got
    BY <1>1, <1>3, ReceiveIsLocal DEF IInv, TypeOK
  <1>7. SeenFrom(c, i)
    BY <1>3, SightFromAbove DEF IInv
  <1>8. \A k \in 1..Len(stack) :
            SeenFrom(stack[k].container, i)' \/ stack'[k].got = stack[k].got
    <2> SUFFICES ASSUME NEW k \in 1..Len(stack), k = Len(stack)
                 PROVE  SeenFrom(stack[k].container, i)'
      BY <1>6
    <2>1. stack[k].container = c
      BY <1>2 DEF MayUse, Top, IInv, TypeOK
    <2> QED
      BY <1>2, <1>6, <1>7, <2>1 DEF SeenFrom, Built
  <1>9. FramesAreNested'
    <2>1. Len(stack) \in 0..Len(stack)
      BY DEF IInv, TypeOK
    <2> QED
      BY <1>2, <1>3, <1>4, <1>6, <1>8, <2>1, ShorterStackIsNested
  <1>10. TypeOK'
    BY <1>2, <1>5, <1>6 DEF IInv, TypeOK, Made
  <1>11. ScopesAreATree' /\ RegistrationsAreMade' /\ KeptIsSeen'
    BY <1>2, <1>3 DEF IInv, TypeOK, ScopesAreATree, RegistrationsAreMade, KeptIsSeen,
                      Exists, Made, Built, SeenFrom
  <1>12. RunsOnce'
    <2>1. DOMAIN stack' = DOMAIN stack /\ DOMAIN stack = 1..Len(stack)
      BY <1>6 DEF IInv, TypeOK
    <2>2. \A k \in DOMAIN stack : stack'[k].registration = stack[k].registration
      BY <1>6, <2>1
    <2>3. \A s \in Registrations : Running(s)' <=> Running(s)
      BY <2>1, <2>2 DEF Running
    <2> QED
      BY <1>2, <2>1, <2>2, <2>3 DEF IInv, RunsOnce
  <1>13. NoCaptiveDependency'
    <2>1. \A s \in Registrations : given'[s] = IF s = r THEN given[s] \cup {i} ELSE given[s]
      BY <1>3 DEF IInv, TypeOK
    <2> QED
      BY <1>2, <1>3, <2>1 DEF IInv, NoCaptiveDependency, SeenFrom, Built
  <1>14. SingletonIsWhatItGave'
    <2>1. \A s \in Registrations : given'[s] = IF s = r THEN given[s] \cup {i} ELSE given[s]
      BY <1>3 DEF IInv, TypeOK
    <2> QED
      BY <1>1, <1>2, <1>3, <2>1 DEF IInv, SingletonIsWhatItGave
  <1> QED
    BY <1>9, <1>10, <1>11, <1>12, <1>13, <1>14 DEF IInv

LEMMA CallFactoryKeepsInvariant ==
    ASSUME IInv, NEW c \in Containers, NEW t \in Tokens, CallFactory(c, t)
    PROVE  IInv'
  <1>1. PICK d \in Containers :
            /\ Answers(d, c, t)
            /\ memo[table[d][t]] = Absent
            /\ stack' = Append(stack, [registration |-> table[d][t], container |-> d, got |-> {}])
            /\ reentered' = reentered \cup {r \in {table[d][t]} : Running(r)}
    BY DEF CallFactory
  <1> DEFINE r == table[d][t]
             f == [registration |-> r, container |-> d, got |-> {}]
  <1>2. /\ UNCHANGED <<above, table, kind, home, memo, origin, parts, given>>
        /\ MayUse(c) /\ Len(stack) < MaxDepth
    BY DEF CallFactory, registry
  <1>3. /\ d \in above[c] /\ r \in Registrations /\ Made(r) /\ home[r] = d
        /\ kind[r] \in {"singleton", "transient"}
    BY <1>1, AnswersFromAbove DEF IInv, TypeOK, Made
  <1>4. /\ stack \in Seq(Frame) /\ f \in Frame
        /\ stack' \in Seq(Frame)
        /\ Len(stack') = Len(stack) + 1
        /\ DOMAIN stack = 1..Len(stack) /\ DOMAIN stack' = 1..(Len(stack) + 1)
        /\ \A k \in 1..Len(stack) : stack'[k] = stack[k]
        /\ stack'[Len(stack) + 1] = f
        /\ Len(stack) \in Nat
    <2>1. stack \in Seq(Frame) /\ f \in Frame
      BY <1>3 DEF IInv, TypeOK, Frame
    <2> HIDE DEF f
    <2> QED
      BY <1>1, <2>1 DEF f
  <1>5. TypeOK'
    <2>1. reentered' \subseteq Registrations
      BY <1>1, <1>3 DEF IInv, TypeOK
    <2>2. Len(stack') <= MaxDepth
      BY <1>2, <1>4
    <2> QED
      BY <1>2, <1>4, <2>1, <2>2 DEF IInv, TypeOK, Made
  <1>6. /\ ScopesAreATree' /\ RegistrationsAreMade' /\ KeptIsSeen'
        /\ NoCaptiveDependency' /\ SingletonIsWhatItGave'
    BY <1>1, <1>2 DEF IInv, ScopesAreATree, RegistrationsAreMade, KeptIsSeen, NoCaptiveDependency,
                      SingletonIsWhatItGave, Exists, Made, Built, SeenFrom
  <1>7. FramesAreNested'
    <2>1. ASSUME NEW k \in 1..Len(stack)
          PROVE  /\ kind'[stack'[k].registration] \in {"singleton", "transient"}
                 /\ stack'[k].container = home'[stack'[k].registration]
                 /\ k > 1 => stack'[k].container \in above'[stack'[k - 1].container]
                 /\ \A i \in stack'[k].got : SeenFrom(stack[k].container, i)'
      <3>1. k > 1 => k - 1 \in 1..Len(stack)
        OBVIOUS
      <3> QED
        BY <1>2, <1>4, <3>1 DEF IInv, FramesAreNested, SeenFrom, Built
    <2>2. Len(stack) # 0 => stack[Len(stack)].container = c
      BY <1>2, <1>4 DEF MayUse, Top
    <2> QED
      BY <1>2, <1>3, <1>4, <2>1, <2>2 DEF FramesAreNested
  <1>8. RunsOnce'
    <2> SUFFICES ASSUME NEW s \in Registrations \ reentered'
                 PROVE  /\ \A j, k \in DOMAIN stack' :
                              stack'[j].registration = s /\ stack'[k].registration = s => j = k
                        /\ kind[s] = "singleton" /\ Running(s)' => memo[s] = Absent
      BY <1>2 DEF RunsOnce
    <2>1. s \notin reentered /\ (s = r => ~Running(s))
      BY <1>1
    <2>2. CASE s = r
      BY <1>1, <1>4, <2>1, <2>2 DEF Running
    <2>3. CASE s # r
      BY <1>4, <2>1, <2>3 DEF IInv, RunsOnce, Running
    <2> QED
      BY <2>2, <2>3
  <1> QED
    BY <1>5, <1>6, <1>7, <1>8 DEF IInv

(* The frames below the innermost one.                                      *)
LEMMA RestOfStack ==
    ASSUME IInv, stack # <<>>
    PROVE  /\ Len(stack) \in DOMAIN stack
           /\ Len(stack) - 1 \in 0..Len(stack)
           /\ DOMAIN stack = 1..Len(stack)
           /\ Rest \in Seq(Frame)
           /\ Len(Rest) = Len(stack) - 1
           /\ \A k \in 1..(Len(stack) - 1) : Rest[k] = stack[k]
  <1>1. stack \in Seq(Frame)
    BY DEF IInv, TypeOK
  <1>2. PICK n \in Nat : Len(stack) = n + 1
    BY <1>1
  <1>3. /\ SubSeq(stack, 1, n) \in Seq(Frame)
        /\ Len(SubSeq(stack, 1, n)) = n
        /\ \A k \in 1..n : SubSeq(stack, 1, n)[k] = stack[k]
    BY <1>1, <1>2
  <1>4. Rest = SubSeq(stack, 1, n) /\ Len(stack) - 1 = n
    BY <1>2 DEF Rest
  <1> QED
    BY <1>1, <1>2, <1>3, <1>4

(* With fewer factories running, those that run still run once.             *)
LEMMA ShorterStackRunsOnce ==
    ASSUME IInv, UNCHANGED <<kind, reentered>>,
           DOMAIN stack' \subseteq DOMAIN stack,
           \A k \in DOMAIN stack' : stack'[k].registration = stack[k].registration,
           \A r \in Registrations \ reentered : memo'[r] = memo[r] \/ ~Running(r)'
    PROVE  RunsOnce'
  BY DEF IInv, RunsOnce, Running

LEMMA FactoryThrowsKeepsInvariant ==
    ASSUME IInv, FactoryThrows
    PROVE  IInv'
  <1>1. /\ UNCHANGED <<above, table, kind, home, memo, origin, parts, given, reentered>>
        /\ stack # <<>> /\ stack' = Rest
    BY DEF FactoryThrows, registry, history
  <1>2. /\ DOMAIN stack' = 1..(Len(stack) - 1) /\ DOMAIN stack = 1..Len(stack)
        /\ stack' \in Seq(Frame) /\ Len(stack') <= MaxDepth
        /\ \A k \in 1..(Len(stack) - 1) : stack'[k] = stack[k]
        /\ Len(stack) \in Nat
    <2>1. stack \in Seq(Frame) /\ Len(stack) <= MaxDepth
      BY DEF IInv, TypeOK
    <2> QED
      BY <1>1, <2>1, RestOfStack
  <1>3. TypeOK'
    BY <1>1, <1>2 DEF IInv, TypeOK, Made
  <1>4. /\ ScopesAreATree' /\ RegistrationsAreMade' /\ KeptIsSeen'
        /\ NoCaptiveDependency' /\ SingletonIsWhatItGave'
    BY <1>1 DEF IInv, ScopesAreATree, RegistrationsAreMade, KeptIsSeen, NoCaptiveDependency,
                SingletonIsWhatItGave, Exists, Made, Built, SeenFrom
  <1>5. FramesAreNested'
    BY <1>1, <1>2 DEF IInv, FramesAreNested, SeenFrom, Built
  <1>6. RunsOnce'
    BY <1>1, <1>2, ShorterStackRunsOnce
  <1> QED
    BY <1>3, <1>4, <1>5, <1>6 DEF IInv

LEMMA FactoryReturnsKeepsInvariant ==
    ASSUME IInv, NEW i \in Instances, FactoryReturns(i)
    PROVE  IInv'
  <1>1. PICK r \in Registrations :
            /\ r = Top.registration
            /\ \/ /\ ~Built(i)
                  /\ origin' = [origin EXCEPT ![i] = r]
                  /\ parts' = [parts EXCEPT ![i] = Top.got]
               \/ /\ i \in Top.got
                  /\ UNCHANGED <<origin, parts>>
            /\ memo' = IF kind[r] = "singleton" THEN [memo EXCEPT ![r] = i] ELSE memo
            /\ given' = [given EXCEPT ![r] = @ \cup {i}]
            /\ stack' = Receive(Rest, i)
    <2>1. Top.registration \in Registrations
      BY RestOfStack, FramesAreTyped DEF FactoryReturns, Top
    <2> QED
      BY <2>1 DEF FactoryReturns, Keep, Give
  <1>2. /\ UNCHANGED <<above, table, kind, home, reentered>>
        /\ UNCHANGED registry
        /\ stack # <<>>
    BY DEF FactoryReturns, registry
  <1>m. PICK n \in Nat : Len(stack) = n + 1
    <2>1. stack \in Seq(Frame) /\ stack # <<>>
      BY <1>2 DEF IInv, TypeOK
    <2>2. Len(stack) \in Nat /\ Len(stack) # 0
      BY <2>1
    <2>3. Len(stack) - 1 \in Nat /\ Len(stack) = (Len(stack) - 1) + 1
      BY <2>2
    <2> QED
      BY <2>3
  <1>n. n \in 0..Len(stack) /\ n \in Nat /\ n + 1 = Len(stack)
    BY <1>m
  <1>3. /\ n \in Nat /\ n + 1 = Len(stack)
        /\ DOMAIN stack = 1..(n + 1)
        /\ stack' \in Seq(Frame) /\ Len(stack') = n
        /\ \A k \in 1..n :
              /\ stack'[k].registration = stack[k].registration
              /\ stack'[k].container = stack[k].container
              /\ stack'[k].got \subseteq stack[k].got \cup {i}
              /\ k # n => stack'[k].got = stack[k].got
    <2>1. PICK rest \in Seq(Frame) : rest = Rest
      BY <1>2, RestOfStack
    <2>2. Len(stack) - 1 = n
      BY <1>n
    <2>3. Len(rest) = n /\ \A k \in 1..n : rest[k] = stack[k]
      BY <1>2, <2>1, <2>2, RestOfStack
    <2>4. stack' = Receive(rest, i)
      BY <1>1, <2>1
    <2>5. /\ stack' \in Seq(Frame) /\ Len(stack') = n
          /\ \A k \in 1..n :
                /\ stack'[k].registration = rest[k].registration
                /\ stack'[k].container = rest[k].container
                /\ stack'[k].got \subseteq rest[k].got \cup {i}
                /\ k # n => stack'[k].got = rest[k].got
      <3>1. /\ Receive(rest, i) \in Seq(Frame)
            /\ Len(Receive(rest, i)) = Len(rest)
            /\ \A k \in 1..Len(rest) :
                  /\ Receive(rest, i)[k].registration = rest[k].registration
                  /\ Receive(rest, i)[k].container = rest[k].container
                  /\ Receive(rest, i)[k].got \subseteq rest[k].got \cup {i}
                  /\ k # Len(rest) => Receive(rest, i)[k].got = rest[k].got
        BY ReceiveIsLocal
      <3>2. Len(rest) = n
        BY <2>3
      <3> QED
        BY <2>4, <3>1, <3>2
    <2>6. DOMAIN stack = 1..(n + 1)
      BY <1>2, <1>n, RestOfStack
    <2> QED
      BY <1>n, <2>3, <2>5, <2>6
  <1>4. PICK top \in Frame :
            /\ top = stack[n + 1] /\ top = Top
            /\ Made(r) /\ r = top.registration /\ top.container = home[r]
            /\ home[r] \in Containers /\ Exists(home[r])
            /\ kind[r] \in {"singleton", "transient"}
            /\ top.got \subseteq Instances
            /\ \A j \in top.got : SeenFrom(home[r], j)
            /\ n > 0 => home[r] \in above[stack[n].container]
    <2>1. n + 1 \in DOMAIN stack /\ Top = stack[n + 1]
      BY <1>3 DEF Top
    <2>2. n > 0 => (n + 1) - 1 = n
      BY <1>3
    <2> QED
      BY <1>1, <1>3, <2>1, <2>2, FramesAreTyped DEF IInv, FramesAreNested, RegistrationsAreMade
  <1>5. n + 1 \in DOMAIN stack /\ stack[n + 1].registration = r
    <2>1. n + 1 \in 1..(n + 1)
      BY <1>3
    <2> QED
      BY <1>3, <1>4, <2>1
  <1>6. Grows
    BY <1>1, <1>2 DEF Grows, IInv, TypeOK, Built
  <1>7. /\ origin' \in [Instances -> Registrations \cup {Absent}]
        /\ parts' \in [Instances -> SUBSET Instances]
        /\ memo' \in [Registrations -> Instances \cup {Absent}]
        /\ given' \in [Registrations -> SUBSET Instances]
        /\ given'[r] = given[r] \cup {i}
        /\ memo'[r] = IF kind[r] = "singleton" THEN i ELSE memo[r]
        /\ \A s \in Registrations \ {r} : given'[s] = given[s] /\ memo'[s] = memo[s]
        /\ \A j \in Instances : \/ parts'[j] = parts[j]
                                    \/ (parts'[j] = top.got /\ j = i /\ origin'[j] = r)
        /\ \A j \in Instances : origin'[j] = origin[j] \/ (j = i /\ origin'[j] = r)
    <2>1. \/ /\ origin' = [origin EXCEPT ![i] = r]
             /\ parts' = [parts EXCEPT ![i] = top.got]
          \/ UNCHANGED <<origin, parts>>
      BY <1>1, <1>4
    <2>2. /\ origin' \in [Instances -> Registrations \cup {Absent}]
          /\ parts' \in [Instances -> SUBSET Instances]
          /\ \A j \in Instances : \/ parts'[j] = parts[j]
                                      \/ (parts'[j] = top.got /\ j = i /\ origin'[j] = r)
          /\ \A j \in Instances : origin'[j] = origin[j] \/ (j = i /\ origin'[j] = r)
      <3>1. CASE /\ origin' = [origin EXCEPT ![i] = r]
                 /\ parts' = [parts EXCEPT ![i] = top.got]
        <4>1. /\ origin' \in [Instances -> Registrations \cup {Absent}] /\ origin'[i] = r
              /\ \A j \in Instances \ {i} : origin'[j] = origin[j]
          BY <3>1 DEF IInv, TypeOK
        <4>2. /\ parts' \in [Instances -> SUBSET Instances] /\ parts'[i] = top.got
              /\ \A j \in Instances \ {i} : parts'[j] = parts[j]
          BY <1>4, <3>1 DEF IInv, TypeOK
        <4> QED
          BY <4>1, <4>2
      <3>2. CASE UNCHANGED <<origin, parts>>
        BY <3>2 DEF IInv, TypeOK
      <3> QED
        BY <2>1, <3>1, <3>2
    <2>3. /\ memo' \in [Registrations -> Instances \cup {Absent}]
          /\ memo'[r] = IF kind[r] = "singleton" THEN i ELSE memo[r]
          /\ \A s \in Registrations \ {r} : memo'[s] = memo[s]
      BY <1>1 DEF IInv, TypeOK
    <2>4. /\ given' \in [Registrations -> SUBSET Instances]
          /\ given'[r] = given[r] \cup {i}
          /\ \A s \in Registrations \ {r} : given'[s] = given[s]
      BY <1>1 DEF IInv, TypeOK
    <2> QED
      BY <2>2, <2>3, <2>4
  <1>8. Built(i)' /\ home'[origin'[i]] \in above'[home[r]]
    <2>1. CASE ~Built(i)
      <3>1. origin'[i] = r
        BY <1>1, <1>4, <2>1 DEF IInv, FramesAreNested, SeenFrom, TypeOK
      <3> QED
        BY <1>2, <1>4, <3>1 DEF IInv, ScopesAreATree, Built
    <2>2. CASE Built(i)
      BY <1>1, <1>2, <1>4, <2>2 DEF SeenFrom, Built
    <2> QED
      BY <2>1, <2>2
  <1>9. ASSUME NEW c \in Containers, NEW j \in Instances, SeenFrom(c, j)
        PROVE  Built(j)' /\ home'[origin'[j]] \in above'[c]
    <2>1. SeenFrom(c, j)'
      BY <1>6, <1>9, SightStays DEF IInv
    <2> QED
      BY <2>1 DEF SeenFrom
  <1>10. TypeOK'
    <2>1. Len(stack') <= MaxDepth
      BY <1>3 DEF IInv, TypeOK
    <2>2. \A s \in Registrations :
             /\ kind[s] \in {"transient", Absent} => memo'[s] = Absent
             /\ kind[s] = "value" => memo'[s] # Absent
      BY <1>4, <1>7 DEF IInv, TypeOK
    <2>3. /\ above' \in [Containers -> SUBSET Containers]
          /\ table' \in [Containers -> [Tokens -> Registrations \cup {Absent}]]
          /\ kind' \in [Registrations -> {"value", "singleton", "transient", Absent}]
          /\ home' \in [Registrations -> Containers \cup {Absent}]
          /\ reentered' \subseteq Registrations
          /\ \A s \in Registrations : Made(s)' => home'[s] \in Containers
          /\ \A c \in Containers, t \in Tokens :
                table'[c][t] # Absent => Made(table[c][t])' /\ home'[table'[c][t]] = c
      BY <1>2 DEF IInv, TypeOK, Made
    <2> QED
      BY <1>2, <1>3, <1>7, <2>1, <2>2, <2>3 DEF TypeOK
  <1>11. ScopesAreATree'
    BY <1>2 DEF IInv, ScopesAreATree, Exists
  <1>12. RegistrationsAreMade'
    <2>1. \A s \in Registrations : Made(s)' <=> Made(s)
      BY <1>2 DEF Made
    <2>2. \A s \in Registrations : Made(s) => Exists(home[s])'
      BY <1>2 DEF IInv, RegistrationsAreMade, Exists
    <2>3. \A s \in Registrations : ~Made(s) => given'[s] = {}
      BY <1>4, <1>7 DEF IInv, RegistrationsAreMade
    <2>4. \A j \in Instances : Built(j)' => Made(origin'[j])
      BY <1>4, <1>7 DEF IInv, RegistrationsAreMade, Built
    <2>5. \A j \in Instances : ~Built(j)' => parts'[j] = {}
      BY <1>7, <1>8 DEF IInv, RegistrationsAreMade, Built
    <2> QED
      BY <1>2, <2>1, <2>2, <2>3, <2>4, <2>5 DEF RegistrationsAreMade, Made
  <1>13. KeptIsSeen'
    <2> SUFFICES ASSUME NEW s \in Registrations, memo'[s] # Absent
                 PROVE  origin'[memo'[s]] # Absent /\ home'[origin'[memo'[s]]] \in above'[home[s]]
      BY <1>2 DEF KeptIsSeen, SeenFrom, Built
    <2>1. CASE s = r /\ memo'[s] = i
      BY <1>8, <2>1 DEF Built
    <2>2. CASE memo'[s] = memo[s]
      <3>1. SeenFrom(home[s], memo[s]) /\ memo[s] \in Instances /\ home[s] \in Containers
        BY <2>2 DEF IInv, KeptIsSeen, TypeOK, Made
      <3> QED
        BY <1>9, <2>2, <3>1 DEF Built
    <2> QED
      BY <1>7, <2>1, <2>2
  <1>14. FramesAreNested'
    <2>1. ASSUME NEW k \in 1..n, k = n
          PROVE  SeenFrom(stack[k].container, i)'
      <3>1. k \in DOMAIN stack /\ stack[k].container \in Containers
        BY <1>3, <2>1, FramesAreTyped
      <3>2. above[home[r]] \subseteq above[stack[k].container]
        BY <1>4, <2>1, <3>1 DEF IInv, ScopesAreATree
      <3>3. Built(i)' /\ home'[origin'[i]] \in above'[stack[k].container]
        BY <1>2, <1>8, <3>2
      <3> QED
        BY <1>3, <3>3 DEF SeenFrom
    <2> QED
      BY <1>2, <1>3, <1>6, <2>1, ShorterStackIsNested
  <1>15. RunsOnce'
    <2>1. DOMAIN stack' = 1..n /\ 1..n \subseteq DOMAIN stack
      BY <1>3
    <2>2. ASSUME r \notin reentered PROVE ~Running(r)'
      <3>1. \A k \in 1..n : stack[k].registration # r
        BY <1>3, <1>5, <2>2 DEF IInv, RunsOnce
      <3> QED
        BY <1>3, <2>1, <3>1 DEF Running
    <2> QED
      BY <1>2, <1>3, <1>7, <2>1, <2>2, ShorterStackRunsOnce
  <1>16. NoCaptiveDependency'
    <2>1. ASSUME NEW s \in Registrations, NEW j \in given'[s]
          PROVE  Built(j)' /\ home'[origin'[j]] \in above'[home[s]]
      <3>1. CASE s = r /\ j = i
        BY <1>8, <3>1
      <3>2. CASE j \in given[s]
        <4>1. SeenFrom(home[s], j) /\ j \in Instances /\ home[s] \in Containers
          BY <3>2 DEF IInv, NoCaptiveDependency, RegistrationsAreMade, TypeOK
        <4> QED
          BY <1>9, <4>1
      <3> QED
        BY <1>7, <2>1, <3>1, <3>2
    <2>2. ASSUME NEW j \in Instances, NEW part \in parts'[j]
          PROVE  Built(part)' /\ home'[origin'[part]] \in above'[home[origin'[j]]]
      <3>1. CASE part \in parts[j]
        <4>1. /\ SeenFrom(home[origin[j]], part) /\ part \in Instances
              /\ Built(j) /\ origin[j] \in Registrations /\ Made(origin[j])
          BY <3>1 DEF IInv, NoCaptiveDependency, RegistrationsAreMade, TypeOK, Built
        <4>2. home[origin[j]] \in Containers /\ origin'[j] = origin[j]
          BY <1>6, <4>1 DEF IInv, TypeOK, Grows
        <4> QED
          BY <1>9, <4>1, <4>2
      <3>2. CASE part \in top.got /\ origin'[j] = r
        BY <1>4, <1>9, <3>2
      <3> QED
        BY <1>7, <2>2, <3>1, <3>2
    <2> QED
      BY <1>2, <2>1, <2>2 DEF NoCaptiveDependency, SeenFrom
  <1>17. SingletonIsWhatItGave'
    <2>1. ASSUME kind[r] = "singleton", r \notin reentered PROVE given'[r] = {i} /\ memo'[r] = i
      <3>1. Running(r)
        BY <1>5 DEF Running
      <3>2. memo[r] = Absent /\ given[r] = {}
        BY <2>1, <3>1 DEF IInv, RunsOnce, SingletonIsWhatItGave
      <3> QED
        BY <1>7, <2>1, <3>2
    <2> QED
      BY <1>2, <1>7, <2>1 DEF IInv, SingletonIsWhatItGave
  <1> QED
    BY <1>10, <1>11, <1>12, <1>13, <1>14, <1>15, <1>16, <1>17 DEF IInv

-----------------------------------------------------------------------------
(* The invariant                                                            *)

LEMMA InitIsInvariant == Init => IInv
  <1> SUFFICES ASSUME Init PROVE IInv
    OBVIOUS
  <1>1. TypeOK
    BY DEF Init, TypeOK, Made
  <1>2. ScopesAreATree /\ RegistrationsAreMade /\ KeptIsSeen
    BY DEF Init, ScopesAreATree, RegistrationsAreMade, KeptIsSeen, Exists, Made, Built
  <1>3. FramesAreNested /\ RunsOnce
    BY DEF Init, FramesAreNested, RunsOnce, Running
  <1>4. NoCaptiveDependency /\ SingletonIsWhatItGave
    BY DEF Init, NoCaptiveDependency, SingletonIsWhatItGave
  <1> QED
    BY <1>1, <1>2, <1>3, <1>4 DEF IInv

LEMMA NextKeepsInvariant == IInv /\ [Next]_vars => IInv'
  <1> SUFFICES ASSUME IInv, [Next]_vars PROVE IInv'
    OBVIOUS
  <1>1. ASSUME NEW c \in Containers, NEW scope \in Containers, CreateScope(c, scope)
        PROVE  IInv'
    BY <1>1, CreateScopeKeepsInvariant
  <1>2. ASSUME NEW c \in Containers, NEW t \in Tokens, Register(c, t)
        PROVE  IInv'
    BY <1>2, RegisterFactoryKeepsInvariant, RegisterValueKeepsInvariant DEF Register
  <1>3. ASSUME NEW c \in Containers, NEW t \in Tokens, ResolveKept(c, t)
        PROVE  IInv'
    BY <1>3, ResolveKeptKeepsInvariant
  <1>4. ASSUME NEW c \in Containers, NEW t \in Tokens, CallFactory(c, t)
        PROVE  IInv'
    BY <1>4, CallFactoryKeepsInvariant
  <1>5. ASSUME NEW i \in Instances, FactoryReturns(i)
        PROVE  IInv'
    BY <1>5, FactoryReturnsKeepsInvariant
  <1>6. CASE FactoryThrows
    BY <1>6, FactoryThrowsKeepsInvariant
  <1>7. CASE UNCHANGED vars
    <2>1. UNCHANGED <<above, table, kind, home, memo, stack, origin, parts, given, reentered>>
      BY <1>7 DEF vars, registry, history
    <2>2. TypeOK' /\ ScopesAreATree' /\ RegistrationsAreMade'
      BY <2>1 DEF IInv, TypeOK, ScopesAreATree, RegistrationsAreMade, Exists, Made, Built
    <2>3. KeptIsSeen' /\ NoCaptiveDependency' /\ SingletonIsWhatItGave'
      BY <2>1 DEF IInv, KeptIsSeen, NoCaptiveDependency, SingletonIsWhatItGave, SeenFrom, Built
    <2>4. FramesAreNested' /\ RunsOnce'
      BY <2>1 DEF IInv, FramesAreNested, RunsOnce, Running, SeenFrom, Built
    <2> QED
      BY <2>2, <2>3, <2>4 DEF IInv
  <1> QED
    BY <1>1, <1>2, <1>3, <1>4, <1>5, <1>6, <1>7 DEF Next

-----------------------------------------------------------------------------
(* Theorems                                                                 *)

(* The inductive invariant holds in every reachable state.                  *)
THEOREM ContainerInvariant == Spec => []IInv
  BY InitIsInvariant, NextKeepsInvariant, PTL DEF Spec

(* Containers, registrations, instances and the factory calls in progress    *)
(* keep to their types.                                                     *)
THEOREM ContainerTypes == Spec => []TypeOK
  BY ContainerInvariant, PTL DEF IInv

(* Whatever is registered, resolved, thrown and caught in whatever order,   *)
(* an instance never holds a part that belongs to a scope below its own.    *)
THEOREM NothingIsCaptive == Spec => []NoCaptiveDependency
  BY ContainerInvariant, PTL DEF IInv

(* A singleton whose factory does not resolve it is given out once made,    *)
(* and always the same.                                                     *)
THEOREM SingletonsAreSingle == Spec => []SingletonIsWhatItGave
  BY ContainerInvariant, PTL DEF IInv
=============================================================================

------------------------------ MODULE Container ------------------------------
(***************************************************************************)
(* The dependency-injection container of packages/application: containers  *)
(* and their scopes, registrations of values and factories, and resolution *)
(* with memoised singletons.                                               *)
(*                                                                         *)
(* Everything here is synchronous.  What makes it a state machine is that  *)
(* resolve calls factories, which are foreign code: before it returns or   *)
(* throws, a factory may resolve through the container it was given, catch *)
(* what that throws, register, and open scopes.  `stack` holds the factory *)
(* calls in progress; with an empty stack, foreign code calls from outside *)
(* and may use any container.                                              *)
(***************************************************************************)
EXTENDS Naturals, Sequences

CONSTANTS
    Containers,     \* the root and the scopes that may be created
    Root,           \* what createContainer returned
    Tokens,         \* injection tokens
    Registrations,  \* the registration objects that may be made
    Instances,      \* the objects that factories and callers may make
    Absent,         \* undefined
    MaxDepth        \* the factory calls that the program's stack has room for

ASSUME ContainerAssumption ==
    /\ Root \in Containers
    /\ Absent \notin Registrations \cup Instances \cup Containers
    /\ Absent \notin {"value", "singleton", "transient"}
    /\ MaxDepth \in Nat \ {0}

VARIABLES
    above,      \* a container with its parent, its parent's parent, ...
    table,      \* the registration each container holds for each token
    kind,       \* "value", "singleton" or "transient"
    home,       \* the container a registration was made in
    memo,       \* its value, or the instance it keeps
    stack,      \* the factory calls in progress, the innermost last
    origin,     \* history: the registration an instance was made for
    parts,      \* history: what its factory resolved on the way
    given,      \* history: what resolving a registration has returned
    reentered   \* history: the registrations whose factory was called while
                \* it was running

registry == <<above, table, kind, home>>
history  == <<origin, parts, given, reentered>>
vars     == <<registry, memo, stack, history>>

-----------------------------------------------------------------------------
(* Resolution                                                               *)

Frame == [registration : Registrations, container : Containers, got : SUBSET Instances]

Exists(c) == above[c] # {}

Made(r) == kind[r] # Absent

Built(i) == origin[i] # Absent

(* The containers on the way from c to the root that know the token.        *)
Knowing(c, t) == {d \in above[c] : table[d][t] # Absent}

(* resolve asks the container itself and then its parent: d is the first    *)
(* that knows the token.  `has` says whether there is one.                  *)
Answers(d, c, t) ==
    d \in Knowing(c, t) /\ \A other \in Knowing(c, t) : other \in above[d]

Running(r) == \E k \in DOMAIN stack : stack[k].registration = r

Top == stack[Len(stack)]

Rest == SubSeq(stack, 1, Len(stack) - 1)

(* The container that the code now running resolves through: a factory uses *)
(* the one it is given.                                                     *)
MayUse(c) == Exists(c) /\ (stack # <<>> => c = Top.container)

(* The caller of resolve, a factory or code outside, receives an instance.  *)
Receive(frames, i) ==
    IF frames = <<>> THEN frames
    ELSE [frames EXCEPT ![Len(frames)].got = @ \cup {i}]

Give(r, i) == given' = [given EXCEPT ![r] = @ \cup {i}]

TypeOK ==
    /\ above \in [Containers -> SUBSET Containers]
    /\ table \in [Containers -> [Tokens -> Registrations \cup {Absent}]]
    /\ kind \in [Registrations -> {"value", "singleton", "transient", Absent}]
    /\ home \in [Registrations -> Containers \cup {Absent}]
    /\ memo \in [Registrations -> Instances \cup {Absent}]
    /\ stack \in Seq(Frame)
    /\ Len(stack) <= MaxDepth
    /\ origin \in [Instances -> Registrations \cup {Absent}]
    /\ parts \in [Instances -> SUBSET Instances]
    /\ given \in [Registrations -> SUBSET Instances]
    /\ reentered \subseteq Registrations
    /\ \A r \in Registrations : Made(r) => home[r] \in Containers
    /\ \A c \in Containers, t \in Tokens :
          table[c][t] # Absent => Made(table[c][t]) /\ home[table[c][t]] = c
    /\ \A r \in Registrations :
          /\ kind[r] \in {"transient", Absent} => memo[r] = Absent
          /\ kind[r] = "value" => memo[r] # Absent

-----------------------------------------------------------------------------
(* Actions                                                                  *)

Init ==
    /\ above = [c \in Containers |-> IF c = Root THEN {Root} ELSE {}]
    /\ table = [c \in Containers |-> [t \in Tokens |-> Absent]]
    /\ kind = [r \in Registrations |-> Absent]
    /\ home = [r \in Registrations |-> Absent]
    /\ memo = [r \in Registrations |-> Absent]
    /\ stack = <<>>
    /\ origin = [i \in Instances |-> Absent]
    /\ parts = [i \in Instances |-> {}]
    /\ given = [r \in Registrations |-> {}]
    /\ reentered = {}

CreateScope(c, scope) ==
    /\ Exists(c)
    /\ ~Exists(scope)
    /\ above' = [above EXCEPT ![scope] = above[c] \cup {scope}]
    /\ UNCHANGED <<table, kind, home, memo, stack, history>>

(* Map.set with a new registration object: what the container held for the  *)
(* token before is out of its reach, but may still be in use by a factory.  *)
AddRegistration(c, t, r, as) ==
    /\ Exists(c)
    /\ ~Made(r)
    /\ table' = [table EXCEPT ![c][t] = r]
    /\ kind' = [kind EXCEPT ![r] = as]
    /\ home' = [home EXCEPT ![r] = c]
    /\ UNCHANGED <<above, stack, parts, given, reentered>>

RegisterFactory(c, t, r, as) ==
    /\ as \in {"singleton", "transient"}
    /\ AddRegistration(c, t, r, as)
    /\ UNCHANGED <<memo, origin>>

RegisterValue(c, t, r, i) ==
    /\ AddRegistration(c, t, r, "value")
    /\ ~Built(i)
    /\ memo' = [memo EXCEPT ![r] = i]
    /\ origin' = [origin EXCEPT ![i] = r]

(* resolve finds a value, or a singleton that was made before.  If it finds *)
(* no registration it throws, and nothing has changed.                      *)
ResolveKept(c, t) ==
    /\ MayUse(c)
    /\ \E d \in Containers :
          /\ Answers(d, c, t)
          /\ LET r == table[d][t] IN
             /\ memo[r] # Absent
             /\ stack' = Receive(stack, memo[r])
             /\ Give(r, memo[r])
    /\ UNCHANGED <<registry, memo, origin, parts, reentered>>

(* Mutant: the factory is given the container that was asked.               *)
CallFactory_Asked(c, t) ==
    /\ MayUse(c) /\ Len(stack) < MaxDepth
    /\ \E d \in Containers :
          /\ Answers(d, c, t)
          /\ memo[table[d][t]] = Absent
          /\ stack' = Append(stack, [registration |-> table[d][t], container |-> c, got |-> {}])
          /\ reentered' = reentered \cup {r \in {table[d][t]} : Running(r)}
    /\ UNCHANGED <<registry, memo, origin, parts, given>>

(* Mutant: the registration keeps an instance before its factory has made   *)
(* it, so that cyclic dependencies end.                                     *)
CallFactory_Placeholder(c, t) ==
    /\ MayUse(c) /\ Len(stack) < MaxDepth
    /\ \E d \in Containers, i \in Instances :
          /\ Answers(d, c, t)
          /\ memo[table[d][t]] = Absent /\ ~Built(i)
          /\ memo' = [memo EXCEPT ![table[d][t]] = i]
          /\ origin' = [origin EXCEPT ![i] = table[d][t]]
          /\ stack' = Append(stack, [registration |-> table[d][t], container |-> d, got |-> {}])
          /\ reentered' = reentered \cup {r \in {table[d][t]} : Running(r)}
    /\ UNCHANGED <<registry, parts, given>>

(* Otherwise it calls the factory with the container that holds it.  When   *)
(* the stack is full the call throws, and nothing has changed.              *)
CallFactory(c, t) ==
    /\ MayUse(c) /\ Len(stack) < MaxDepth
    /\ \E d \in Containers :
          /\ Answers(d, c, t)
          /\ memo[table[d][t]] = Absent
          /\ stack' = Append(stack, [registration |-> table[d][t], container |-> d, got |-> {}])
          /\ reentered' = reentered \cup {r \in {table[d][t]} : Running(r)}
    /\ UNCHANGED <<registry, memo, origin, parts, given>>

(* Mutant: every factory's instance is kept.                                *)
Keep_Always(r, i) == memo' = [memo EXCEPT ![r] = i]

(* `registration.instance ??= ...`: whether to assign was decided before    *)
(* the factory was called, on the registration found then.                  *)
Keep(r, i) ==
    memo' = IF kind[r] = "singleton" THEN [memo EXCEPT ![r] = i] ELSE memo

(* The innermost factory returns an instance that it made, or one that it   *)
(* resolved.                                                                *)
FactoryReturns(i) ==
    /\ stack # <<>>
    /\ LET r == Top.registration IN
       /\ \/ /\ ~Built(i)
             /\ origin' = [origin EXCEPT ![i] = r]
             /\ parts' = [parts EXCEPT ![i] = Top.got]
          \/ /\ i \in Top.got
             /\ UNCHANGED <<origin, parts>>
       /\ Keep(r, i)
       /\ Give(r, i)
    /\ stack' = Receive(Rest, i)
    /\ UNCHANGED <<registry, reentered>>

(* The innermost factory throws; its caller may catch that and go on.       *)
FactoryThrows ==
    /\ stack # <<>>
    /\ stack' = Rest
    /\ UNCHANGED <<registry, memo, history>>

Register(c, t) ==
    \E r \in Registrations :
        \/ \E as \in {"singleton", "transient"} : RegisterFactory(c, t, r, as)
        \/ \E i \in Instances : RegisterValue(c, t, r, i)

Next ==
    \/ \E c, scope \in Containers : CreateScope(c, scope)
    \/ \E c \in Containers, t \in Tokens :
          Register(c, t) \/ ResolveKept(c, t) \/ CallFactory(c, t)
    \/ \E i \in Instances : FactoryReturns(i)
    \/ FactoryThrows

Spec == Init /\ [][Next]_vars

-----------------------------------------------------------------------------
(* Properties                                                               *)

(* The instance comes from a registration that c can see: one made in c or  *)
(* in a container it descends from.                                         *)
SeenFrom(c, i) == Built(i) /\ home[origin[i]] \in above[c]

(* Nothing that outlives a scope holds on to what belongs to the scope:     *)
(* whatever a registration answers with, and every part its factory         *)
(* resolved for that, comes from the container of the registration or from  *)
(* one above it, whichever scope asked for it first (container.ts:71-84:    *)
(* a parent resolves with the parent, so a factory never sees the scope).   *)
NoCaptiveDependency ==
    /\ \A r \in Registrations : \A i \in given[r] : SeenFrom(home[r], i)
    /\ \A i \in Instances : \A part \in parts[i] : SeenFrom(home[origin[i]], part)

(* Everybody who resolves a singleton gets the same instance,               *)
(* and a factory that threw leaves nothing behind (container.ts:13: the     *)
(* factory runs once), also when the token was registered again while the   *)
(* factory ran.  Excepted is a factory that resolves its own registration   *)
(* before it returns: both of its runs keep and give an instance.           *)
SingletonIsWhatItGave ==
    \A r \in Registrations : kind[r] = "singleton" /\ r \notin reentered =>
        given[r] = (IF memo[r] = Absent THEN {} ELSE {memo[r]})

-----------------------------------------------------------------------------
(* The inductive invariant                                                  *)

(* The containers form a tree: what is above a container exists, and what   *)
(* is above that is above the container too.                                *)
ScopesAreATree ==
    \A c \in Containers :
        /\ Exists(c) => c \in above[c]
        /\ \A d \in above[c] : Exists(d) /\ above[d] \subseteq above[c]

(* Registrations are made in containers that exist; nothing was resolved    *)
(* from one that was not made, and no instance was made for one.            *)
RegistrationsAreMade ==
    /\ \A r \in Registrations : Made(r) => Exists(home[r])
    /\ \A r \in Registrations : ~Made(r) => given[r] = {}
    /\ \A i \in Instances : Built(i) => Made(origin[i])
    /\ \A i \in Instances : ~Built(i) => parts[i] = {}

(* What a registration keeps can be seen from its container.                *)
KeptIsSeen ==
    \A r \in Registrations : memo[r] # Absent => SeenFrom(home[r], memo[r])

(* A factory runs with the container of its registration, which is above    *)
(* the one that the factory that called it runs with.                       *)
FramesAreNested ==
    \A k \in DOMAIN stack :
        /\ kind[stack[k].registration] \in {"singleton", "transient"}
        /\ stack[k].container = home[stack[k].registration]
        /\ k > 1 => stack[k].container \in above[stack[k - 1].container]
        /\ \A i \in stack[k].got : SeenFrom(stack[k].container, i)

(* The factory of a singleton runs once at a time, and before there is an   *)
(* instance, unless it resolves its own registration.                       *)
RunsOnce ==
    \A r \in Registrations \ reentered :
        /\ \A j, k \in DOMAIN stack :
              stack[j].registration = r /\ stack[k].registration = r => j = k
        /\ kind[r] = "singleton" /\ Running(r) => memo[r] = Absent

(* The strengthening of the two properties that every step preserves.       *)
IInv ==
    /\ TypeOK
    /\ ScopesAreATree
    /\ RegistrationsAreMade
    /\ KeptIsSeen
    /\ FramesAreNested
    /\ RunsOnce
    /\ NoCaptiveDependency
    /\ SingletonIsWhatItGave
=============================================================================

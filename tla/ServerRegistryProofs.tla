------------------------- MODULE ServerRegistryProofs -------------------------
(***************************************************************************)
(* Proofs about ServerRegistry, and about ServerCommand, which has it load *)
(* the servers and starts them, for any names, classes and configuration.  *)
(***************************************************************************)
EXTENDS ServerCommand, TLAPS, WellFoundedInduction, NaturalsInduction

-----------------------------------------------------------------------------
(* The type invariant.                                                     *)

LEMMA BoundedIsSeq ==
  ASSUME NEW S, NEW n \in Nat, NEW s \in BoundedSeq(S, n)
  PROVE  s \in Seq(S)
BY DEF BoundedSeq, SeqOf

LEMMA RoutesOfType ==
  ASSUME NEW n \in Names, NEW k \in 0 .. MaxRoutes
  PROVE  RoutesOf(n, k) \in Seq(Route)
BY RegistryAssumption DEF RoutesOf, Route

LEMMA EntryRoutes ==
  ASSUME NEW e \in Entry
  PROVE  Len(e.routes) \in 0 .. MaxRoutes
BY RegistryAssumption DEF Entry, BoundedSeq, SeqOf

LEMMA NoEntryType == NoEntry \in Entry
<1>1. <<>> \in [1 .. 0 -> Kinds]
  OBVIOUS
<1>2. <<>> \in BoundedSeq(Kinds, MaxRoutes)
  BY <1>1, RegistryAssumption DEF BoundedSeq, SeqOf
<1> QED
  BY <1>2 DEF NoEntry, Entry, Frameworks

LEMMA AppType ==
  ASSUME app \in [Classes \cup {Express} -> Seq(Route)], NEW f, NEW R \in Seq(Route),
         app' = [app EXCEPT ![f] = R]
  PROVE  app' \in [Classes \cup {Express} -> Seq(Route)]
OBVIOUS

LEMMA KeyType ==
  ASSUME TypeOK, status = "loading"
  PROVE  /\ pos \in 1 .. Len(config.keys)
         /\ Key \in Names /\ Of(Key) \in Entry /\ Of(Key).framework \in Frameworks
<1>1. pos \in 1 .. Len(config.keys) /\ Key \in Names
  BY DEF TypeOK, Key
<1>2. Of(Key) \in Entry
  BY <1>1 DEF TypeOK, Of
<1> QED
  BY <1>1, <1>2 DEF Entry

(* TypeOK holds throughout: the registry, the servers and the global route *)
(* cache keep their types (ServerRegistry.ts, WebServer.ts).               *)
THEOREM TypeCorrect == Spec => []TypeOK
<1>1. Init => TypeOK
  <2> SUFFICES ASSUME Init PROVE TypeOK
    OBVIOUS
  <2>1. config.keys \in Seq(Names) /\ config.entry \in [Names -> Entry]
    <3>1. PICK N \in SUBSET Names : \E k \in KeysOf(N), e \in [N -> Entry] :
            config = [keys |-> k, entry |-> [n \in Names |-> IF n \in N THEN e[n] ELSE NoEntry]]
      BY DEF Init
    <3>2. PICK k \in KeysOf(N), e \in [N -> Entry] :
            config = [keys |-> k, entry |-> [n \in Names |-> IF n \in N THEN e[n] ELSE NoEntry]]
      BY <3>1
    <3>3. k \in Seq(N)
      BY <3>2 DEF KeysOf, BoundedSeq, SeqOf
    <3>4. config.entry \in [Names -> Entry]
      BY <3>2, NoEntryType
    <3> QED
      BY <3>2, <3>3, <3>4
  <2>2. pos \in 1 .. Len(config.keys) + 1 /\ loads \in 0 .. MaxLoads
    BY <2>1, RegistryAssumption DEF Init
  <2>3. app \in [Classes \cup {Express} -> Seq(Route)] /\ registry \in Seq(Classes) /\ cache \in Seq(Route)
    BY DEF Init
  <2>4. prepared \in [Classes -> BOOLEAN]
    BY DEF Init
  <2> QED
    BY <2>1, <2>2, <2>3, <2>4 DEF Init, TypeOK, Frameworks
<1>2. TypeOK /\ [Next]_vars => TypeOK'
  <2> SUFFICES ASSUME TypeOK, [Next]_vars PROVE TypeOK'
    OBVIOUS
  <2> USE RegistryAssumption DEF TypeOK, loading, objects
  <2>1. CASE Load
    <3>1. pos' \in 1 .. Len(config'.keys) + 1 /\ loads' \in 0 .. MaxLoads
      BY <2>1 DEF Load
    <3> QED
      BY <2>1, <3>1 DEF Load
  <2>2. CASE CreateWithoutClass
    BY <2>2 DEF CreateWithoutClass, Rejected
  <2>3. ASSUME NEW c \in Classes, CreatePrepared(c) PROVE TypeOK'
    <3>1. Key \in Names
      BY <2>3, KeyType DEF CreatePrepared
    <3>2. /\ registry' \in Seq(Classes) /\ status' \in {"idle", "loading", "loaded", "failed"}
          /\ pos' \in 1 .. Len(config'.keys) + 1 /\ (status' = "loading" => pos' <= Len(config'.keys))
          /\ loads' \in 0 .. MaxLoads
      BY <2>3 DEF CreatePrepared, Registered
    <3> QED
      BY <2>3, <3>1, <3>2 DEF CreatePrepared, Adopt
  <2>4. ASSUME NEW c \in Classes, CreateWithoutFramework(c) PROVE TypeOK'
    <3>1. Key \in Names
      BY <2>4, KeyType DEF CreateWithoutFramework
    <3> QED
      BY <2>4, <3>1 DEF CreateWithoutFramework, Adopt, Rejected
  <2>5. ASSUME NEW c \in Classes, CreateMounting(c) PROVE TypeOK'
    <3>1. Key \in Names /\ Of(Key) \in Entry /\ Of(Key).framework \in Frameworks
      BY <2>5, KeyType DEF CreateMounting
    <3> DEFINE all == Len(Of(Key).routes)
               f   == AppOf(c, Of(Key).framework)
    <3>2. all \in 0 .. MaxRoutes
      BY <3>1, EntryRoutes
    <3>3. ASSUME NEW k \in 0 .. all PROVE RoutesOf(Key, k) \in Seq(Route)
      BY <3>1, <3>2, RoutesOfType
    <3>4. /\ name' \in [Classes -> Names \cup {NoName}]
          /\ options' \in [Classes -> Names \cup {NoName}]
          /\ injector' \in [Names -> Classes \cup {NoClass}]
      BY <2>5, <3>1 DEF CreateMounting, Adopt
    <3>5. prepared' \in [Classes -> BOOLEAN]
      BY <2>5 DEF CreateMounting
    <3>6. framework' \in [Classes -> Frameworks]
      BY <2>5, <3>1 DEF CreateMounting
    <3>7. CASE /\ app' = [app EXCEPT ![f] = RoutesOf(Key, all)]
               /\ cache' = ClearedCache \o RoutesOf(Key, all)
               /\ Registered(c)
      <4>1. RoutesOf(Key, all) \in Seq(Route)
        BY <3>1, <3>2, RoutesOfType
      <4>2. app' \in [Classes \cup {Express} -> Seq(Route)] /\ cache' \in Seq(Route)
        <5>1. app' \in [Classes \cup {Express} -> Seq(Route)]
          BY <3>7, <4>1, AppType
        <5>2. cache' \in Seq(Route)
          BY <3>7, <4>1 DEF ClearedCache
        <5> QED
          BY <5>1, <5>2
      <4>3. config' = config /\ status = "loading"
        BY <2>5 DEF CreateMounting
      <4>4. /\ registry' \in Seq(Classes) /\ status' \in {"idle", "loading", "loaded", "failed"}
            /\ pos' \in 1 .. Len(config'.keys) + 1 /\ (status' = "loading" => pos' <= Len(config'.keys))
            /\ loads' \in 0 .. MaxLoads
        BY <3>7, <4>3 DEF Registered
      <4> QED
        BY <3>4, <3>5, <3>6, <4>2, <4>3, <4>4
    <3>8. ASSUME NEW k \in 0 .. all,
                 app' = [app EXCEPT ![f] = RoutesOf(Key, k)],
                 cache' = ClearedCache,
                 Rejected
          PROVE  TypeOK'
      <4>1. app' \in [Classes \cup {Express} -> Seq(Route)] /\ cache' \in Seq(Route)
        <5>1. RoutesOf(Key, k) \in Seq(Route)
          BY <3>3
        <5>2. app' \in [Classes \cup {Express} -> Seq(Route)]
          BY <3>8, <5>1, AppType
        <5> QED
          BY <3>8, <5>2 DEF ClearedCache
      <4>2. config' = config
        BY <2>5 DEF CreateMounting
      <4> QED
        BY <3>4, <3>5, <3>6, <3>8, <4>1, <4>2 DEF Rejected
    <3> QED
      BY <2>5, <3>7, <3>8 DEF CreateMounting
  <2> QED
    BY <2>1, <2>2, <2>3, <2>4, <2>5 DEF Next, vars
<1> QED
  BY <1>1, <1>2, PTL DEF Spec

-----------------------------------------------------------------------------
(* The route cache.                                                        *)

LEMMA MountingCases ==
  ASSUME NEW c \in Classes, CreateMounting(c)
  PROVE  \E k \in 0 .. Len(Of(Key).routes) :
           /\ app' = [app EXCEPT ![AppOf(c, Of(Key).framework)] = RoutesOf(Key, k)]
           /\ cache' \in {<<>>, <<>> \o RoutesOf(Key, k)}
           /\ \/ Registered(c) /\ k = Len(Of(Key).routes)
              \/ Rejected
BY DEF CreateMounting, ClearedCache

(* CacheIsServed: prepare clears K_ROUTE_CACHE before it replaces an       *)
(* application (WebServer.ts:92-94).                                       *)
THEOREM CacheIsServedCorrect == Spec => []CacheIsServed
<1>1. Init => CacheIsServed
  BY DEF Init, CacheIsServed
<1>2. TypeOK /\ CacheIsServed /\ [Next]_vars => CacheIsServed'
  <2> SUFFICES ASSUME TypeOK, CacheIsServed, [Next]_vars PROVE CacheIsServed'
    OBVIOUS
  <2>1. ASSUME UNCHANGED <<cache, app>> PROVE CacheIsServed'
    BY <2>1 DEF CacheIsServed
  <2>2. ASSUME cache' = <<>> PROVE CacheIsServed'
    BY <2>2 DEF CacheIsServed
  <2>3. ASSUME NEW c \in Classes, CreateMounting(c) PROVE CacheIsServed'
    <3> DEFINE f == AppOf(c, Of(Key).framework)
    <3>1. PICK k \in 0 .. Len(Of(Key).routes) :
            /\ app' = [app EXCEPT ![f] = RoutesOf(Key, k)]
            /\ cache' \in {<<>>, <<>> \o RoutesOf(Key, k)}
      BY <2>3, MountingCases
    <3>2. f \in DOMAIN app
      BY <2>3 DEF AppOf, TypeOK
    <3>3. ASSUME cache' = <<>> \o RoutesOf(Key, k) PROVE CacheIsServed'
      <4>1. Key \in Names /\ Len(Of(Key).routes) \in 0 .. MaxRoutes
        BY <2>3, KeyType, EntryRoutes DEF CreateMounting
      <4>2. RoutesOf(Key, k) \in Seq(Route)
        BY <4>1, RoutesOfType, RegistryAssumption
      <4>3. cache' = RoutesOf(Key, k)
        BY <3>3, <4>2
      <4>4. app'[f] = RoutesOf(Key, k) /\ f \in DOMAIN app'
        BY <3>1, <3>2
      <4>5. cache' = app'[f]
        BY <4>3, <4>4
      <4>6. ASSUME NEW i \in DOMAIN cache' PROVE cache'[i] \in Range(app'[f])
        BY <4>5 DEF Range
      <4> QED
        BY <4>4, <4>6 DEF CacheIsServed
    <3> QED
      BY <3>1, <3>3, <2>2
  <2> QED
    BY <2>1, <2>2, <2>3 DEF Next, vars, Load, CreateWithoutClass, CreatePrepared, CreateWithoutFramework
<1> QED
  BY <1>1, <1>2, TypeCorrect, PTL DEF Spec

-----------------------------------------------------------------------------
(* One load.                                                               *)

(* A server whose prepare has failed is marked as prepared all the same:   *)
(* that is harmless as long as nothing is created after a failure.         *)
FailureIsLast ==
  /\ loads = 0 <=> status = "idle"
  /\ RegisteredHasFramework
  /\ \A c \in Classes : prepared[c] /\ framework[c] = "none" => status = "failed"

LEMMA FailureIsLastCorrect ==
  ASSUME MaxLoads = 1
  PROVE  Spec => []FailureIsLast
<1>1. Init => FailureIsLast
  BY DEF Init, FailureIsLast, RegisteredHasFramework
<1>2. TypeOK /\ FailureIsLast /\ [Next]_vars => FailureIsLast'
  <2> SUFFICES ASSUME TypeOK, FailureIsLast, [Next]_vars PROVE FailureIsLast'
    OBVIOUS
  <2> USE DEF FailureIsLast, RegisteredHasFramework, TypeOK, objects, loading
  <2>1. CASE Load
    BY <2>1, MaxLoads = 1 DEF Load
  <2>2. CASE CreateWithoutClass
    BY <2>2 DEF CreateWithoutClass, Rejected
  <2>3. ASSUME NEW c \in Classes, CreatePrepared(c) PROVE FailureIsLast'
    <3>1. framework[c] # "none" /\ registry' = Append(registry, c) /\ framework' = framework
      BY <2>3 DEF CreatePrepared, Registered
    <3>2. RegisteredHasFramework'
      BY <3>1
    <3> QED
      BY <2>3, <3>1, <3>2 DEF CreatePrepared, Registered
  <2>4. ASSUME NEW c \in Classes, CreateWithoutFramework(c) PROVE FailureIsLast'
    BY <2>4 DEF CreateWithoutFramework, Rejected
  <2>5. ASSUME NEW c \in Classes, CreateMounting(c) PROVE FailureIsLast'
    <3>1. Of(Key).framework # "none" /\ framework' = [framework EXCEPT ![c] = Of(Key).framework]
      BY <2>5 DEF CreateMounting
    <3>2. framework'[c] # "none" /\ \A d \in Classes : framework[d] # "none" => framework'[d] # "none"
      BY <3>1
    <3>3. prepared' = [prepared EXCEPT ![c] = TRUE] /\ status = "loading" /\ (Registered(c) \/ Rejected)
      BY <2>5, MountingCases DEF CreateMounting
    <3>4. RegisteredHasFramework'
      <4>1. registry' = registry \/ registry' = Append(registry, c)
        BY <3>3 DEF Registered, Rejected
      <4>2. \A i \in DOMAIN registry : framework'[registry[i]] # "none"
        BY <3>2
      <4>3. ASSUME registry' = Append(registry, c), NEW i \in DOMAIN registry'
            PROVE  framework'[registry'[i]] # "none"
        <5>1. registry'[i] = c \/ (i \in DOMAIN registry /\ registry'[i] = registry[i])
          BY <4>3
        <5> QED
          BY <3>2, <4>2, <5>1
      <4> QED
        BY <4>1, <4>2, <4>3
    <3>5. \A d \in Classes : ~(prepared[d] /\ framework[d] = "none")
      BY <3>3
    <3>6. \A d \in Classes : ~(prepared'[d] /\ framework'[d] = "none")
      BY <3>1, <3>2, <3>3, <3>5
    <3>7. loads' = loads /\ status' # "idle"
      BY <3>3 DEF Registered, Rejected
    <3> QED
      BY <3>3, <3>4, <3>6, <3>7
  <2>6. CASE UNCHANGED vars
    BY <2>6 DEF vars
  <2> QED
    BY <2>1, <2>2, <2>3, <2>4, <2>5, <2>6 DEF Next
<1> QED
  BY <1>1, <1>2, TypeCorrect, PTL DEF Spec

(* RegisteredHasFramework: with one call of load, create never lets a      *)
(* server without a framework into the registry (WebServer.ts:174-183).    *)
THEOREM RegisteredHasFrameworkCorrect ==
  ASSUME MaxLoads = 1
  PROVE  Spec => []RegisteredHasFramework
<1>1. FailureIsLast => RegisteredHasFramework
  BY DEF FailureIsLast
<1> QED
  BY <1>1, FailureIsLastCorrect, PTL

-----------------------------------------------------------------------------
(* Entries that share nothing.                                             *)

Class(i) == Of(config.keys[i]).type

(* What the first k creates have left behind: entry i has the server of    *)
(* its class, and nothing that came later took it over.                    *)
Serves(i) ==
  LET n == config.keys[i] IN
    /\ Class(i) \in Classes
    /\ registry[i] = Class(i)
    /\ name[Class(i)] = n /\ options[Class(i)] = n /\ injector[n] = Class(i)
    /\ framework[Class(i)] = Of(n).framework
    /\ app[AppOf(Class(i), Of(n).framework)] = Wanted(n)

OneEach ==
  /\ IsInjective(config.keys)
  /\ loads = 0 <=> status = "idle"
  /\ status = "idle" => registry = <<>> /\ \A c \in Classes : ~prepared[c]
  /\ status = "loaded" => pos = Len(config.keys) + 1
  /\ status # "idle" => Len(registry) = pos - 1
  /\ status # "idle" => \A i \in 1 .. pos - 1 : Serves(i)
  /\ status = "loading" =>
       \A c \in Classes : prepared[c] => \E i \in 1 .. pos - 1 : c = Class(i)

LEMMA OneEachInit == Init => OneEach
<1> SUFFICES ASSUME Init PROVE OneEach
  OBVIOUS
<1>1. IsInjective(config.keys)
  <2>1. PICK N \in SUBSET Names : \E k \in KeysOf(N), e \in [N -> Entry] :
          config = [keys |-> k, entry |-> [n \in Names |-> IF n \in N THEN e[n] ELSE NoEntry]]
    BY DEF Init
  <2> QED
    BY <2>1 DEF KeysOf
<1> QED
  BY <1>1 DEF Init, OneEach

(* The class and the framework of the next entry are nobody else's.        *)
LEMMA KeyApart ==
  ASSUME TypeOK, Apart, OneEach, status = "loading", Of(Key).type \in Classes,
         NEW i \in 1 .. pos - 1
  PROVE  /\ config.keys[i] # Key
         /\ Class(i) # Of(Key).type
         /\ AppOf(Class(i), Of(config.keys[i]).framework) # AppOf(Of(Key).type, Of(Key).framework)
<1>1. pos \in 1 .. Len(config.keys) /\ i \in 1 .. Len(config.keys) /\ i # pos
  BY KeyType DEF TypeOK
<1>2. config.keys[i] # Key
  BY <1>1 DEF OneEach, IsInjective, Key, TypeOK
<1>3. config.keys[i] \in Range(config.keys) /\ Key \in Range(config.keys)
  BY <1>1 DEF Range, Key, TypeOK
<1>4. Class(i) \in Classes
  BY DEF OneEach, Serves
<1>5. Class(i) # Of(Key).type
  BY <1>2, <1>3, RegistryAssumption DEF OneEach, Apart, Class, Of
<1>6. ~(Of(config.keys[i]).framework = "express" /\ Of(Key).framework = "express")
  BY <1>2, <1>3 DEF OneEach, Apart, Of
<1> QED
  BY <1>2, <1>4, <1>5, <1>6, RegistryAssumption DEF AppOf

LEMMA OneEachNext ==
  ASSUME MaxLoads = 1, TypeOK, Apart, OneEach, [Next]_vars
  PROVE  OneEach'
<1> USE DEF objects, loading
<1>1. CASE Load
  <2>1. status = "idle" /\ registry' = <<>> /\ pos' = 1 /\ loads' = 1
    BY <1>1 DEF Load, OneEach, TypeOK
  <2> QED
    BY <1>1, <2>1 DEF Load, OneEach, TypeOK
<1>2. CASE CreateWithoutClass
  BY <1>2 DEF CreateWithoutClass, Rejected, OneEach, Serves, Class, Wanted, Of
<1>3. ASSUME NEW c \in Classes, CreatePrepared(c) PROVE FALSE
  <2>1. PICK i \in 1 .. pos - 1 : c = Class(i)
    BY <1>3 DEF CreatePrepared, OneEach
  <2> QED
    BY <1>3, <2>1, KeyApart DEF CreatePrepared
<1>4. ASSUME NEW c \in Classes, CreateWithoutFramework(c) PROVE OneEach'
  <2>1. /\ config' = config /\ status' = "failed" /\ pos' = pos /\ loads' = loads
        /\ registry' = registry /\ framework' = framework /\ app' = app
        /\ status = "loading" /\ Of(Key).type = c
    BY <1>4 DEF CreateWithoutFramework, Rejected
  <2>2. ASSUME NEW i \in 1 .. pos - 1 PROVE Serves(i)'
    <3>1. Serves(i)
      BY <2>1 DEF OneEach
    <3>2. config.keys[i] # Key /\ Class(i) # c
      BY <2>1, KeyApart
    <3>3. name'[Class(i)] = name[Class(i)] /\ options'[Class(i)] = options[Class(i)]
      BY <1>4, <3>1, <3>2 DEF CreateWithoutFramework, Adopt, TypeOK, Serves
    <3>4. config.keys[i] \in Names
      BY <2>1, KeyType DEF TypeOK
    <3>5. injector'[config.keys[i]] = injector[config.keys[i]]
      BY <1>4, <3>2, <3>4 DEF CreateWithoutFramework, Adopt, TypeOK
    <3> QED
      BY <2>1, <3>1, <3>3, <3>5 DEF Serves, Class, Of, Wanted
  <2> QED
    BY <2>1, <2>2 DEF OneEach
<1>5. ASSUME NEW c \in Classes, CreateMounting(c) PROVE OneEach'
  <2>0. PICK n \in Names, p \in 1 .. Len(config.keys) : n = Key /\ p = pos
    BY <1>5, KeyType DEF CreateMounting
  <2>f. PICK f \in Classes \cup {Express} : f = AppOf(c, Of(n).framework)
    BY DEF AppOf
  <2>1. PICK k \in 0 .. Len(Of(n).routes) :
          /\ app' = [app EXCEPT ![f] = RoutesOf(n, k)]
          /\ \/ Registered(c) /\ k = Len(Of(n).routes)
             \/ Rejected
    BY <1>5, <2>0, <2>f, MountingCases
  <2>2. /\ config' = config /\ status = "loading" /\ Of(n).type = c /\ loads' = loads
        /\ Adopt(c, n)
        /\ prepared' = [prepared EXCEPT ![c] = TRUE]
        /\ framework' = [framework EXCEPT ![c] = Of(n).framework]
    BY <1>5, <2>0, <2>1 DEF CreateMounting, Registered, Rejected
  <2>3. pos \in 1 .. Len(config.keys) /\ n \in Names /\ Len(registry) = pos - 1
    BY <2>0, <2>2 DEF OneEach
  <2>4. ASSUME NEW i \in 1 .. pos - 1, registry'[i] = registry[i] PROVE Serves(i)'
    <3>1. Serves(i)
      BY <2>2 DEF OneEach
    <3> DEFINE m == config.keys[i]
               d == Class(i)
    <3>2. m # n /\ d # c /\ AppOf(d, Of(m).framework) # f
      BY <2>0, <2>f, <2>2, KeyApart
    <3>3. d \in Classes /\ m \in Names
      BY <2>3, <3>1 DEF Serves, TypeOK
    <3>4. name'[d] = name[d] /\ options'[d] = options[d] /\ injector'[m] = injector[m]
      BY <2>2, <3>2, <3>3 DEF Adopt, TypeOK
    <3>5. framework'[d] = framework[d]
      BY <2>2, <3>2, <3>3 DEF TypeOK
    <3>6. app'[AppOf(d, Of(m).framework)] = app[AppOf(d, Of(m).framework)]
      BY <2>1, <3>2, <3>3 DEF TypeOK, AppOf
    <3> QED
      BY <2>2, <2>4, <3>1, <3>4, <3>5, <3>6 DEF Serves, Class, Of, Wanted
  <2>5. ASSUME Registered(c), k = Len(Of(n).routes) PROVE OneEach'
    <3>1. /\ registry' = Append(registry, c) /\ pos' = pos + 1
          /\ status' = IF pos = Len(config.keys) THEN "loaded" ELSE "loading"
      BY <2>5 DEF Registered
    <3>2. /\ Len(registry') = pos' - 1 /\ registry'[pos] = c
          /\ \A i \in 1 .. pos - 1 : registry'[i] = registry[i]
      BY <2>3, <3>1 DEF TypeOK
    <3>3. Serves(p)'
      <4>1. Class(p)' = c /\ config'.keys[p] = n /\ Of(n)' = Of(n) /\ Wanted(n)' = RoutesOf(n, k)
        BY <2>0, <2>2, <2>5 DEF Class, Of, Key, Wanted, RoutesOf
      <4>2. name'[c] = n /\ options'[c] = n /\ injector'[n] = c /\ framework'[c] = Of(n).framework
        BY <2>2, <2>3 DEF Adopt, TypeOK
      <4>3. app'[f] = RoutesOf(n, k)
        BY <2>1 DEF TypeOK
      <4> QED
        BY <2>0, <2>f, <3>2, <4>1, <4>2, <4>3 DEF Serves
    <3>4. \A i \in 1 .. pos' - 1 : Serves(i)'
      <4>1. ASSUME NEW i \in 1 .. p PROVE Serves(i)'
        <5>1. CASE i = p
          BY <3>3, <5>1
        <5>2. CASE i # p
          BY <2>0, <2>4, <3>2, <5>2
        <5> QED
          BY <5>1, <5>2
      <4> QED
        BY <2>0, <3>1, <4>1
    <3>5. \A d \in Classes : prepared'[d] => \E i \in 1 .. pos' - 1 : d = Class(i)'
      <4>1. \A i \in 1 .. p : Class(i)' = Class(i)
        BY <2>2 DEF Class, Of
      <4>2. Class(p) = c
        BY <2>0, <2>2 DEF Class, Key
      <4>3. ASSUME NEW d \in Classes, prepared'[d] PROVE \E i \in 1 .. p : d = Class(i)'
        <5>1. CASE d = c
          BY <4>1, <4>2, <5>1
        <5>2. CASE d # c
          <6>1. prepared[d]
            BY <2>2, <4>3, <5>2 DEF TypeOK
          <6>2. PICK i \in 1 .. pos - 1 : d = Class(i)
            BY <2>2, <6>1 DEF OneEach
          <6> QED
            BY <2>0, <4>1, <6>2
        <5> QED
          BY <5>1, <5>2
      <4> QED
        BY <2>0, <3>1, <4>3
    <3> QED
      BY <2>2, <2>3, <3>1, <3>2, <3>4, <3>5 DEF OneEach
  <2>6. ASSUME Rejected PROVE OneEach'
    <3>1. status' = "failed" /\ registry' = registry /\ pos' = pos
      BY <2>6 DEF Rejected
    <3> QED
      BY <2>2, <2>3, <2>4, <3>1 DEF OneEach
  <2> QED
    BY <2>1, <2>5, <2>6
<1>6. CASE UNCHANGED vars
  BY <1>6 DEF vars, OneEach, Serves, Class, Wanted, Of
<1> QED
  BY <1>1, <1>2, <1>3, <1>4, <1>5, <1>6 DEF Next

LEMMA OneEachCorrect ==
  ASSUME MaxLoads = 1
  PROVE  Spec => [](Apart => OneEach)
<1> DEFINE Inv == Apart => OneEach
<1>1. Init => Inv
  BY OneEachInit
<1>2. TypeOK /\ Inv /\ [Next]_vars => Inv'
  <2> SUFFICES ASSUME TypeOK, Inv, [Next]_vars, Apart' PROVE OneEach'
    OBVIOUS
  <2>1. config' = config
    BY DEF Next, vars, Load, CreateWithoutClass, CreatePrepared, CreateWithoutFramework, CreateMounting
  <2>2. Apart
    BY <2>1 DEF Apart, Of
  <2> QED
    BY <2>2, OneEachNext
<1> QED
  BY <1>1, <1>2, TypeCorrect, PTL DEF Spec

(* What get finds of the entries that have been created so far.            *)
LEMMA GetServed ==
  ASSUME TypeOK, OneEach, status # "idle", NEW i \in 1 .. pos - 1
  PROVE  /\ i \in DOMAIN registry /\ i \in DOMAIN config.keys /\ get(config.keys[i]) = registry[i]
         /\ Serves(i) /\ Mounted(get(config.keys[i])) = Wanted(config.keys[i])
<1> DEFINE n == config.keys[i]
<1>1. DOMAIN registry = 1 .. pos - 1 /\ 1 .. pos - 1 \subseteq DOMAIN config.keys
  BY DEF OneEach, TypeOK
<1>2. \A j \in 1 .. pos - 1 : Serves(j)
  BY DEF OneEach
<1>3. \A j \in 1 .. pos - 1 : name[registry[j]] = config.keys[j]
  BY <1>2 DEF Serves
<1>4. \A j \in 1 .. pos - 1 : config.keys[j] = n => j = i
  BY <1>1 DEF OneEach, IsInjective
<1>5. Found(n) = {i}
  BY <1>1, <1>3, <1>4 DEF Found
<1>6. (CHOOSE a \in {i} : \A b \in {i} : a <= b) = i
  BY <1>1
<1>7. get(n) = registry[i]
  BY <1>5, <1>6 DEF get
<1> QED
  BY <1>1, <1>2, <1>7 DEF Serves, Mounted

(* ApartEntriesServed: when no two entries name the same class and only    *)
(* one uses express, a load that succeeds has given every key of the       *)
(* configuration a server of its own (ServerRegistry.ts:23-46).            *)
THEOREM ApartEntriesServedCorrect ==
  ASSUME MaxLoads = 1
  PROVE  Spec => []ApartEntriesServed
<1>1. TypeOK /\ OneEach => EntriesServed
  <2> SUFFICES ASSUME TypeOK, OneEach, status = "loaded", NEW i \in DOMAIN config.keys
               PROVE  LET n == config.keys[i]
                          c == get(n)
                      IN c # NoClass /\ injector[n] = c /\ options[c] = n /\ Mounted(c) = Wanted(n)
    BY DEF EntriesServed, Range
  <2>1. i \in 1 .. pos - 1
    BY DEF OneEach, TypeOK
  <2> QED
    BY <2>1, GetServed, RegistryAssumption DEF Serves
<1>2. TypeOK /\ (Apart => OneEach) => ApartEntriesServed
  BY <1>1 DEF ApartEntriesServed
<1> QED
  BY <1>2, TypeCorrect, OneEachCorrect, PTL

-----------------------------------------------------------------------------
(* ServerRegistry implements ServerDirectory.                              *)

Configured == IF Apart THEN [n \in Range(config.keys) |-> Wanted(n)] ELSE <<>>
Served     == IF Apart THEN [n \in Range(getInstanceNames) |-> Mounted(get(n))] ELSE <<>>
LoadIsOver == status \in {"loaded", "failed"}

(* The directory has the entries that load is done with.                   *)
Done        == IF status = "idle" THEN 0 ELSE pos - 1
ServedOf(k) == [n \in {config.keys[i] : i \in 1 .. k} |-> Wanted(n)]

ServedSoFar == Apart => OneEach /\ Served = ServedOf(Done)

LEMMA OneEachServed ==
  TypeOK /\ (Apart => OneEach) => ServedSoFar
<1> SUFFICES ASSUME TypeOK, Apart, OneEach PROVE Served = ServedOf(Done)
  BY DEF ServedSoFar
<1>1. CASE status = "idle"
  <2>1. Range(getInstanceNames) = {}
    BY <1>1 DEF OneEach, Range, getInstanceNames
  <2> QED
    BY <1>1, <2>1 DEF Served, ServedOf, Done
<1>2. CASE status # "idle"
  <2>1. DOMAIN registry = 1 .. pos - 1
    BY <1>2 DEF OneEach, TypeOK
  <2>2. \A i \in 1 .. pos - 1 : getInstanceNames[i] = config.keys[i]
    BY <1>2, <2>1, GetServed DEF Serves, getInstanceNames
  <2>3. Range(getInstanceNames) = {config.keys[i] : i \in 1 .. pos - 1}
    BY <2>1, <2>2 DEF Range, getInstanceNames
  <2>4. \A n \in {config.keys[i] : i \in 1 .. pos - 1} : Mounted(get(n)) = Wanted(n)
    BY <1>2, GetServed
  <2> QED
    BY <1>2, <2>3, <2>4 DEF Served, ServedOf, Done
<1> QED
  BY <1>1, <1>2

LEMMA WantedType ==
  ASSUME TypeOK, NEW n \in Range(config.keys)
  PROVE  n \in Names /\ Wanted(n) \in Seq(Route)
<1>1. n \in Names
  BY DEF TypeOK, Range
<1>2. Of(n) \in Entry
  BY <1>1 DEF TypeOK, Of
<1> QED
  BY <1>1, <1>2, EntryRoutes, RoutesOfType DEF Wanted

(* The steps of load, which is called once.                                *)
LEMMA LoadSteps ==
  ASSUME MaxLoads = 1, TypeOK, FailureIsLast, Next
  PROVE  /\ ~LoadIsOver /\ config' = config
         /\ \/ status = "idle" /\ pos' = 1 /\ status' \in {"loading", "loaded"}
            \/ status = "loading" /\ Rejected
            \/ status = "loading" /\ \E c \in Classes : Registered(c)
<1>1. CASE Load
  BY <1>1 DEF Load, FailureIsLast, TypeOK, LoadIsOver
<1>2. ASSUME NEW c \in Classes, CreateMounting(c) PROVE Registered(c) \/ Rejected
  BY <1>2, MountingCases
<1> QED
  BY <1>1, <1>2 DEF Next, CreateWithoutClass, CreatePrepared, CreateWithoutFramework, CreateMounting, LoadIsOver

(* One more entry is done with: it is registered.                          *)
LEMMA OneMore ==
  ASSUME TypeOK, OneEach, status = "loading", config' = config
  PROVE  /\ Key \in Range(config.keys) /\ Key \notin DOMAIN ServedOf(pos - 1)
         /\ ServedOf(pos) = [m \in DOMAIN ServedOf(pos - 1) \cup {Key} |->
                              IF m = Key THEN Wanted(Key) ELSE ServedOf(pos - 1)[m]]
<1> PICK p : p = pos
  OBVIOUS
<1>1. p \in 1 .. Len(config.keys) /\ Key = config.keys[p] /\ 1 .. p = (1 .. p - 1) \cup {p}
  BY KeyType DEF Key
<1>2. Key \in Range(config.keys)
  BY <1>1 DEF TypeOK, Range
<1>3. DOMAIN ServedOf(p - 1) = {config.keys[i] : i \in 1 .. p - 1} /\ DOMAIN ServedOf(p) = {config.keys[i] : i \in 1 .. p}
  BY DEF ServedOf
<1>4. ASSUME NEW i \in 1 .. p - 1 PROVE config.keys[i] # Key
  <2>1. i \in DOMAIN config.keys /\ p \in DOMAIN config.keys /\ i # p
    BY <1>1 DEF TypeOK
  <2> QED
    BY <1>1, <2>1 DEF OneEach, IsInjective
<1>5. DOMAIN ServedOf(p) = DOMAIN ServedOf(p - 1) \cup {Key}
  BY <1>1, <1>3
<1>6. Key \notin DOMAIN ServedOf(p - 1)
  BY <1>3, <1>4
<1>7. \A m \in DOMAIN ServedOf(p - 1) : ServedOf(p - 1)[m] = Wanted(m)
  BY DEF ServedOf
<1>8. ServedOf(p) = [m \in DOMAIN ServedOf(p) |-> Wanted(m)]
  BY DEF ServedOf
<1> QED
  BY <1>2, <1>5, <1>6, <1>7, <1>8

(* One step of load over an entry registers it, or gives up.               *)
LEMMA DirectoryStep ==
  ASSUME MaxLoads = 1, TypeOK, FailureIsLast, ServedSoFar, ServedSoFar', Next
  PROVE  Directory!Next \/ UNCHANGED <<Configured, Served, LoadIsOver>>
<1>1. /\ ~LoadIsOver /\ config' = config
      /\ \/ status = "idle" /\ pos' = 1 /\ status' \in {"loading", "loaded"}
         \/ status = "loading" /\ Rejected
         \/ status = "loading" /\ \E c \in Classes : Registered(c)
  BY LoadSteps
<1>2. Apart' = Apart /\ Configured' = Configured /\ \A k : ServedOf(k)' = ServedOf(k)
  BY <1>1 DEF Apart, Of, Configured, Wanted, RoutesOf, ServedOf
<1>3. ASSUME Served' = Served PROVE Directory!Next \/ UNCHANGED <<Configured, Served, LoadIsOver>>
  BY <1>1, <1>2, <1>3 DEF Directory!Next, Directory!GiveUp, Configured, Served, LoadIsOver
<1>4. CASE ~Apart
  BY <1>2, <1>3, <1>4 DEF Served
<1>5. CASE Apart
  <2>1. OneEach /\ Served = ServedOf(Done)
    BY <1>5 DEF ServedSoFar
  <2>2. Served' = ServedOf(Done)'
    BY <1>2, <1>5 DEF ServedSoFar
  <2>3. Served' = ServedOf(Done')
    BY <1>1, <2>2 DEF ServedOf, Wanted, Of, RoutesOf
  <2>4. CASE Done' = Done
    BY <1>3, <2>1, <2>3, <2>4
  <2>5. CASE Done' # Done
    <3>1. status = "loading" /\ Done = pos - 1 /\ Done' = pos /\ LoadIsOver' \in BOOLEAN
      <4>1. CASE status = "idle" /\ pos' = 1 /\ status' \in {"loading", "loaded"}
        BY <2>5, <4>1 DEF Done
      <4>2. CASE status = "loading" /\ Rejected
        BY <2>5, <4>2 DEF Done, Rejected
      <4>3. CASE status = "loading" /\ \E c \in Classes : Registered(c)
        <5>1. pos \in Nat /\ pos' = pos + 1 /\ status' # "idle"
          BY <4>3 DEF Registered, TypeOK
        <5> QED
          BY <4>3, <5>1 DEF Done, LoadIsOver
      <4> QED
        BY <1>1, <4>1, <4>2, <4>3
    <3>2. /\ Key \in Range(config.keys) /\ Key \notin DOMAIN Served
          /\ Served' = [m \in DOMAIN Served \cup {Key} |-> IF m = Key THEN Wanted(Key) ELSE Served[m]]
      BY <1>1, <1>5, <2>1, <2>3, <3>1, OneMore
    <3>3. Configured = [n \in Range(config.keys) |-> Wanted(n)]
      BY <1>5 DEF Configured
    <3>4. PICK n : n = Key
      OBVIOUS
    <3>5. /\ n \in DOMAIN Configured \ DOMAIN Served /\ Configured' = Configured
          /\ Served' = [m \in DOMAIN Served \cup {n} |-> IF m = n THEN Configured[n] ELSE Served[m]]
      BY <1>2, <3>2, <3>3, <3>4
    <3>6. Directory!Register(n)
      BY <1>1, <3>1, <3>5 DEF Directory!Register, Configured, Served, LoadIsOver
    <3> QED
      BY <3>5, <3>6 DEF Directory!Next, Configured
  <2> QED
    BY <2>4, <2>5
<1> QED
  BY <1>4, <1>5

(* ImplementsDirectory: when the entries share nothing, load registers the *)
(* entries of the configuration one at a time, each with its routes, until *)
(* it is done or gives up, and changes none that it has registered         *)
(* (ServerRegistry.ts:23-58).                                              *)
THEOREM ImplementsDirectoryCorrect ==
  ASSUME MaxLoads = 1
  PROVE  Spec => ImplementsDirectory
<1>1. TypeOK /\ Init => Directory!Init
  <2> SUFFICES ASSUME TypeOK, Init PROVE Directory!Init
    OBVIOUS
  <2>1. Served = <<>> /\ ~LoadIsOver
    BY DEF Init, Served, getInstanceNames, Range, LoadIsOver
  <2>2. DOMAIN Configured \subseteq Names /\ \A n \in DOMAIN Configured : Configured[n] \in Seq(Route)
    BY WantedType DEF Configured
  <2> QED
    BY <2>1, <2>2 DEF Directory!Init, Configured, Served, LoadIsOver
<1>2. TypeOK /\ FailureIsLast /\ ServedSoFar /\ ServedSoFar' /\ [Next]_vars => [Directory!Next]_(Directory!vars)
  <2> SUFFICES ASSUME TypeOK, FailureIsLast, ServedSoFar, ServedSoFar', [Next]_vars
               PROVE  Directory!Next \/ UNCHANGED <<Configured, Served, LoadIsOver>>
    BY DEF Directory!vars, Configured, Served, LoadIsOver
  <2>1. CASE Next
    BY <2>1, DirectoryStep
  <2>2. CASE UNCHANGED vars
    BY <2>2 DEF vars, objects, loading, Configured, Served, LoadIsOver, Apart, Of, Wanted, RoutesOf,
                getInstanceNames, get, Found, Mounted, AppOf
  <2> QED
    BY <2>1, <2>2
<1> QED
  BY <1>1, <1>2, TypeCorrect, FailureIsLastCorrect, OneEachCorrect, OneEachServed, PTL
  DEF Spec, ImplementsDirectory, Directory!Spec

-----------------------------------------------------------------------------
(* The command leaves the servers to load, and load to the bootstrap.      *)
LEMMA CommandLoads == CommandSpec => Spec
<1>1. CommandInit => Init
  BY DEF CommandInit
<1>2. [CommandNext]_AllVars => [Next]_vars
  BY DEF CommandNext, AllVars, Bootstrap, Booted, Handle, Started, NotStarted, StartRejected, StartHangs
<1> QED
  BY <1>1, <1>2, PTL DEF CommandSpec, Spec

-----------------------------------------------------------------------------
(* What get answers.                                                       *)

LEMMA LeastPlace ==
  ASSUME NEW S \in SUBSET Nat, S # {}
  PROVE  \E i \in S : \A j \in S : i <= j
<1> DEFINE Less == OpToRel(<, Nat)
<1>1. IsWellFoundedOn(Less, Nat)
  BY NatLessThanWellFounded, Zenon
<1>2. Less = {ss \in Nat \X Nat : ss[1] < ss[2]}
  BY Zenon DEF OpToRel
<1> HIDE DEF Less
<1>3. \E i \in S : \A j \in S : ~(<<j, i>> \in Less)
  BY <1>1, WFMin, Zenon
<1>4. ASSUME NEW i \in S, NEW j \in S, ~(<<j, i>> \in Less) PROVE i <= j
  <2>1. ~(j < i)
    BY <1>2, <1>4
  <2> QED
    BY <2>1
<1> QED
  BY <1>3, <1>4

LEMMA GetFinds ==
  ASSUME TypeOK, NEW n, get(n) # NoClass
  PROVE  get(n) \in Classes /\ \E i \in DOMAIN registry : get(n) = registry[i] /\ name[registry[i]] = n
<1> DEFINE F == Found(n)
<1>1. F # {} /\ F \in SUBSET Nat /\ \A i \in F : i \in DOMAIN registry /\ name[registry[i]] = n
  <2>1. F # {}
    BY DEF get
  <2>2. DOMAIN registry \subseteq Nat
    BY DEF TypeOK
  <2> QED
    BY <2>1, <2>2 DEF Found
<1> HIDE DEF F
<1>2. PICK i \in F : i = CHOOSE a \in F : \A b \in F : a <= b
  BY <1>1, LeastPlace
<1>3. get(n) = registry[i]
  BY <1>1, <1>2 DEF get, F
<1>4. registry[i] \in Classes
  <2>1. registry \in Seq(Classes) /\ i \in DOMAIN registry
    BY <1>1 DEF TypeOK
  <2> QED
    BY <2>1
<1> QED
  BY <1>1, <1>2, <1>3, <1>4

-----------------------------------------------------------------------------
(* The command comes after the bootstrap and starts one server at most.    *)

CommandInv ==
  /\ cmd \in {"booting", "handling", "starting", "serving", "done", "rejected", "hanging"}
  /\ cmd \in {"booting", "handling", "starting"} => running = [c \in Classes |-> NoName]
  /\ cmd \in {"handling", "starting", "serving"} => status = "loaded"
  /\ cmd = "starting" => Target # NoClass

LEMMA CommandInvCorrect == CommandSpec => []CommandInv
<1>1. CommandInit => CommandInv
  BY DEF CommandInit, CommandInv
<1>2. CommandInv /\ [CommandNext]_AllVars => CommandInv'
  <2> SUFFICES ASSUME CommandInv, [CommandNext]_AllVars PROVE CommandInv'
    OBVIOUS
  <2> USE DEF CommandInv
  <2>1. ASSUME UNCHANGED <<vars, arg, next>> PROVE Target' = Target /\ status' = status
    BY <2>1 DEF Target, Queue, get, Found, getInstanceNames, vars, objects, loading
  <2>2. CASE Bootstrap
    BY <2>2 DEF Bootstrap, cvars
  <2>3. CASE Booted
    BY <2>1, <2>3 DEF Booted
  <2>4. CASE Handle
    BY <2>1, <2>4 DEF Handle
  <2>5. CASE Started
    BY <2>5 DEF Started, vars, loading
  <2>6. CASE NotStarted \/ StartRejected \/ StartHangs
    BY <2>1, <2>6 DEF NotStarted, AfterNotStarted, StartRejected, StartHangs, vars, loading
  <2>7. CASE UNCHANGED AllVars
    BY <2>1, <2>7 DEF AllVars, cvars
  <2> QED
    BY <2>2, <2>3, <2>4, <2>5, <2>6, <2>7 DEF CommandNext
<1> QED
  BY <1>1, <1>2, PTL DEF CommandSpec

(* The calls of start() are those that the queue of the command asks for,  *)
(* up to where the command is in it.                                       *)
CallsInv ==
  /\ next \in Nat \ {0} /\ started \in Seq(Classes)
  /\ cmd = "booting" => next = 1 /\ started = <<>>
  /\ cmd = "handling" => Len(started) = next - 1 /\ next <= Len(Queue) + 1
  /\ cmd = "starting" => Len(started) = next /\ next <= Len(Queue)
  /\ cmd = "done" => Len(started) = Len(Queue)
  /\ cmd # "booting" => Len(started) <= Len(Queue)
  /\ cmd = "done" \/ started # <<>> => status = "loaded"
  /\ \A i \in 1 .. Len(started) : started[i] = get(Queue[i])

LEMMA CallsInvCorrect == CommandSpec => []CallsInv
<1>1. CommandInit => CallsInv
  BY DEF CommandInit, CallsInv
<1>2. TypeOK /\ CommandInv /\ CallsInv /\ [CommandNext]_AllVars => CallsInv'
  <2> SUFFICES ASSUME TypeOK, CommandInv, CallsInv, [CommandNext]_AllVars PROVE CallsInv'
    OBVIOUS
  <2>1. ASSUME UNCHANGED <<vars, arg>>
        PROVE  Queue' = Queue /\ status' = status /\ \A n : get(n)' = get(n)
    BY <2>1 DEF Queue, get, Found, getInstanceNames, vars, objects, loading
  <2>2. Len(Queue) \in Nat
    BY DEF Queue, getInstanceNames, TypeOK
  <2>3. CASE Bootstrap
    BY <2>3 DEF Bootstrap, cvars, CallsInv
  <2>4. CASE Booted
    <3>1. UNCHANGED <<vars, arg, next, started>> /\ cmd = "booting" /\ cmd' \in {"handling", "rejected"}
      BY <2>4 DEF Booted
    <3> QED
      BY <2>1, <2>2, <3>1 DEF CallsInv
  <2>5. CASE Handle
    <3>1. UNCHANGED <<vars, arg, next>> /\ cmd = "handling" /\ Queue' = Queue /\ status' = "loaded" /\ status = "loaded"
      BY <2>1, <2>5 DEF Handle, CommandInv
    <3>2. CASE next > Len(Queue) /\ cmd' = "done" /\ UNCHANGED started
      BY <2>1, <2>2, <3>1, <3>2 DEF CallsInv
    <3>3. CASE next <= Len(Queue) /\ cmd' = "rejected" /\ UNCHANGED started
      BY <2>1, <2>2, <3>1, <3>3 DEF CallsInv
    <3>4. CASE next <= Len(Queue) /\ Target # NoClass /\ cmd' = "starting" /\ started' = Append(started, Target)
      <4>1. Target \in Classes /\ Target = get(Queue[next])
        BY <3>4, GetFinds DEF Target
      <4>2. /\ started' \in Seq(Classes) /\ Len(started') = next
            /\ \A i \in 1 .. Len(started') : started'[i] = get(Queue[i])
        BY <3>1, <3>4, <4>1 DEF CallsInv
      <4> QED
        BY <2>1, <2>2, <3>1, <3>4, <4>2 DEF CallsInv
    <3> QED
      BY <2>5, <3>2, <3>3, <3>4 DEF Handle
  <2>6. CASE Started
    <3>1. UNCHANGED <<vars, arg, next, started>> /\ cmd = "starting" /\ cmd' = "serving"
      BY <2>6 DEF Started
    <3> QED
      BY <2>1, <2>2, <3>1 DEF CallsInv
  <2>7. CASE NotStarted
    <3>1. UNCHANGED <<vars, arg, started>> /\ cmd = "starting" /\ cmd' = "handling" /\ next' = next + 1
      BY <2>7 DEF NotStarted, AfterNotStarted
    <3> QED
      BY <2>1, <2>2, <3>1 DEF CallsInv
  <2>8. CASE StartRejected \/ StartHangs
    <3>1. UNCHANGED <<vars, arg, next, started>> /\ cmd = "starting" /\ cmd' \in {"rejected", "hanging"}
      BY <2>8 DEF StartRejected, StartHangs
    <3> QED
      BY <2>1, <2>2, <3>1 DEF CallsInv
  <2>9. CASE UNCHANGED AllVars
    BY <2>1, <2>9 DEF AllVars, cvars, CallsInv
  <2> QED
    BY <2>3, <2>4, <2>5, <2>6, <2>7, <2>8, <2>9 DEF CommandNext
<1> QED
  BY <1>1, <1>2, CommandInvCorrect, CommandLoads, TypeCorrect, PTL DEF CommandSpec

(* After a load of entries that share nothing, each name leads to the one  *)
(* server at its own place.                                                *)
LEMMA EachItsServer ==
  ASSUME TypeOK, Apart, OneEach, status = "loaded"
  PROVE  /\ IsInjective(registry)
         /\ Len(getInstanceNames) = Len(registry)
         /\ \A i \in DOMAIN registry : get(getInstanceNames[i]) = registry[i]
<1>1. DOMAIN registry = 1 .. pos - 1
  BY DEF OneEach, TypeOK
<1>2. ASSUME NEW i \in DOMAIN registry
      PROVE  /\ i \in DOMAIN config.keys /\ Serves(i) /\ get(getInstanceNames[i]) = registry[i]
             /\ registry[i] = Of(config.keys[i]).type /\ registry[i] \in Classes
  <2>1. /\ i \in DOMAIN config.keys /\ Serves(i) /\ get(config.keys[i]) = registry[i]
    BY <1>1, GetServed
  <2>2. getInstanceNames[i] = config.keys[i]
    BY <2>1 DEF getInstanceNames, Serves
  <2> QED
    BY <2>1, <2>2 DEF Serves, Class
<1>3. ASSUME NEW i \in DOMAIN registry, NEW j \in DOMAIN registry, registry[i] = registry[j]
      PROVE  i = j
  <2>1. config.keys[i] \in Range(config.keys) /\ config.keys[j] \in Range(config.keys)
    BY <1>2 DEF Range
  <2>2. config.keys[i] = config.keys[j]
    BY <1>2, <1>3, <2>1, RegistryAssumption DEF Apart
  <2> QED
    BY <1>2, <2>2 DEF OneEach, IsInjective
<1> QED
  BY <1>2, <1>3 DEF IsInjective, getInstanceNames, TypeOK

(* StartsEachOnce: when the entries share nothing, each server is started  *)
(* once at most and, without a name, all are tried in the order of the     *)
(* registry, those after one that does not start included                  *)
(* (ServerCommand.ts:22-46).                                               *)
THEOREM StartsEachOnceCorrect ==
  ASSUME MaxLoads = 1
  PROVE  CommandSpec => []StartsEachOnce
<1>1. TypeOK /\ CallsInv /\ (Apart => OneEach) => StartsEachOnce
  <2> SUFFICES ASSUME TypeOK, CallsInv, Apart, OneEach
               PROVE  /\ IsInjective(started)
                      /\ arg = NoName => IsPrefix(started, registry) /\ (cmd = "done" => started = registry)
    BY DEF StartsEachOnce
  <2>1. started \in Seq(Classes) /\ registry \in Seq(Classes) /\ DOMAIN started = 1 .. Len(started)
    BY DEF CallsInv, TypeOK
  <2>2. CASE arg # NoName
    <3>1. Len(started) <= 1
      BY <2>2 DEF CallsInv, Queue
    <3> QED
      BY <2>1, <2>2, <3>1 DEF IsInjective
  <2>3. CASE arg = NoName
    <3>1. CASE status # "loaded"
      <4>1. started = <<>> /\ cmd # "done"
        BY <3>1 DEF CallsInv
      <4> QED
        BY <2>1, <4>1 DEF IsInjective, IsPrefix
    <3>2. CASE status = "loaded"
      <4>1. Queue = getInstanceNames /\ Len(Queue) = Len(registry) /\ DOMAIN registry = 1 .. Len(registry)
        BY <2>1, <2>3, <3>2, EachItsServer DEF Queue
      <4>2. Len(started) <= Len(registry) /\ (cmd = "done" => Len(started) = Len(registry))
        <5>1. CASE cmd = "booting"
          BY <2>1, <5>1 DEF CallsInv
        <5> QED
          BY <4>1, <5>1 DEF CallsInv
      <4>3. \A i \in 1 .. Len(started) : i \in DOMAIN registry /\ started[i] = registry[i]
        <5>1. ASSUME NEW i \in 1 .. Len(started) PROVE i \in DOMAIN registry /\ started[i] = get(getInstanceNames[i])
          <6>1. Len(started) \in Nat /\ Len(registry) \in Nat
            BY <2>1
          <6>2. i \in DOMAIN registry
            BY <4>1, <4>2, <6>1
          <6>3. started[i] = get(Queue[i])
            BY DEF CallsInv
          <6> QED
            BY <4>1, <6>2, <6>3
        <5> QED
          BY <3>2, <5>1, EachItsServer
      <4>4. IsInjective(started)
        BY <2>1, <3>2, <4>3, EachItsServer DEF IsInjective
      <4>5. SubSeq(started, 1, Len(started)) = SubSeq(registry, 1, Len(started))
        BY <2>1, <4>2, <4>3
      <4>6. cmd = "done" => started = registry
        BY <2>1, <4>2, <4>3
      <4> QED
        BY <4>2, <4>4, <4>5, <4>6 DEF IsPrefix
    <3> QED
      BY <3>1, <3>2
  <2> QED
    BY <2>2, <2>3
<1> QED
  BY <1>1, CallsInvCorrect, CommandLoads, TypeCorrect, OneEachCorrect, PTL

(* RunsAsConfigured: when the entries share nothing, what runs under a name*)
(* serves the routes that are configured for it (ServerCommand.ts:22-34).  *)
THEOREM RunsAsConfiguredCorrect ==
  ASSUME MaxLoads = 1
  PROVE  CommandSpec => []RunsAsConfigured
<1>1. CommandInit => RunsAsConfigured
  BY DEF CommandInit, RunsAsConfigured
<1>2. TypeOK /\ CommandInv /\ (Apart => OneEach) /\ RunsAsConfigured /\ [CommandNext]_AllVars => RunsAsConfigured'
  <2> SUFFICES ASSUME TypeOK, CommandInv, Apart => OneEach, RunsAsConfigured, [CommandNext]_AllVars
               PROVE  RunsAsConfigured'
    OBVIOUS
  <2>1. ASSUME UNCHANGED vars
        PROVE  Apart' = Apart /\ \A c, n : Mounted(c)' = Mounted(c) /\ Wanted(n)' = Wanted(n)
    BY <2>1 DEF vars, objects, Apart, Of, Mounted, AppOf, Wanted, RoutesOf
  <2>2. CASE Bootstrap
    BY <2>2 DEF Bootstrap, cvars, CommandInv, RunsAsConfigured
  <2>3. CASE Started
    <3>1. status = "loaded" /\ Target \in Classes
      BY <2>3, GetFinds DEF Started, CommandInv, Target
    <3>2. PICK q : q = Queue[next]
      OBVIOUS
    <3>3. UNCHANGED vars /\ running' = [running EXCEPT ![Target] = q]
      BY <2>3, <3>2 DEF Started
    <3>4. ASSUME Apart PROVE Mounted(Target) = Wanted(q)
      <4>1. PICK i \in DOMAIN registry : get(q) = registry[i] /\ name[registry[i]] = q
        BY <3>1, <3>2, GetFinds, RegistryAssumption DEF Target
      <4>2. i \in 1 .. pos - 1
        BY <3>1, <3>4 DEF OneEach, TypeOK
      <4>3. Serves(i) /\ Mounted(get(config.keys[i])) = Wanted(config.keys[i]) /\ get(config.keys[i]) = registry[i]
        BY <3>1, <3>4, <4>2, GetServed
      <4> QED
        BY <3>2, <4>1, <4>3 DEF Serves, Target
    <3>5. \A c \in Classes : running'[c] = running[c] \/ (c = Target /\ running'[c] = q)
      BY <2>3, <3>3 DEF Started, CommandInv
    <3> QED
      BY <2>1, <3>3, <3>4, <3>5 DEF RunsAsConfigured
  <2>4. CASE UNCHANGED vars /\ UNCHANGED running
    BY <2>1, <2>4 DEF RunsAsConfigured
  <2> QED
    BY <2>2, <2>3, <2>4 DEF CommandNext, AllVars, cvars, Booted, Handle, NotStarted, StartRejected, StartHangs
<1> QED
  BY <1>1, <1>2, CommandInvCorrect, CommandLoads, TypeCorrect, OneEachCorrect, PTL DEF CommandSpec
=============================================================================

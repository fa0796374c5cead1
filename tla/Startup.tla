------------------------------ MODULE Startup ------------------------------
(***************************************************************************)
(* From the command line to the first 200 on /-/ready: config.Load, the    *)
(* query library, Register, and then the tenants that connect one by one   *)
(* while somebody probes handleReady.  Load, Merge and Register are loops  *)
(* that stop at the first fault; what they compute is compared with        *)
(* definitions that have neither order nor loop.                           *)
(*                                                                         *)
(* Names are sequences of words, the parts that "_" joins, so that         *)
(* query_name + "_" + value is a concatenation.  A setting is what Atoi    *)
(* makes of an environment variable: an integer, Unset or Garbage.         *)
(* Durations are those of module Durations.                                *)
(***************************************************************************)
EXTENDS Durations, Sequences

CONSTANTS
    Environments,   \* what the process may find at its start
    Builtins,       \* the embedded query list
    SelfNames,      \* names of the daemon's own metrics
    GoodIds,        \* the ids that tenantIDRE matches
    DefaultCycle, DefaultTimeout, DefaultRows, DefaultPort, MaxPort,
    Unset, Garbage, \* settings that are no integer
    NoFile, Broken, \* a file not named; one that is not read or not parsed
    NoId            \* the empty tenant id

Setting == (-WordMax - 1 .. WordMax) \cup {Unset, Garbage}

ASSUME StartupAssumption ==
    /\ MaxPort \in Nat
    /\ {DefaultCycle, DefaultTimeout} \subseteq 1 .. WordMax
    /\ {DefaultRows, DefaultPort} \subseteq 0 .. WordMax
    /\ NoId \notin GoodIds
    /\ {Unset, Garbage} \cap (-WordMax - 1 .. WordMax) = {}
    /\ \A e \in Environments :
          {e.cycle, e.timeout, e.rows, e.port} \subseteq Setting

(* What the parsers make of a file that is read is a list.                 *)
List(s) == s \in Seq({ s[i] : i \in DOMAIN s })

QueryList(s) == List(s) /\ \A i \in DOMAIN s : List(s[i].values)

ASSUME FilesAssumption ==
    /\ QueryList(Builtins)
    /\ \A e \in Environments :
          /\ e.user \in {NoFile, Broken} \/ QueryList(e.user)
          /\ e.file \in {NoFile, Broken} \/ List(e.file)

VARIABLES
    env,       \* environment variables, tenants file and query file
    command,   \* "serve", or "list" for --list-queries
    pc,        \* where main is; its last places are in Ended
    next,      \* index of the loop main is in
    cfg,       \* the settings of Config
    tenants,   \* keys of Config.Tenants
    byName,    \* Merge's map: queries of different names
    queries,   \* the merged list, without its order
    gauges,    \* the (query, value) pairs with a gauge in the registry
    ready,     \* the tenants readyByTenant holds
    asked,     \* tenants whose flag the running /-/ready has not read yet
    anyReady,  \* its variable of that name
    answer,    \* the last answer: "none", "200" or "503"
    before     \* auxiliary: ready when that request began

library == <<tenants, byName, queries, gauges>>
probes == <<ready, asked, anyReady, answer, before>>
vars == <<env, command, pc, next, cfg, library, probes>>

Ended == {"serving", "listed", "exit2", "panic"}

Init ==
    /\ env \in Environments
    /\ \/ command = "serve" /\ pc = "settings"
       \/ command = "list" /\ pc = "library"
    /\ next = 1
    /\ cfg = [cycle |-> 0, timeout |-> 0, rows |-> 0, port |-> 0]
    /\ tenants = {} /\ byName = {} /\ queries = {} /\ gauges = {}
    /\ ready = {} /\ asked = {} /\ before = {}
    /\ anyReady = FALSE /\ answer = "none"

----------------------------------------------------------------------------
(* config.Load.                                                            *)

(* Faulty: zero seconds are accepted.                                      *)
ParseSecondsOrZero(s, default) ==
    IF s \in {Unset, Garbage} THEN default * Second
    ELSE IF s < 0 THEN default * Second ELSE InSeconds(s)

ParseSeconds(s, default) ==
    IF s \in {Unset, Garbage} THEN default * Second
    ELSE IF s < 1 THEN default * Second ELSE InSeconds(s)

ParseInt(s, default) == IF s \in {Unset, Garbage} THEN default ELSE s

LoadSettings ==
    /\ pc = "settings"
    /\ cfg' = [cycle |-> ParseSeconds(env.cycle, DefaultCycle),
               timeout |-> ParseSeconds(env.timeout, DefaultTimeout),
               rows |-> ParseInt(env.rows, DefaultRows),
               port |-> ParseInt(env.port, DefaultPort)]
    /\ pc' = IF env.file = NoFile THEN "single" ELSE "tenants"
    /\ UNCHANGED <<env, command, next, library, probes>>

Goto(place) ==
    pc' = place /\ UNCHANGED <<env, command, cfg, byName, queries, gauges, probes>>

(* loadSingleTenant: everything must be set; the id may be anything.       *)
LoadSingleTenant ==
    /\ pc = "single"
    /\ \/ /\ env.single.id # NoId /\ env.single.complete /\ env.single.password
          /\ tenants' = {env.single.id}
          /\ Goto("validate")
       \/ /\ env.single.id = NoId \/ ~env.single.complete \/ ~env.single.password
          /\ Goto("exit2") /\ UNCHANGED tenants
    /\ UNCHANGED next

(* LoadTenants: a list, not empty, and then one tenant after the other.    *)
RejectFile ==
    /\ pc = "tenants" /\ env.file \in {Broken, << >>}
    /\ Goto("exit2") /\ UNCHANGED <<next, tenants>>

ValidTenant(t) == t.id \in GoodIds /\ t.complete

Admissible(t) == ValidTenant(t) /\ t.id \notin tenants /\ t.password

LoadTenant ==
    /\ pc = "tenants" /\ env.file \notin {Broken, << >>}
    /\ \/ /\ next <= Len(env.file) /\ Admissible(env.file[next])
          /\ tenants' = tenants \cup {env.file[next].id}
          /\ next' = next + 1 /\ Goto("tenants")
       \/ /\ next <= Len(env.file) /\ ~Admissible(env.file[next])
          /\ Goto("exit2") /\ UNCHANGED <<next, tenants>>
       \/ /\ next > Len(env.file)
          /\ next' = 1 /\ Goto("validate") /\ UNCHANGED tenants

(* Config.validate.                                                        *)
Validate ==
    /\ pc = "validate"
    /\ IF /\ tenants # {}
          /\ cfg.port \in 1 .. MaxPort
          /\ cfg.timeout < cfg.cycle
          /\ cfg.rows >= 0
       THEN Goto("library") ELSE Goto("exit2")
    /\ UNCHANGED <<next, tenants>>

----------------------------------------------------------------------------
(* The query library.                                                      *)

UserQueries == IF env.user = NoFile THEN << >> ELSE env.user

(* validate of queries.go; "sound": its name has the shape of a metric     *)
(* name, and help and sql are set.                                         *)
ValidQuery(q) == q.sound /\ q.values # << >> /\ q.interval >= 0

(* LoadBuiltins and LoadFile.                                              *)
LoadLibrary ==
    /\ pc = "library"
    /\ IF /\ \A i \in DOMAIN Builtins : ValidQuery(Builtins[i])
          /\ env.user # Broken
          /\ \A i \in DOMAIN UserQueries : ValidQuery(UserQueries[i])
       THEN Goto("merge") ELSE Goto("exit2")
    /\ UNCHANGED <<next, tenants>>

Stay == UNCHANGED <<env, command, cfg, tenants, probes>>

Entries == Builtins \o UserQueries

(* Faulty: the first entry of a name stays.                                *)
KeepFirst(q) ==
    IF \E p \in byName : p.name = q.name THEN byName ELSE byName \cup {q}

(* byName[q.Name] = q.                                                     *)
Put(q) == { p \in byName : p.name # q.name } \cup {q}

(* Merge: built-in entries, then the user's; then without the disabled.    *)
MergeEntry ==
    /\ pc = "merge" /\ next <= Len(Entries)
    /\ byName' = Put(Entries[next])
    /\ next' = next + 1
    /\ Stay /\ UNCHANGED <<pc, queries, gauges>>

FilterDisabled ==
    /\ pc = "merge" /\ next > Len(Entries)
    /\ queries' = { q \in byName : q.name \notin env.disabled }
    /\ pc' = IF command = "list" THEN "listed" ELSE "register"
    /\ Stay /\ UNCHANGED <<next, byName, gauges>>

----------------------------------------------------------------------------
(* Register: the self metrics are in; one gauge per query and value.       *)

Pairs(qs) == UNION { {q} \X DOMAIN q.values : q \in qs }

GaugeName(g) == g[1].name \o g[1].values[g[2]]

(* Faulty: only the names of other queries' gauges are looked at.          *)
TakenByOther(g) == \E h \in gauges : h[1] # g[1] /\ GaugeName(h) = GaugeName(g)

Taken(g) ==
    \/ GaugeName(g) \in SelfNames
    \/ \E h \in gauges : GaugeName(h) = GaugeName(g)

(* MustRegister panics on a name that is taken and on labels the client    *)
(* library refuses (one twice, or "tenant").                               *)
RegisterGauge ==
    /\ pc = "register"
    /\ \E g \in Pairs(queries) \ gauges :
          IF Taken(g) \/ ~g[1].labels
          THEN pc' = "panic" /\ UNCHANGED gauges
          ELSE gauges' = gauges \cup {g} /\ UNCHANGED pc
    /\ Stay /\ UNCHANGED <<next, byName, queries>>

Serve ==
    /\ pc = "register" /\ gauges = Pairs(queries)
    /\ pc' = "serving"
    /\ Stay /\ UNCHANGED <<next, byName, queries, gauges>>

----------------------------------------------------------------------------
(* Readiness.                                                              *)

Started == UNCHANGED <<env, command, pc, next, cfg, library>>

(* The first connection of a tenant: markReady.                            *)
MarkReady(t) ==
    /\ pc = "serving" /\ t \notin ready
    /\ ready' = ready \cup {t}
    /\ Started /\ UNCHANGED <<asked, anyReady, answer, before>>

(* handleReady looks at one flag after the other, each under the lock.     *)
BeginReady ==
    /\ pc = "serving" /\ asked = {}
    /\ asked' = tenants
    /\ anyReady' = FALSE /\ answer' = "none" /\ before' = ready
    /\ Started /\ UNCHANGED ready

(* Faulty: the flag read last decides.                                     *)
LastFlag(t) == t \in ready

AnyFlag(t) == anyReady \/ t \in ready

ReadFlag(t) ==
    /\ t \in asked
    /\ anyReady' = AnyFlag(t)
    /\ asked' = asked \ {t}
    /\ answer' = IF asked' # {} THEN "none" ELSE IF anyReady' THEN "200" ELSE "503"
    /\ Started /\ UNCHANGED <<ready, before>>

Stopped == pc \in Ended \ {"serving"} /\ UNCHANGED vars

Next ==
    \/ LoadSettings \/ LoadSingleTenant \/ RejectFile \/ LoadTenant \/ Validate
    \/ LoadLibrary \/ MergeEntry \/ FilterDisabled
    \/ RegisterGauge \/ Serve
    \/ \E t \in tenants : MarkReady(t) \/ ReadFlag(t)
    \/ BeginReady
    \/ Stopped

Spec == Init /\ [][Next]_vars

----------------------------------------------------------------------------
(* The library in one definition: of each name the last entry, the user's  *)
(* after the built-in ones, unless the name is disabled - whoever defined  *)
(* it (Merge, queries.go:105-122).                                         *)
ResolvedLibrary ==
    pc \in {"register", "serving", "listed", "panic"} =>
        queries = { Entries[i] : i \in
                      { j \in DOMAIN Entries :
                          /\ Entries[j].name \notin env.disabled
                          /\ \A k \in DOMAIN Entries :
                                k > j => Entries[k].name # Entries[j].name } }

(* What a process has to find in order to start.                           *)
SoundLibrary ==
    env.user # Broken /\ \A i \in DOMAIN Entries : ValidQuery(Entries[i])

SoundTenants ==
    IF env.file = NoFile
    THEN env.single.id # NoId /\ env.single.complete /\ env.single.password
    ELSE /\ env.file \notin {Broken, << >>}
         /\ \A i \in DOMAIN env.file :
               /\ ValidTenant(env.file[i]) /\ env.file[i].password
               /\ \A j \in DOMAIN env.file :
                     env.file[i].id = env.file[j].id => i = j

SoundGauges ==
    /\ \A q \in queries : q.labels
    /\ \A g \in Pairs(queries) :
          /\ GaugeName(g) \notin SelfNames
          /\ \A h \in Pairs(queries) : GaugeName(g) = GaugeName(h) => g = h

(* The daemon serves exactly when all its tenants are sound, each with an  *)
(* id of its own, the whole library is, and every value column has a gauge *)
(* of its own: no tenant or query is left out silently, and none is turned *)
(* away without a fault.  --list-queries looks at the library only, and a  *)
(* library it lists may still panic (config.go:64, metrics.go:183-198).    *)
AllOrNothing ==
    /\ pc = "serving" =>
          /\ SoundTenants /\ SoundLibrary /\ SoundGauges
          /\ gauges = Pairs(queries)
          /\ env.file # NoFile =>
                tenants = { env.file[i].id : i \in DOMAIN env.file }
    /\ pc = "listed" => SoundLibrary
    /\ pc = "panic" => SoundTenants /\ SoundLibrary /\ ~SoundGauges
    /\ (pc = "exit2" /\ command = "list") => ~SoundLibrary
    /\ (pc = "exit2" /\ SoundTenants /\ SoundLibrary) =>
          \/ cfg.timeout >= cfg.cycle
          \/ cfg.rows < 0 \/ cfg.port \notin 1 .. MaxPort

(* A served cycle interval is longer than the query timeout, and both are  *)
(* at least a second unless a setting was so large that its duration       *)
(* wrapped; a non-positive interval, which NewTicker refuses, takes two    *)
(* such settings (config.go:156, 177-187).                                 *)
Wrapped(s) == s \notin {Unset, Garbage} /\ s * Second > WordMax

WindowUnlessWrapped ==
    pc = "serving" =>
        /\ cfg.timeout < cfg.cycle
        /\ cfg.timeout < Second => Wrapped(env.timeout)
        /\ cfg.cycle < Second => Wrapped(env.cycle) /\ Wrapped(env.timeout)

(* /-/ready says 503 only if no tenant was connected when the request      *)
(* began, and 200 only if one is: having once said 200 it says so to every *)
(* later request, although it reads the flags one at a time while tenants  *)
(* connect (server.go:198-225, main.go:156-169).                           *)
ReadyIsHonest ==
    /\ answer = "503" => before = {}
    /\ answer = "200" => ready # {}

============================================================================

--------------------------- MODULE StartupProofs ---------------------------
(***************************************************************************)
(* Theorems about the start of the daemon, for every environment, every    *)
(* list of built-in queries and every set of tenants.                      *)
(***************************************************************************)
EXTENDS Startup, SequenceTheorems, TLAPS

(* Where a step of main's goes, and what none of them changes.             *)
Loading == {"settings", "single", "tenants", "validate", "library"}
Merged == {"register", "serving", "listed", "panic"}

PlaceInv ==
    /\ env \in Environments
    /\ command \in {"serve", "list"}
    /\ pc \in Loading \cup {"merge", "exit2"} \cup Merged
    /\ command = "list" => pc \in {"library", "merge", "listed", "exit2"}
    /\ command = "serve" => pc # "listed"
    /\ pc \in {"settings", "single", "validate", "library"} => next = 1

LEMMA PlaceInit == Init => PlaceInv
BY DEF Init, PlaceInv, Loading, Merged

LEMMA PlaceNext ==
    PlaceInv /\ [Next]_vars => PlaceInv' /\ env' = env /\ command' = command
<1> SUFFICES ASSUME PlaceInv, [Next]_vars
    PROVE  PlaceInv' /\ env' = env /\ command' = command
  OBVIOUS
<1> USE DEF PlaceInv, Loading, Merged, Goto, Stay, Started
<1>1. CASE LoadSettings
  BY <1>1 DEF LoadSettings
<1>2. CASE LoadSingleTenant
  BY <1>2 DEF LoadSingleTenant
<1>3. CASE RejectFile
  BY <1>3 DEF RejectFile
<1>4. CASE LoadTenant
  BY <1>4 DEF LoadTenant
<1>5. CASE Validate
  BY <1>5 DEF Validate
<1>6. CASE LoadLibrary
  BY <1>6 DEF LoadLibrary
<1>7. CASE MergeEntry
  BY <1>7 DEF MergeEntry
<1>8. CASE FilterDisabled
  BY <1>8 DEF FilterDisabled
<1>9. CASE RegisterGauge
  BY <1>9 DEF RegisterGauge
<1>10. CASE Serve
  BY <1>10 DEF Serve
<1>11. ASSUME NEW t \in tenants, MarkReady(t) \/ ReadFlag(t)
       PROVE  PlaceInv' /\ env' = env /\ command' = command
  BY <1>11 DEF MarkReady, ReadFlag
<1>12. CASE BeginReady
  BY <1>12 DEF BeginReady
<1>13. CASE Stopped \/ UNCHANGED vars
  BY <1>13 DEF Stopped, vars
<1> QED
  BY <1>1, <1>2, <1>3, <1>4, <1>5, <1>6, <1>7, <1>8, <1>9, <1>10, <1>11,
     <1>12, <1>13 DEF Next

----------------------------------------------------------------------------
(* Readiness.  A tenant that was ready when the request began is among     *)
(* those it has still to ask, as long as it has found none.                *)
ReadyInv ==
    /\ asked \subseteq tenants
    /\ ready \subseteq tenants
    /\ before \subseteq ready
    /\ pc # "serving" => ready = {} /\ asked = {}
    /\ anyReady => ready # {}
    /\ ~anyReady => before \subseteq asked
    /\ answer = "503" => asked = {} /\ ~anyReady
    /\ answer = "200" => anyReady

LEMMA ReadyInit == Init => ReadyInv
BY DEF Init, ReadyInv

LEMMA ReadyNext == ReadyInv /\ [Next]_vars => ReadyInv'
<1> SUFFICES ASSUME ReadyInv, [Next]_vars PROVE ReadyInv'
  OBVIOUS
<1> USE DEF ReadyInv
<1>1. ASSUME pc # "serving", probes' = probes PROVE ReadyInv'
  <2>1. UNCHANGED <<ready, asked, anyReady, answer, before>>
    BY <1>1 DEF probes
  <2> QED
    BY <1>1, <2>1
<1>2. CASE LoadSettings
  BY <1>1, <1>2 DEF LoadSettings
<1>3. CASE LoadSingleTenant \/ RejectFile \/ LoadTenant \/ Validate
           \/ LoadLibrary
  BY <1>1, <1>3 DEF LoadSingleTenant, RejectFile, LoadTenant, Validate,
     LoadLibrary, Goto
<1>4. CASE MergeEntry \/ FilterDisabled \/ RegisterGauge \/ Serve
  BY <1>1, <1>4 DEF MergeEntry, FilterDisabled, RegisterGauge, Serve, Stay
<1>5. ASSUME NEW t \in tenants, MarkReady(t) PROVE ReadyInv'
  BY <1>5 DEF MarkReady, Started, library
<1>6. CASE BeginReady
  BY <1>6 DEF BeginReady, Started, library
<1>7. ASSUME NEW t \in tenants, ReadFlag(t) PROVE ReadyInv'
  <2>1. /\ tenants' = tenants /\ pc' = pc
        /\ ready' = ready /\ before' = before
        /\ asked' = asked \ {t}
        /\ anyReady' = (anyReady \/ t \in ready)
    BY <1>7 DEF ReadFlag, AnyFlag, Started, library
  <2>2. answer' = IF asked' # {} THEN "none"
                  ELSE IF anyReady' THEN "200" ELSE "503"
    BY <1>7 DEF ReadFlag
  <2>3. ~anyReady' => before \subseteq asked'
    BY <2>1
  <2> QED
    BY <1>7, <2>1, <2>2, <2>3
<1>8. CASE Stopped \/ UNCHANGED vars
  BY <1>8 DEF Stopped, vars, library, probes
<1> QED
  BY <1>2, <1>3, <1>4, <1>5, <1>6, <1>7, <1>8 DEF Next

(* Neither answer of handleReady is out of date in the way that matters,   *)
(* whatever tenants connect while it reads the flags.                      *)
THEOREM ReadinessIsHonest == Spec => []ReadyIsHonest
<1>1. ReadyInv => ReadyIsHonest
  BY DEF ReadyInv, ReadyIsHonest
<1> QED
  BY <1>1, ReadyInit, ReadyNext, PTL DEF Spec

----------------------------------------------------------------------------
(* Settings.                                                               *)
LEMMA Multiply ==
    ASSUME NEW a \in Int, NEW b \in Int
    PROVE  /\ a * b \in Int
           /\ (a >= 1 /\ b >= 1) => a * b >= b
<1>1. a * b \in Int
  OBVIOUS
<1>2. ASSUME a >= 1, b >= 1 PROVE a * b >= b
  <2>1. a * b = (a - 1) * b + b
    OBVIOUS
  <2>2. (a - 1) * b >= 0
    BY <1>2
  <2> QED
    BY <1>1, <2>1, <2>2
<1> QED
  BY <1>1, <1>2

LEMMA ModIsSmall ==
    ASSUME NEW m \in Nat \ {0}, NEW n \in 0 .. m - 1
    PROVE  n % m = n
OBVIOUS

LEMMA ModIsInt ==
    ASSUME NEW m \in Nat \ {0}, NEW n \in Int
    PROVE  n % m \in Int
OBVIOUS

(* A duration that fits is not changed, and any is an integer.             *)
LEMMA WrapFits ==
    ASSUME NEW n \in Int
    PROVE  /\ Wrap(n) \in Int
           /\ n \in 0 .. WordMax => Wrap(n) = n
<1> DEFINE m == 2 * WordMax + 2
           k == n + WordMax + 1
<1>1. m \in Nat \ {0} /\ k \in Int /\ WordMax \in Nat
  BY DurationAssumption
<1>2. k % m \in Int
  BY <1>1, ModIsInt
<1>3. n \in 0 .. WordMax => k % m = k
  BY <1>1, ModIsSmall
<1>4. Wrap(n) = (k % m) - (WordMax + 1)
  BY DEF Wrap
<1> HIDE DEF m
<1> QED
  BY <1>1, <1>2, <1>3, <1>4

(* parseSeconds gives at least a second, unless it wraps.                  *)
LEMMA ParsedSeconds ==
    ASSUME NEW s \in Setting, NEW d \in 1 .. WordMax
    PROVE  /\ ParseSeconds(s, d) \in Int
           /\ ~Wrapped(s) => ParseSeconds(s, d) >= Second
<1>1. WordMax \in Nat /\ Second \in Int /\ Second >= 1 /\ d \in Int /\ d >= 1
  BY DurationAssumption
<1>2. d * Second \in Int /\ d * Second >= Second
  BY <1>1, Multiply
<1>3. CASE s \in {Unset, Garbage}
  BY <1>2, <1>3 DEF ParseSeconds
<1>4. CASE s \notin {Unset, Garbage}
  <2>1. s \in Int
    BY <1>1, <1>4 DEF Setting
  <2>2. CASE s < 1
    BY <1>2, <1>4, <2>2 DEF ParseSeconds
  <2>3. CASE ~(s < 1)
    <3>1. s * Second \in Int /\ s * Second >= Second
      BY <1>1, <2>1, <2>3, Multiply
    <3>2. ParseSeconds(s, d) = Wrap(s * Second)
      BY <1>4, <2>3 DEF ParseSeconds, InSeconds
    <3>3. ~Wrapped(s) => s * Second \in 0 .. WordMax
      BY <1>1, <1>4, <3>1 DEF Wrapped
    <3> QED
      BY <3>1, <3>2, <3>3, WrapFits
  <2> QED
    BY <2>2, <2>3
<1> QED
  BY <1>3, <1>4

(* What validate has seen, and from where.                                 *)
Validated == {"library", "merge", "register", "serving", "panic"}

SettingsInv ==
    command = "serve" =>
        /\ pc # "settings" =>
              /\ cfg.cycle = ParseSeconds(env.cycle, DefaultCycle)
              /\ cfg.timeout = ParseSeconds(env.timeout, DefaultTimeout)
              /\ cfg.rows \in Int
        /\ pc \in Validated => cfg.timeout < cfg.cycle

LEMMA SettingsInit == Init => SettingsInv
BY DEF Init, SettingsInv, Validated

LEMMA SettingsNext == PlaceInv /\ SettingsInv /\ [Next]_vars => SettingsInv'
<1> SUFFICES ASSUME PlaceInv, SettingsInv, [Next]_vars PROVE SettingsInv'
  OBVIOUS
<1> USE DEF SettingsInv, Validated
<1>0. env' = env /\ command' = command
  BY PlaceNext
<1>1. CASE LoadSettings
  <2>1. env.rows \in Setting
    BY StartupAssumption DEF PlaceInv
  <2>2. ParseInt(env.rows, DefaultRows) \in Int
    BY <2>1, StartupAssumption DEF ParseInt, Setting
  <2> QED
    BY <1>0, <1>1, <2>2 DEF LoadSettings
<1>2. CASE Validate
  BY <1>0, <1>2 DEF Validate, Goto
<1>3. ASSUME cfg' = cfg, command = "serve" => pc # "settings",
             pc' \in Validated => pc \in Validated \/ command = "list"
      PROVE  SettingsInv'
  BY <1>0, <1>3
<1>4. CASE LoadSingleTenant \/ RejectFile \/ LoadTenant \/ LoadLibrary
  BY <1>3, <1>4 DEF LoadSingleTenant, RejectFile, LoadTenant, LoadLibrary, Goto
<1>5. CASE MergeEntry \/ FilterDisabled \/ RegisterGauge \/ Serve
  BY <1>3, <1>5 DEF MergeEntry, FilterDisabled, RegisterGauge, Serve, Stay
<1>6. ASSUME NEW t \in tenants, MarkReady(t) \/ ReadFlag(t) PROVE SettingsInv'
  BY <1>0, <1>6 DEF MarkReady, ReadFlag, Started
<1>7. CASE BeginReady
  BY <1>0, <1>7 DEF BeginReady, Started
<1>8. CASE Stopped \/ UNCHANGED vars
  BY <1>8 DEF Stopped, vars
<1> QED
  BY <1>1, <1>2, <1>4, <1>5, <1>6, <1>7, <1>8 DEF Next

(* What the window between two fires and the query timeout can be          *)
(* (parseSeconds and validate of config.go).                               *)
THEOREM WindowIsSound == Spec => []WindowUnlessWrapped
<1>1. PlaceInv /\ SettingsInv => WindowUnlessWrapped
  <2> SUFFICES ASSUME PlaceInv, SettingsInv, pc = "serving"
      PROVE  /\ cfg.timeout < cfg.cycle
             /\ cfg.timeout < Second => Wrapped(env.timeout)
             /\ cfg.cycle < Second =>
                   Wrapped(env.cycle) /\ Wrapped(env.timeout)
    BY DEF WindowUnlessWrapped
  <2>1. command = "serve"
    BY DEF PlaceInv
  <2>2. /\ cfg.cycle = ParseSeconds(env.cycle, DefaultCycle)
        /\ cfg.timeout = ParseSeconds(env.timeout, DefaultTimeout)
        /\ cfg.timeout < cfg.cycle
    BY <2>1 DEF SettingsInv, Validated
  <2>3. env.cycle \in Setting /\ env.timeout \in Setting
    BY StartupAssumption DEF PlaceInv
  <2>4. /\ cfg.cycle \in Int /\ cfg.timeout \in Int /\ Second \in Int
        /\ ~Wrapped(env.cycle) => cfg.cycle >= Second
        /\ ~Wrapped(env.timeout) => cfg.timeout >= Second
    BY <2>2, <2>3, ParsedSeconds, StartupAssumption, DurationAssumption
  <2> QED
    BY <2>2, <2>4
<1>2. Spec => [](PlaceInv /\ SettingsInv)
  BY PlaceInit, PlaceNext, SettingsInit, SettingsNext, PTL DEF Spec
<1> QED
  BY <1>1, <1>2, PTL

----------------------------------------------------------------------------
(* The merged library.  Once n entries have been put into the map, it      *)
(* holds the last entry of each name among them.                           *)
KeptOf(L, n) ==
    { L[i] : i \in { j \in 1 .. n :
                       \A k \in 1 .. n : k > j => L[k].name # L[j].name } }

LEMMA KeptFirst == ASSUME NEW L PROVE KeptOf(L, 0) = {}
BY DEF KeptOf

LEMMA KeptNext ==
    ASSUME NEW L, NEW n \in Nat, NEW m, m = n + 1
    PROVE  { p \in KeptOf(L, n) : p.name # L[m].name } \cup {L[m]}
               = KeptOf(L, m)
<1> DEFINE A == { p \in KeptOf(L, n) : p.name # L[m].name } \cup {L[m]}
<1>1. ASSUME NEW p \in A PROVE p \in KeptOf(L, m)
  <2>1. CASE p = L[m]
    BY <2>1 DEF KeptOf
  <2>2. CASE p \in KeptOf(L, n) /\ p.name # L[m].name
    <3>1. PICK i \in 1 .. n :
             p = L[i] /\ \A k \in 1 .. n : k > i => L[k].name # L[i].name
      BY <2>2 DEF KeptOf
    <3>2. i \in 1 .. m /\ \A k \in 1 .. m : k > i => L[k].name # L[i].name
      BY <2>2, <3>1
    <3> QED
      BY <3>1, <3>2 DEF KeptOf
  <2> QED
    BY <1>1, <2>1, <2>2
<1>2. ASSUME NEW p \in KeptOf(L, m) PROVE p \in A
  <2>1. PICK i \in 1 .. m :
           p = L[i] /\ \A k \in 1 .. m : k > i => L[k].name # L[i].name
    BY <1>2 DEF KeptOf
  <2>2. CASE i = m
    BY <2>1, <2>2
  <2>3. CASE i # m
    <3>1. /\ i \in 1 .. n
          /\ \A k \in 1 .. n : k > i => L[k].name # L[i].name
          /\ L[m].name # L[i].name
      BY <2>1, <2>3
    <3>2. p \in KeptOf(L, n)
      BY <2>1, <3>1 DEF KeptOf
    <3> QED
      BY <2>1, <3>1, <3>2
  <2> QED
    BY <2>2, <2>3
<1> QED
  BY <1>1, <1>2

(* Entries is a list, of the built-in queries and the user's.              *)
LEMMA EntriesFacts ==
    ASSUME PlaceInv, env.user # Broken
    PROVE  /\ Len(Entries) \in Nat
           /\ DOMAIN Entries = 1 .. Len(Entries)
           /\ (\A i \in DOMAIN Entries : ValidQuery(Entries[i])) <=>
                 /\ \A i \in DOMAIN Builtins : ValidQuery(Builtins[i])
                 /\ \A i \in DOMAIN UserQueries : ValidQuery(UserQueries[i])
           /\ \A i \in DOMAIN Entries : List(Entries[i].values)
<1> DEFINE A == { Builtins[i] : i \in DOMAIN Builtins }
           U == { UserQueries[i] : i \in DOMAIN UserQueries }
<1>1. QueryList(Builtins)
  BY FilesAssumption
<1>2. QueryList(UserQueries)
  <2>1. CASE env.user = NoFile
    BY <2>1 DEF UserQueries, QueryList, List
  <2>2. CASE env.user # NoFile
    BY <2>2, FilesAssumption DEF PlaceInv, UserQueries
  <2> QED
    BY <2>1, <2>2
<1>3. /\ Builtins \in Seq(A)
      /\ UserQueries \in Seq(U)
      /\ \A i \in DOMAIN Builtins : List(Builtins[i].values)
      /\ \A i \in DOMAIN UserQueries : List(UserQueries[i].values)
  BY <1>1, <1>2 DEF QueryList, List
<1>4. Builtins \in Seq(A \cup U) /\ UserQueries \in Seq(A \cup U)
  BY <1>3
<1> DEFINE b == Len(Builtins)
           u == Len(UserQueries)
<1>5. /\ b \in Nat /\ DOMAIN Builtins = 1 .. b
      /\ u \in Nat /\ DOMAIN UserQueries = 1 .. u
  BY <1>3
<1>6. /\ Entries \in Seq(A \cup U)
      /\ Len(Entries) = b + u
      /\ \A i \in 1 .. b + u :
            Entries[i] = IF i <= b THEN Builtins[i] ELSE UserQueries[i - b]
  BY <1>4, ConcatProperties DEF Entries
<1>7. DOMAIN Entries = 1 .. b + u
  BY <1>6
<1> HIDE DEF A, U, b, u
<1>8. \A i \in 1 .. b : i \in 1 .. b + u /\ Entries[i] = Builtins[i]
  BY <1>5, <1>6
<1>9. \A i \in 1 .. u : b + i \in 1 .. b + u /\ Entries[b + i] = UserQueries[i]
  BY <1>5, <1>6
<1>10. \A i \in 1 .. b + u :
          \/ i \in 1 .. b /\ Entries[i] = Builtins[i]
          \/ i - b \in 1 .. u /\ Entries[i] = UserQueries[i - b]
  BY <1>5, <1>6
<1>11. ASSUME \A i \in DOMAIN Entries : ValidQuery(Entries[i])
       PROVE  /\ \A i \in DOMAIN Builtins : ValidQuery(Builtins[i])
              /\ \A i \in DOMAIN UserQueries : ValidQuery(UserQueries[i])
  <2>1. ASSUME NEW i \in 1 .. b PROVE ValidQuery(Builtins[i])
    BY <1>7, <1>8, <1>11
  <2>2. ASSUME NEW i \in 1 .. u PROVE ValidQuery(UserQueries[i])
    BY <1>7, <1>9, <1>11
  <2> QED
    BY <1>5, <2>1, <2>2
<1>12. ASSUME \A i \in 1 .. b : ValidQuery(Builtins[i]),
              \A i \in 1 .. u : ValidQuery(UserQueries[i]),
              NEW i \in 1 .. b + u
       PROVE  ValidQuery(Entries[i])
  BY <1>10, <1>12
<1>13. ASSUME NEW i \in 1 .. b + u PROVE List(Entries[i].values)
  BY <1>3, <1>5, <1>10
<1>14. Len(Entries) \in Nat /\ DOMAIN Entries = 1 .. Len(Entries)
  BY <1>5, <1>6, <1>7
<1> QED
  BY <1>5, <1>7, <1>11, <1>12, <1>13, <1>14

LEMMA EnvStays ==
    ASSUME env' = env
    PROVE  /\ Entries' = Entries
           /\ SoundLibrary' = SoundLibrary
           /\ SoundTenants' = SoundTenants
BY DEF Entries, UserQueries, SoundLibrary, SoundTenants

LibraryInv ==
    /\ pc \in {"merge"} \cup Merged => SoundLibrary
    /\ pc \in Loading => byName = {}
    /\ pc = "merge" => /\ next \in 1 .. Len(Entries) + 1
                       /\ byName = KeptOf(Entries, next - 1)
    /\ pc = "exit2" /\ command = "list" => ~SoundLibrary
    /\ ResolvedLibrary

LEMMA LibraryInit == Init => LibraryInv
BY DEF Init, LibraryInv, ResolvedLibrary, Loading, Merged

LEMMA LibraryNext == PlaceInv /\ LibraryInv /\ [Next]_vars => LibraryInv'
<1> SUFFICES ASSUME PlaceInv, LibraryInv, [Next]_vars PROVE LibraryInv'
  OBVIOUS
<1>0. /\ env' = env /\ command' = command
      /\ Entries' = Entries /\ SoundLibrary' = SoundLibrary
  BY PlaceNext, EnvStays
<1>1. ASSUME pc' = pc, UNCHANGED <<next, byName, queries>> PROVE LibraryInv'
  BY <1>0, <1>1 DEF LibraryInv, ResolvedLibrary
<1>2. CASE LoadSettings
  BY <1>0, <1>2 DEF LoadSettings, LibraryInv, ResolvedLibrary, Loading, Merged,
     library, PlaceInv
<1>3. CASE LoadSingleTenant
  BY <1>0, <1>3 DEF LoadSingleTenant, Goto, LibraryInv, ResolvedLibrary,
     Loading, Merged, PlaceInv
<1>4. CASE RejectFile
  BY <1>0, <1>4 DEF RejectFile, Goto, LibraryInv, ResolvedLibrary,
     Loading, Merged, PlaceInv
<1>5. CASE LoadTenant
  BY <1>0, <1>5 DEF LoadTenant, Goto, LibraryInv, ResolvedLibrary,
     Loading, Merged, PlaceInv
<1>6. CASE Validate
  BY <1>0, <1>6 DEF Validate, Goto, LibraryInv, ResolvedLibrary,
     Loading, Merged, PlaceInv
<1>7. CASE LoadLibrary
  <2>1. /\ pc = "library" /\ next = 1 /\ byName = {}
        /\ byName' = byName /\ next' = next
        /\ pc' \in {"merge", "exit2"}
        /\ pc' = "merge" <=>
             /\ \A i \in DOMAIN Builtins : ValidQuery(Builtins[i])
             /\ env.user # Broken
             /\ \A i \in DOMAIN UserQueries : ValidQuery(UserQueries[i])
    BY <1>7 DEF LoadLibrary, Goto, LibraryInv, Loading, PlaceInv
  <2>2. pc' = "merge" <=> SoundLibrary
    BY <2>1, EntriesFacts DEF SoundLibrary
  <2>3. pc' = "merge" => Len(Entries) \in Nat
    BY <2>1, EntriesFacts
  <2>4. KeptOf(Entries, 0) = {}
    BY KeptFirst
  <2> QED
    BY <1>0, <2>1, <2>2, <2>3, <2>4 DEF LibraryInv, ResolvedLibrary, Loading,
       Merged
<1>8. CASE MergeEntry
  <2>1. /\ pc = "merge" /\ pc' = "merge"
        /\ next \in 1 .. Len(Entries) + 1 /\ next <= Len(Entries)
        /\ byName = KeptOf(Entries, next - 1)
        /\ byName' = Put(Entries[next])
        /\ next' = next + 1
        /\ SoundLibrary
    BY <1>8 DEF MergeEntry, LibraryInv
  <2>2. Len(Entries) \in Nat
    BY <2>1, EntriesFacts DEF SoundLibrary
  <2>3. next - 1 \in Nat /\ next = (next - 1) + 1 /\ next' - 1 = next
    BY <2>1, <2>2
  <2>4. Put(Entries[next]) = KeptOf(Entries, next)
    <3>1. { p \in KeptOf(Entries, next - 1) : p.name # Entries[next].name }
             \cup {Entries[next]} = KeptOf(Entries, next)
      BY <2>3, KeptNext
    <3> QED
      BY <2>1, <3>1 DEF Put
  <2>5. next' \in 1 .. Len(Entries) + 1
    BY <2>1, <2>2
  <2> QED
    BY <1>0, <2>1, <2>3, <2>4, <2>5 DEF LibraryInv, ResolvedLibrary, Loading,
       Merged
<1>9. CASE FilterDisabled
  <2>1. /\ pc = "merge" /\ pc' \in {"listed", "register"}
        /\ next \in 1 .. Len(Entries) + 1 /\ next > Len(Entries)
        /\ byName = KeptOf(Entries, next - 1)
        /\ queries' = { q \in byName : q.name \notin env.disabled }
        /\ SoundLibrary
    BY <1>9 DEF FilterDisabled, LibraryInv
  <2>2. Len(Entries) \in Nat /\ DOMAIN Entries = 1 .. Len(Entries)
    BY <2>1, EntriesFacts DEF SoundLibrary
  <2>3. next - 1 = Len(Entries)
    BY <2>1, <2>2
  <2>4. byName = KeptOf(Entries, Len(Entries))
    BY <2>1, <2>3
  <2>5. queries' = { Entries[i] : i \in
                      { j \in DOMAIN Entries :
                          /\ Entries[j].name \notin env.disabled
                          /\ \A k \in DOMAIN Entries :
                                k > j => Entries[k].name # Entries[j].name } }
    BY <2>1, <2>2, <2>4 DEF KeptOf
  <2> QED
    BY <1>0, <2>1, <2>5 DEF LibraryInv, ResolvedLibrary, Loading, Merged
<1>10. CASE RegisterGauge
  BY <1>0, <1>10 DEF RegisterGauge, Stay, LibraryInv, ResolvedLibrary, Loading,
     Merged
<1>11. CASE Serve
  BY <1>0, <1>11 DEF Serve, Stay, LibraryInv, ResolvedLibrary, Loading, Merged
<1>12. ASSUME NEW t \in tenants, MarkReady(t) \/ ReadFlag(t) PROVE LibraryInv'
  BY <1>1, <1>12 DEF MarkReady, ReadFlag, Started, library
<1>13. CASE BeginReady
  BY <1>1, <1>13 DEF BeginReady, Started, library
<1>14. CASE Stopped \/ UNCHANGED vars
  BY <1>1, <1>14 DEF Stopped, vars, library
<1> QED
  BY <1>2, <1>3, <1>4, <1>5, <1>6, <1>7, <1>8, <1>9, <1>10, <1>11, <1>12,
     <1>13, <1>14 DEF Next

LEMMA LibraryAlways == Spec => [](PlaceInv /\ LibraryInv)
BY PlaceInit, PlaceNext, LibraryInit, LibraryNext, PTL DEF Spec

(* The loops of Merge compute what one definition says (queries.go).       *)
THEOREM LibraryIsResolved == Spec => []ResolvedLibrary
<1>1. LibraryInv => ResolvedLibrary
  BY DEF LibraryInv
<1> QED
  BY <1>1, LibraryAlways, PTL

----------------------------------------------------------------------------
(* The tenants file, read up to entry n without a fault.                   *)
ReadUpTo(n) ==
    /\ tenants = { env.file[i].id : i \in 1 .. n }
    /\ \A i \in 1 .. n :
          /\ ValidTenant(env.file[i]) /\ env.file[i].password
          /\ \A j \in 1 .. n : env.file[i].id = env.file[j].id => i = j

BadSettings ==
    cfg.timeout >= cfg.cycle \/ cfg.rows < 0 \/ cfg.port \notin 1 .. MaxPort

TenantsInv ==
    command = "serve" =>
        /\ pc = "settings" => tenants = {}
        /\ pc = "single" => env.file = NoFile
        /\ pc = "tenants" => /\ env.file # NoFile
                             /\ next \in Nat \ {0}
                             /\ ReadUpTo(next - 1)
                             /\ env.file \notin {Broken, << >>} =>
                                   next <= Len(env.file) + 1
        /\ pc \in {"validate"} \cup Validated =>
              /\ SoundTenants
              /\ tenants # {}
              /\ env.file # NoFile =>
                    tenants = { env.file[i].id : i \in DOMAIN env.file }
        /\ pc = "exit2" => ~SoundTenants \/ ~SoundLibrary \/ BadSettings

LEMMA TenantsInit == Init => TenantsInv
BY DEF Init, TenantsInv, Validated

LEMMA FileFacts ==
    ASSUME PlaceInv, env.file \notin {NoFile, Broken, << >>}
    PROVE  /\ Len(env.file) \in Nat \ {0}
           /\ DOMAIN env.file = 1 .. Len(env.file)
<1>1. List(env.file)
  BY FilesAssumption DEF PlaceInv
<1>2. env.file \in Seq({ env.file[i] : i \in DOMAIN env.file })
  BY <1>1 DEF List
<1> QED
  BY <1>2, EmptySeq

LEMMA FileStep ==
    ASSUME PlaceInv, TenantsInv, command = "serve", LoadTenant
    PROVE  TenantsInv'
<1> DEFINE L == env.file
<1>1. /\ pc = "tenants" /\ L \notin {NoFile, Broken, << >>}
      /\ next \in Nat \ {0} /\ next <= Len(L) + 1
      /\ ReadUpTo(next - 1)
  BY DEF LoadTenant, TenantsInv
<1>2. Len(L) \in Nat \ {0} /\ DOMAIN L = 1 .. Len(L)
  BY <1>1, FileFacts
<1>3. env' = env /\ command' = command /\ cfg' = cfg
      /\ SoundTenants' = SoundTenants
  BY EnvStays DEF LoadTenant, Goto
<1> HIDE DEF L
<1>4. CASE next <= Len(L) /\ Admissible(L[next])
  <2>1. /\ tenants' = tenants \cup {L[next].id}
        /\ next' = next + 1 /\ pc' = "tenants"
    BY <1>1, <1>2, <1>4 DEF LoadTenant, Goto, L
  <2>2. /\ ValidTenant(L[next]) /\ L[next].password
        /\ L[next].id \notin tenants
    BY <1>4 DEF Admissible
  <2>3. /\ tenants = { L[i].id : i \in 1 .. next - 1 }
        /\ \A i \in 1 .. next - 1 :
              /\ ValidTenant(L[i]) /\ L[i].password
              /\ \A j \in 1 .. next - 1 : L[i].id = L[j].id => i = j
    BY <1>1 DEF ReadUpTo, L
  <2>4. /\ \A i \in 1 .. next : i = next \/ i \in 1 .. next - 1
        /\ \A i \in 1 .. next - 1 : i \in 1 .. next
        /\ next \in 1 .. next /\ next' - 1 = next
    BY <1>1, <2>1
  <2>5. tenants' = { L[i].id : i \in 1 .. next }
    BY <2>1, <2>3, <2>4
  <2>6. \A i \in 1 .. next - 1 : L[i].id # L[next].id
    BY <2>2, <2>3
  <2>7. ASSUME NEW i \in 1 .. next
        PROVE  /\ ValidTenant(L[i]) /\ L[i].password
               /\ \A j \in 1 .. next : L[i].id = L[j].id => i = j
    BY <2>2, <2>3, <2>4, <2>6
  <2>8. L' = L
    BY <1>3 DEF L
  <2>9. ReadUpTo(next - 1)'
    <3>1. L' = env.file' /\ L = env.file
      BY DEF L
    <3>2. env.file' = env.file
      BY <1>3
    <3>3. tenants' = { env.file'[i].id : i \in 1 .. next' - 1 }
      BY <2>4, <2>5, <3>1, <3>2
    <3>4. ASSUME NEW i \in 1 .. next' - 1
          PROVE  /\ ValidTenant(env.file'[i]) /\ env.file'[i].password
                 /\ \A j \in 1 .. next' - 1 :
                        env.file'[i].id = env.file'[j].id => i = j
      BY <2>4, <2>7, <3>1, <3>2
    <3> QED
      BY <3>3, <3>4 DEF ReadUpTo, ValidTenant
  <2>10. next' \in Nat \ {0} /\ next' <= Len(L) + 1
    BY <1>1, <1>2, <1>4, <2>1
  <2> QED
    BY <1>1, <1>3, <2>1, <2>8, <2>9, <2>10 DEF TenantsInv, Validated, L
<1>5. CASE next <= Len(L) /\ ~Admissible(L[next])
  <2>1. next \in DOMAIN L
    BY <1>1, <1>2, <1>5
  <2>2. ~SoundTenants
    <3>1. SUFFICES ASSUME SoundTenants PROVE FALSE
      OBVIOUS
    <3>2. /\ ValidTenant(L[next]) /\ L[next].password
          /\ \A j \in DOMAIN L : L[next].id = L[j].id => next = j
      BY <1>1, <2>1, <3>1 DEF SoundTenants, L
    <3>3. L[next].id \in tenants
      BY <1>5, <3>2 DEF Admissible
    <3>4. PICK i \in 1 .. next - 1 : L[next].id = L[i].id
      BY <1>1, <3>3 DEF ReadUpTo, L
    <3>5. i \in DOMAIN L /\ i # next
      BY <1>1, <1>2, <3>4
    <3> QED
      BY <3>2, <3>4, <3>5
  <2>3. pc' = "exit2"
    BY <1>1, <1>2, <1>5 DEF LoadTenant, Goto, L
  <2> QED
    BY <1>3, <2>2, <2>3 DEF TenantsInv, Validated
<1>6. CASE next > Len(L)
  <2>1. pc' = "validate" /\ tenants' = tenants
    BY <1>1, <1>2, <1>6 DEF LoadTenant, Goto, L
  <2>2. next - 1 = Len(L)
    BY <1>1, <1>2, <1>6
  <2>3. /\ tenants = { L[i].id : i \in DOMAIN L }
        /\ \A i \in DOMAIN L :
              /\ ValidTenant(L[i]) /\ L[i].password
              /\ \A j \in DOMAIN L : L[i].id = L[j].id => i = j
    BY <1>1, <1>2, <2>2 DEF ReadUpTo, L
  <2>4. SoundTenants
    BY <1>1, <2>3 DEF SoundTenants, L
  <2>5. tenants # {}
    <3>1. 1 \in DOMAIN L
      BY <1>2
    <3> QED
      BY <2>3, <3>1
  <2> QED
    BY <1>3, <2>1, <2>3, <2>4, <2>5 DEF TenantsInv, Validated, L
<1> QED
  BY <1>1, <1>2, <1>4, <1>5, <1>6

LEMMA TenantsNext ==
    PlaceInv /\ SettingsInv /\ LibraryInv /\ TenantsInv /\ [Next]_vars
        => TenantsInv'
<1> SUFFICES ASSUME PlaceInv, SettingsInv, LibraryInv, TenantsInv, [Next]_vars
    PROVE  TenantsInv'
  OBVIOUS
<1>0. /\ env' = env /\ command' = command
      /\ SoundTenants' = SoundTenants /\ SoundLibrary' = SoundLibrary
  BY PlaceNext, EnvStays
<1>1. ASSUME command = "list" PROVE TenantsInv'
  BY <1>0, <1>1 DEF TenantsInv
<1>2. ASSUME UNCHANGED <<tenants, cfg>>,
             \/ pc' = pc /\ next' = next
             \/ pc \in Validated /\ pc' \in Validated \cup {"listed"}
      PROVE  TenantsInv'
  BY <1>0, <1>2 DEF TenantsInv, ReadUpTo, BadSettings, Validated, PlaceInv
<1>3. CASE LoadSettings
  BY <1>0, <1>3 DEF LoadSettings, library, TenantsInv, ReadUpTo, Validated,
     PlaceInv
<1>4. CASE LoadSingleTenant
  BY <1>0, <1>1, <1>4 DEF LoadSingleTenant, Goto, TenantsInv, Validated,
     SoundTenants, PlaceInv
<1>5. CASE RejectFile
  <2>1. env.file # NoFile \/ command = "list"
    BY <1>5 DEF RejectFile, TenantsInv, PlaceInv
  <2>2. command = "serve" => ~SoundTenants
    BY <1>5, <2>1 DEF RejectFile, SoundTenants
  <2> QED
    BY <1>0, <1>5, <2>2 DEF RejectFile, Goto, TenantsInv, Validated
<1>6. CASE LoadTenant
  BY <1>1, <1>6, FileStep DEF PlaceInv
<1>7. CASE Validate
  <2> SUFFICES ASSUME command = "serve" PROVE TenantsInv'
    BY <1>1 DEF PlaceInv
  <2>1. /\ pc = "validate" /\ UNCHANGED <<tenants, cfg>>
        /\ \/ pc' = "library"
           \/ /\ pc' = "exit2"
              /\ ~(/\ tenants # {}
                   /\ cfg.port \in 1 .. MaxPort
                   /\ cfg.timeout < cfg.cycle
                   /\ cfg.rows >= 0)
    BY <1>7 DEF Validate, Goto
  <2>2. cfg.cycle \in Int /\ cfg.timeout \in Int /\ cfg.rows \in Int
    <3>1. env.cycle \in Setting /\ env.timeout \in Setting
      BY StartupAssumption DEF PlaceInv
    <3> QED
      BY <2>1, <3>1, ParsedSeconds, StartupAssumption, DurationAssumption DEF SettingsInv
  <2>3. tenants # {}
    BY <2>1 DEF TenantsInv
  <2>4. pc' = "library" \/ (pc' = "exit2" /\ BadSettings)
    BY <2>1, <2>2, <2>3 DEF BadSettings
  <2> QED
    BY <1>0, <2>1, <2>4 DEF TenantsInv, BadSettings, Validated
<1>8. CASE LoadLibrary
  <2>1. /\ pc = "library" /\ UNCHANGED <<tenants, cfg>>
        /\ pc' \in {"merge", "exit2"}
    BY <1>8 DEF LoadLibrary, Goto
  <2>2. pc' = "exit2" => ~SoundLibrary
    BY <1>8, EntriesFacts DEF LoadLibrary, Goto, SoundLibrary
  <2> QED
    BY <1>0, <2>1, <2>2 DEF TenantsInv, Validated
<1>9. CASE MergeEntry \/ FilterDisabled
  BY <1>2, <1>9 DEF MergeEntry, FilterDisabled, Stay, Validated
<1>10. CASE RegisterGauge \/ Serve
  BY <1>2, <1>10 DEF RegisterGauge, Serve, Stay, Validated
<1>11. ASSUME NEW t \in tenants, MarkReady(t) \/ ReadFlag(t) PROVE TenantsInv'
  BY <1>2, <1>11 DEF MarkReady, ReadFlag, Started, library
<1>12. CASE BeginReady
  BY <1>2, <1>12 DEF BeginReady, Started, library
<1>13. CASE Stopped \/ UNCHANGED vars
  BY <1>2, <1>13 DEF Stopped, vars, library
<1> QED
  BY <1>3, <1>4, <1>5, <1>6, <1>7, <1>8, <1>9, <1>10, <1>11, <1>12, <1>13
  DEF Next

----------------------------------------------------------------------------
(* The registry: no two gauges of one name, and none that is refused.      *)
GaugesInv ==
    /\ pc \in Loading \cup {"merge"} => gauges = {}
    /\ gauges \subseteq Pairs(queries)
    /\ \A g \in gauges :
          /\ g[1].labels
          /\ GaugeName(g) \notin SelfNames
          /\ \A h \in gauges : GaugeName(g) = GaugeName(h) => g = h
    /\ pc = "serving" => gauges = Pairs(queries)
    /\ pc = "panic" => ~SoundGauges

LEMMA GaugesInit == Init => GaugesInv
BY DEF Init, GaugesInv

LEMMA PairsFacts ==
    ASSUME NEW g \in Pairs(queries)
    PROVE  g[1] \in queries
BY DEF Pairs

LEMMA GaugesNext == PlaceInv /\ GaugesInv /\ [Next]_vars => GaugesInv'
<1> SUFFICES ASSUME PlaceInv, GaugesInv, [Next]_vars PROVE GaugesInv'
  OBVIOUS
<1>1. ASSUME UNCHANGED <<queries, gauges>>,
             \/ pc' = pc
             \/ /\ pc \in Loading \cup {"merge"}
                /\ pc' \notin {"serving", "panic"}
      PROVE  GaugesInv'
  BY <1>1 DEF GaugesInv, Pairs, GaugeName, SoundGauges
<1>2. CASE LoadSettings
  BY <1>1, <1>2 DEF LoadSettings, library, Loading
<1>3. CASE LoadSingleTenant \/ RejectFile \/ LoadTenant \/ Validate
  BY <1>1, <1>3 DEF LoadSingleTenant, RejectFile, LoadTenant, Validate, Goto,
     Loading
<1>4. CASE LoadLibrary \/ MergeEntry
  BY <1>1, <1>4 DEF LoadLibrary, MergeEntry, Goto, Stay, Loading
<1>5. CASE FilterDisabled
  <2>1. gauges = {} /\ gauges' = {} /\ pc' \in {"listed", "register"}
    BY <1>5 DEF FilterDisabled, GaugesInv
  <2> QED
    BY <2>1 DEF GaugesInv, Loading
<1>6. CASE RegisterGauge
  <2>1. PICK g \in Pairs(queries) \ gauges :
           IF Taken(g) \/ ~g[1].labels
           THEN pc' = "panic" /\ UNCHANGED gauges
           ELSE gauges' = gauges \cup {g} /\ UNCHANGED pc
    BY <1>6 DEF RegisterGauge
  <2>2. pc = "register" /\ queries' = queries
    BY <1>6 DEF RegisterGauge
  <2>3. Pairs(queries)' = Pairs(queries) /\ SoundGauges' = SoundGauges
    BY <2>2 DEF Pairs, SoundGauges, GaugeName
  <2>4. CASE Taken(g) \/ ~g[1].labels
    <3>1. ~SoundGauges
      <4>1. CASE ~g[1].labels
        BY <4>1, PairsFacts DEF SoundGauges
      <4>2. CASE GaugeName(g) \in SelfNames
        BY <4>2 DEF SoundGauges
      <4>3. CASE \E h \in gauges : GaugeName(h) = GaugeName(g)
        BY <2>1, <4>3 DEF SoundGauges, GaugesInv
      <4> QED
        BY <2>4, <4>1, <4>2, <4>3 DEF Taken
    <3> QED
      BY <2>1, <2>2, <2>3, <2>4, <3>1 DEF GaugesInv, GaugeName, Loading
  <2>5. CASE ~(Taken(g) \/ ~g[1].labels)
    <3>1. /\ gauges' = gauges \cup {g} /\ pc' = pc /\ g[1].labels
          /\ GaugeName(g) \notin SelfNames
          /\ \A h \in gauges : GaugeName(h) # GaugeName(g)
      BY <2>1, <2>5 DEF Taken
    <3> QED
      BY <2>1, <2>2, <2>3, <3>1 DEF GaugesInv, GaugeName, Loading
  <2> QED
    BY <2>4, <2>5
<1>7. CASE Serve
  BY <1>7 DEF Serve, Stay, GaugesInv, Pairs, GaugeName, Loading
<1>8. ASSUME NEW t \in tenants, MarkReady(t) \/ ReadFlag(t) PROVE GaugesInv'
  BY <1>1, <1>8 DEF MarkReady, ReadFlag, Started, library
<1>9. CASE BeginReady
  BY <1>1, <1>9 DEF BeginReady, Started, library
<1>10. CASE Stopped \/ UNCHANGED vars
  BY <1>1, <1>10 DEF Stopped, vars, library
<1> QED
  BY <1>2, <1>3, <1>4, <1>5, <1>6, <1>7, <1>8, <1>9, <1>10 DEF Next

(* A process that serves has found nothing wrong, and one that does not has*)
(* (Load, LoadTenants, Merge, Register).                                   *)
THEOREM StartIsAllOrNothing == Spec => []AllOrNothing
<1> DEFINE Everything ==
       PlaceInv /\ SettingsInv /\ LibraryInv /\ TenantsInv /\ GaugesInv
<1>1. Everything => AllOrNothing
  <2> SUFFICES ASSUME Everything PROVE AllOrNothing
    OBVIOUS
  <2> USE DEF Merged, Validated
  <2>1. pc \in {"serving", "panic"} => command = "serve" /\ SoundTenants
    BY DEF PlaceInv, TenantsInv
  <2>2. ASSUME pc = "serving"
        PROVE  /\ SoundGauges /\ gauges = Pairs(queries)
               /\ env.file # NoFile =>
                     tenants = { env.file[i].id : i \in DOMAIN env.file }
    <3>1. gauges = Pairs(queries)
      BY <2>2 DEF GaugesInv
    <3>2. ASSUME NEW q \in queries PROVE q.labels
      <4>1. SoundLibrary
        BY <2>2 DEF LibraryInv
      <4>2. PICK i \in DOMAIN Entries : q = Entries[i]
        BY <2>2 DEF LibraryInv, ResolvedLibrary
      <4>3. q.values # << >> /\ List(q.values)
        BY <4>1, <4>2, EntriesFacts DEF SoundLibrary, ValidQuery
      <4>4. 1 \in DOMAIN q.values
        BY <4>3 DEF List
      <4>5. <<q, 1>> \in Pairs(queries)
        BY <4>4 DEF Pairs
      <4> QED
        BY <3>1, <4>5 DEF GaugesInv
    <3>3. SoundGauges
      BY <3>1, <3>2 DEF SoundGauges, GaugesInv
    <3> QED
      BY <2>1, <2>2, <3>1, <3>3 DEF TenantsInv
  <2>3. pc \in {"serving", "panic", "listed"} => SoundLibrary
    BY DEF LibraryInv
  <2>4. pc = "panic" => ~SoundGauges
    BY DEF GaugesInv
  <2>5. pc = "exit2" /\ command = "list" => ~SoundLibrary
    BY DEF LibraryInv
  <2>6. pc = "exit2" /\ command = "serve" =>
           ~SoundTenants \/ ~SoundLibrary \/ BadSettings
    BY DEF TenantsInv
  <2>7. command \in {"serve", "list"}
    BY DEF PlaceInv
  <2> QED
    BY <2>1, <2>2, <2>3, <2>4, <2>5, <2>6, <2>7 DEF AllOrNothing, BadSettings
<1>2. Init => Everything
  BY PlaceInit, SettingsInit, LibraryInit, TenantsInit, GaugesInit
<1>3. Everything /\ [Next]_vars => Everything'
  BY PlaceNext, SettingsNext, LibraryNext, TenantsNext, GaugesNext
<1> QED
  BY <1>1, <1>2, <1>3, PTL DEF Spec

============================================================================

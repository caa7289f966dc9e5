---------------------------- MODULE ProgramProofs ----------------------------
(***************************************************************************)
(* What TLAPS proves of Program and of Startup in it: for any number of    *)
(* requests and providers, any size of a batch and of the configuration    *)
(* file, and a signal at any time.                                         *)
(***************************************************************************)
EXTENDS Program, TopographerProofs, SequenceTheorems, WellFoundedInduction

-----------------------------------------------------------------------------
(* The inductive invariant, next to the one of Topographer.                *)

Shapes == PostShapes \cup GetShapes \cup {"none"}

Reports == [at : {"new", "locked", "read"}, success : Nat, failure : Nat]

ProgramTypes ==
    /\ conn \in [Requests -> {"none", "handler", "answered"}]
    /\ shape \in [Requests -> Shapes]
    /\ status \in [Requests -> Nat]
    /\ got \in [Lookups -> LookupResults \cup {"none"}]
    /\ noting \subseteq Lookups
    /\ mutex \in [Providers -> SUBSET (Lookups \cup Requests)]
    /\ seen \in [Lookups -> Nat]
    /\ successCount \in [Providers -> Nat]
    /\ failureCount \in [Providers -> Nat]
    /\ report \in [Requests -> [Providers -> Reports]]

(* There are handlers only while main serves or drains, and none once      *)
(* srv.Shutdown has returned.                                              *)
Drained ==
    /\ main \in {"config", "making", "starting", "listen", "failed"} =>
          \A r \in Requests : conn[r] = "none"
    /\ closer = "closed" \/ main = "exited" => \A r \in Requests : conn[r] # "handler"

(* Every IP of the request has a result in which some provider knows a     *)
(* city.                                                                   *)
Resolved(r) ==
    \A t \in TasksOf(r) : t \in rv[r] /\ \E p \in using[r] : got[<<t, p>>] = "city"

(* A 200 that is not about stats is the answer of a request that has       *)
(* returned.                                                               *)
Responses ==
    \A r \in Requests :
        /\ conn[r] # "answered" => status[r] = 0
        /\ status[r] = 200 /\ shape[r] # "stats" =>
              pc[r] = "returned" /\ (~ctxDone[r] => Resolved(r))

(* Every lookup returns once, and is noted before its detail is sent.      *)
Returns ==
    \A t \in Tasks, p \in Providers :
        /\ <<t, p>> \in noting => lookup[t][p] = "sending" /\ got[<<t, p>>] # "none"
        /\ lookup[t][p] \in {"none", "running"} => got[<<t, p>>] = "none"

(* A mutex has one holder: a lookup, whose counter does not change behind  *)
(* its back, or a report.                                                  *)
Holders ==
    \A p \in Providers :
        /\ \A x, y \in mutex[p] : x = y
        /\ \A l \in mutex[p] \cap Lookups : l[2] = p /\ l \in noting /\ seen[l] = CountOf(l)
        /\ \A r \in Requests : report[r][p].at = "locked" => r \in mutex[p]

(* The counters are right, even while a lookup is being noted.             *)
Counts ==
    \A p \in Providers :
        /\ successCount[p] = Cardinality(Counted(p, {"country", "city"}))
        /\ failureCount[p] = Cardinality(Counted(p, {"error"}))

(* What a report under way has read of the first counter is still so when  *)
(* it comes to read the second.                                            *)
ReportsAgree ==
    \A r \in Requests, p \in Providers :
        report[r][p].at = "locked" => report[r][p].success = successCount[p]

(* The providers that were made and started are the first ones of the      *)
(* configuration.                                                          *)
Starting == {"config", "making", "starting", "listen", "failed"}

Configured ==
    /\ main \in Starting \cup {"serving", "draining", "exited"}
    /\ main \in Starting => file \in Files
    /\ main = "config" => made = 0 /\ started = 0 /\ running = {}
    /\ main \in {"making", "starting", "listen"} =>
          /\ conf = Unmarshal(file)
          /\ ~Duplicated(conf)
          /\ made \in 0..Len(conf) /\ started \in 0..made
          /\ \A k \in 1..made : CanBeMade(conf[k])
          /\ running \subseteq 1..started
    /\ main = "making" => started = 0
    /\ main \in {"starting", "listen"} => made = Len(conf)
    /\ main = "listen" => started = Len(conf)
    /\ main \notin {"making", "starting", "listen"} => running = {}

PInv ==
    /\ IInv
    /\ ProgramTypes
    /\ Drained
    /\ Responses
    /\ Returns
    /\ Holders
    /\ Counts
    /\ ReportsAgree
    /\ Configured

-----------------------------------------------------------------------------
(* Startup.                                                                *)

(* A set of numbers that is not empty has a smallest one.                  *)
LEMMA SmallestNumber ==
    ASSUME NEW S \in SUBSET Nat, S # {}
    PROVE  \E m \in S : \A k \in S : m <= k
<1>1. \E m \in S : \A k \in S : <<k, m>> \notin OpToRel(<, Nat)
  BY NatLessThanWellFounded, WFMin
<1>2. \A k, m \in S : <<k, m>> \notin OpToRel(<, Nat) => m <= k
  BY DEF OpToRel
<1>3. QED
  BY <1>1, <1>2

(* A configuration file is a sequence of entries.                          *)
LEMMA FilesAreSequences ==
    ASSUME NEW f \in Files
    PROVE  /\ Len(f) \in Nat
           /\ DOMAIN f = 1..Len(f)
           /\ \A k \in DOMAIN f : f[k] \in Entries
<1>1. f \in Seq(Entries)
  BY EntriesAssumption, SeqDef DEF Files
<1>2. QED
  BY <1>1, LenProperties

(* What is decoded is the beginning of the file: all of it, or everything  *)
(* up to the first entry that cannot be decoded.                           *)
LEMMA UnmarshalParts ==
    ASSUME NEW f \in Files
    PROVE  LET c == Unmarshal(f) IN
           /\ Len(c) \in Nat
           /\ DOMAIN c = 1..Len(c)
           /\ Len(c) <= Len(f)
           /\ \A k \in DOMAIN c : k \in DOMAIN f /\ c[k] = Decoded(f[k])
           /\ Len(c) = Len(f) \/ Len(c) \in Bad(f)
<1> DEFINE c == Unmarshal(f)
           ok(k) == \A j \in Bad(f) : k <= j
<1>0. Len(f) \in Nat /\ DOMAIN f = 1..Len(f)
  BY FilesAreSequences
<1>1. DOMAIN c = {k \in DOMAIN f : ok(k)}
  BY DEF Unmarshal
<1>2. \A k \in DOMAIN c : k \in DOMAIN f /\ c[k] = Decoded(f[k])
  BY DEF Unmarshal
<1> HIDE DEF c
<1>3. \E n \in Nat : n <= Len(f) /\ DOMAIN c = 1..n /\ (n = Len(f) \/ n \in Bad(f))
  <2>1. CASE Bad(f) = {}
    <3>1. DOMAIN c = 1..Len(f)
      BY <1>0, <1>1, <2>1
    <3>2. Len(f) \in Nat /\ Len(f) <= Len(f)
      BY <1>0
    <3>3. QED
      BY <3>1, <3>2, Zenon
  <2>2. CASE Bad(f) # {}
    <3>1. Bad(f) \in SUBSET Nat
      BY <1>0 DEF Bad
    <3>2. PICK m \in Bad(f) : \A j \in Bad(f) : m <= j
      BY <2>2, <3>1, SmallestNumber
    <3>3. m \in 1..Len(f)
      BY <1>0, <3>2 DEF Bad
    <3>4. \A k \in 1..Len(f) : ok(k) <=> k <= m
      BY <1>0, <3>1, <3>2, <3>3
    <3>5. DOMAIN c = 1..m
      BY <1>0, <1>1, <3>3, <3>4
    <3>6. m \in Nat /\ m <= Len(f)
      BY <1>0, <3>3
    <3>7. QED
      BY <3>2, <3>5, <3>6, Zenon
  <2>3. QED
    BY <2>1, <2>2
<1>4. PICK n \in Nat : n <= Len(f) /\ DOMAIN c = 1..n /\ (n = Len(f) \/ n \in Bad(f))
  BY <1>3
<1>5. c \in Seq({Decoded(f[k]) : k \in DOMAIN f})
  <2>1. c \in [1..n -> {Decoded(f[k]) : k \in DOMAIN f}]
    BY <1>2, <1>4 DEF c, Unmarshal
  <2>2. QED
    BY <2>1, SeqDef
<1>6. Len(c) = n
  BY <1>4, <1>5, LenProperties
<1>7. QED
  BY <1>2, <1>4, <1>6 DEF c

(* Names, strings and directories: what Decoded keeps of an entry that a   *)
(* provider can be made of.                                                *)
LEMMA MadeIsNamed ==
    ASSUME NEW e \in Entries, CanBeMade(Decoded(e))
    PROVE  /\ Decoded(e).name = e.name
           /\ e.bad # "none" => e.bad \in {"rate_limit_interval", "update_every"}
BY DEF Entries, Decoded, CanBeMade, Supported, Names, BeforeName, Durations

(* Every step of the start keeps the configuration consistent.             *)
LEMMA StartupKeepsConfigured ==
    ASSUME Configured, StartupStep
    PROVE  Configured'
<1>1. CASE ParseConfig
  <2>1. file \in Files /\ conf' = Unmarshal(file) /\ Len(conf') \in Nat
    BY <1>1, UnmarshalParts DEF ParseConfig, Configured, Starting
  <2>2. QED
    BY <1>1, <2>1 DEF ParseConfig, Configured, Starting
<1>2. CASE MakeProvider
  BY <1>2 DEF MakeProvider, Configured, Starting
<1>3. CASE MakeProviderFails
  BY <1>3 DEF MakeProviderFails, Configured, Starting, startupVars
<1>4. CASE ProvidersAreMade
  BY <1>4 DEF ProvidersAreMade, Configured, Starting, startupVars
<1>5. CASE StartProvider
  BY <1>5 DEF StartProvider, Configured, Starting
<1>6. CASE StartFails
  BY <1>6 DEF StartFails, Configured, Starting
<1>7. CASE TopographerIsMade
  BY <1>7 DEF TopographerIsMade, Configured, Starting, startupVars
<1>8. QED
  BY <1>1, <1>2, <1>3, <1>4, <1>5, <1>6, <1>7 DEF StartupStep

(* Every entry of the file is started, or comes after one that broke the   *)
(* decoding and could still be started.                                    *)
LEMMA ConfiguredStarts == Configured => StartsAsConfigured
<1> SUFFICES ASSUME Configured, main = "listen", NEW k \in DOMAIN file
             PROVE  \/ k <= started /\ conf[k].name = file[k].name
                    \/ \E j \in 1..(k - 1) :
                          file[j].bad \in {"rate_limit_interval", "update_every"}
  BY DEF StartsAsConfigured, Configured
<1>1. /\ file \in Files /\ conf = Unmarshal(file)
      /\ started = Len(conf) /\ \A n \in 1..Len(conf) : CanBeMade(conf[n])
  BY DEF Configured, Starting
<1>2. /\ Len(file) \in Nat /\ DOMAIN file = 1..Len(file)
      /\ \A n \in DOMAIN file : file[n] \in Entries
  BY <1>1, FilesAreSequences
<1>3. /\ Len(conf) \in Nat /\ DOMAIN conf = 1..Len(conf) /\ Len(conf) <= Len(file)
      /\ \A n \in DOMAIN conf : n \in DOMAIN file /\ conf[n] = Decoded(file[n])
      /\ Len(conf) = Len(file) \/ Len(conf) \in Bad(file)
  BY <1>1, UnmarshalParts
<1>4. ASSUME NEW n \in DOMAIN conf
      PROVE  /\ conf[n].name = file[n].name
             /\ file[n].bad # "none" =>
                   file[n].bad \in {"rate_limit_interval", "update_every"}
  BY <1>1, <1>2, <1>3, MadeIsNamed
<1>5. k \in Nat /\ k >= 1 /\ k <= Len(file)
  BY <1>2
<1>6. CASE k <= Len(conf)
  BY <1>1, <1>3, <1>4, <1>5, <1>6
<1>7. CASE k > Len(conf)
  <2> DEFINE n == Len(conf)
             m == Len(file)
  <2>0. n \in Nat /\ m \in Nat /\ (n = m \/ n \in Bad(file))
    BY <1>2, <1>3
  <2> HIDE DEF n, m
  <2>1. n # m
    BY <1>5, <1>7, <2>0 DEF n, m
  <2>2. n \in Bad(file) /\ n \in 1..m
    BY <1>2, <2>0, <2>1 DEF Bad, m
  <2>3. n \in 1..(k - 1) /\ n \in 1..n
    BY <1>5, <1>7, <2>0, <2>2 DEF n
  <2>4. file[n].bad \in {"rate_limit_interval", "update_every"}
    BY <1>3, <1>4, <2>2, <2>3 DEF Bad, n
  <2>5. QED
    BY <2>3, <2>4
<1>8. QED
  BY <1>3, <1>5, <1>6, <1>7

-----------------------------------------------------------------------------
(* The steps of the program, and what they are to Topographer.             *)

(* Steps inside Topographer that the program does not take part in.        *)
InnerStep ==
    \/ \E r \in Requests, names \in Queries : Resolve(r, names)
    \/ \E r \in Requests : RequestStep(r) /\ UNCHANGED programVars
    \/ \E r \in Requests : ContextDone(r) /\ UNCHANGED programVars
    \/ \E t \in Tasks : TaskStep(t) /\ UNCHANGED programVars
    \/ \E t \in Tasks, p \in Providers : DetailStep(t, p)

(* Steps of main and of the goroutine that shuts the server down.          *)
MainKinds ==
    \/ StartStep \/ Listen \/ ServeReturns \/ MainReturns
    \/ Signal \/ ServerShutdown \/ ServerIsDown

(* The kinds of steps.                                                     *)
LEMMA ProgramStepKinds ==
    ASSUME [ProgramNext]_allVars
    PROVE  \/ InnerStep
           \/ MainKinds
           \/ \E r \in Requests : \E s \in ShapesOf(r) : Accept(r, s)
           \/ \E r \in Requests : Refuse(r)
           \/ \E r \in Requests : ResolveEnds(r)
           \/ \E r \in Requests : StatsEnd(r)
           \/ \E r \in Requests, p \in Providers : MarshalLocks(r, p)
           \/ \E r \in Requests, p \in Providers : MarshalUnlocks(r, p)
           \/ \E t \in Tasks, p \in Providers, what \in LookupResults : LookupEnds(t, p, what)
           \/ \E l \in Lookups : NotifyLocks(l)
           \/ \E l \in Lookups : NotifyUnlocks(l)
           \/ UNCHANGED allVars
<1>1. \A t \in Tasks, p \in Providers : <<t, p>> \in Lookups
  BY DEF Lookups
<1>2. CASE UNCHANGED allVars
  BY <1>2
<1>3. CASE Environment
  BY <1>3 DEF Environment, InnerStep, MainKinds
<1>4. CASE \E r \in Requests : HandlerStep(r)
  BY <1>4 DEF HandlerStep, InnerStep
<1>5. CASE \E t \in Tasks, p \in Providers : ProviderStep(t, p)
  BY <1>1, <1>5 DEF ProviderStep, InnerStep
<1>6. CASE (\E t \in Tasks : TaskStep(t) /\ UNCHANGED programVars) \/ ServerStep \/ MainStep
  BY <1>6 DEF InnerStep, MainKinds, ServerStep, MainStep
<1>7. QED
  BY <1>2, <1>3, <1>4, <1>5, <1>6 DEF ProgramNext, Run

(* A process that has ended takes no step.                                 *)
LEMMA EndedIsFinal == [ProgramNext]_allVars /\ ended => UNCHANGED allVars
BY DEF ProgramNext, Run, Environment

(* The program changes Topographer's state only by Topographer's steps.    *)
LEMMA ProgramProjects == [ProgramNext]_allVars => [Next]_vars
<1> SUFFICES ASSUME [ProgramNext]_allVars
             PROVE  [Next]_vars
  OBVIOUS
<1>1. CASE InnerStep
  BY <1>1 DEF InnerStep, Resolve, DetailStep, Next, LookupStep
<1>2. CASE MainKinds
  BY <1>2
     DEF MainKinds, StartStep, Listen, ServeReturns, MainReturns, Signal, ServerShutdown,
         ServerIsDown
<1>3. ASSUME NEW t \in Tasks, NEW p \in Providers, NEW what \in LookupResults,
             LookupEnds(t, p, what)
      PROVE  [Next]_vars
  BY <1>3 DEF LookupEnds, Next, LookupStep
<1>4. QED
  BY <1>1, <1>2, <1>3, ProgramStepKinds
     DEF Accept, Refuse, ResolveEnds, StatsEnd, MarshalLocks, MarshalUnlocks, NotifyLocks,
         NotifyUnlocks, allVars

(* Every behaviour of the program is one of Topographer (in which Shutdown *)
(* is never called): what is proved of Topographer holds in the program.   *)
THEOREM ProgramImplementsTopographer == ProgramSpec => Spec
<1>1. ProgramInit => Init
  BY DEF ProgramInit
<1>2. QED
  BY <1>1, ProgramProjects, PTL DEF ProgramSpec, Spec

-----------------------------------------------------------------------------
(* Every step preserves the invariant, part by part.                       *)

(* The inner steps and those of main leave the responses and the counters  *)
(* alone.                                                                  *)
LEMMA InnerFrame == InnerStep => UNCHANGED programVars
BY DEF InnerStep, Resolve, DetailStep

LEMMA MainFrame == MainKinds => UNCHANGED <<vars, httpVars, statVars>>
BY DEF MainKinds, StartStep, Listen, ServeReturns, MainReturns, Signal, ServerShutdown,
       ServerIsDown

(* The lookups of a provider can be counted.                               *)
LEMMA CountedIsFinite ==
    ASSUME NEW p, NEW outcomes
    PROVE  /\ IsFiniteSet(Counted(p, outcomes))
           /\ Cardinality(Counted(p, outcomes)) \in Nat
<1>0. 1 \in Int /\ BatchSize \in Int
  BY SizesAssumption
<1>1. IsFiniteSet(Requests) /\ IsFiniteSet(1..BatchSize) /\ IsFiniteSet({p})
  BY <1>0, SizesAssumption, FS_Interval, FS_Singleton
<1>2. IsFiniteSet(Requests \X (1..BatchSize))
  BY <1>1, FS_Product
<1>3. IsFiniteSet(Tasks)
  <2>1. Tasks \in SUBSET (Requests \X (1..BatchSize))
    BY DEF Tasks
  <2>2. QED
    BY <1>2, <2>1, FS_Subset
<1>4. IsFiniteSet(Tasks \X {p})
  BY <1>1, <1>3, FS_Product
<1>5. Counted(p, outcomes) \in SUBSET (Tasks \X {p})
  BY DEF Counted, Lookups
<1>6. QED
  BY <1>4, <1>5, FS_Subset, FS_CardinalityType

(* The types.                                                              *)
LEMMA ProgramTypesStep == PInv /\ [ProgramNext]_allVars => ProgramTypes'
<1> SUFFICES ASSUME PInv, [ProgramNext]_allVars
             PROVE  ProgramTypes'
  OBVIOUS
<1>0. ProgramTypes
  BY DEF PInv
<1>1. CASE UNCHANGED <<httpVars, statVars>>
  BY <1>0, <1>1 DEF httpVars, statVars, ProgramTypes
<1>2. ASSUME NEW r \in Requests, NEW s \in ShapesOf(r), Accept(r, s)
      PROVE  ProgramTypes'
  <2>1. s \in Shapes
    BY DEF ShapesOf, Shapes
  <2>2. QED
    BY <1>0, <1>2, <2>1 DEF Accept, statVars, ProgramTypes
<1>3. ASSUME NEW r \in Requests, NEW code \in Nat, Respond(r, code),
             UNCHANGED <<shape, statVars>>
      PROVE  ProgramTypes'
  BY <1>0, <1>3 DEF Respond, statVars, ProgramTypes
<1>4. ASSUME NEW r \in Requests, NEW p \in Providers, MarshalLocks(r, p)
      PROVE  ProgramTypes'
  <2>1. mutex' \in [Providers -> SUBSET (Lookups \cup Requests)]
    BY <1>0, <1>4 DEF MarshalLocks, ProgramTypes
  <2>2. report' \in [Requests -> [Providers -> Reports]]
    <3> DEFINE new == [at |-> "locked", success |-> successCount[p], failure |-> 0]
    <3>1. new \in Reports
      BY <1>0 DEF ProgramTypes, Reports
    <3>2. report' = [report EXCEPT ![r][p] = new]
      BY <1>4 DEF MarshalLocks
    <3> HIDE DEF new
    <3>3. QED
      BY <1>0, <3>1, <3>2 DEF ProgramTypes
  <2>3. QED
    BY <1>0, <1>4, <2>1, <2>2 DEF MarshalLocks, httpVars, ProgramTypes
<1>5. ASSUME NEW r \in Requests, NEW p \in Providers, MarshalUnlocks(r, p)
      PROVE  ProgramTypes'
  <2>1. mutex' \in [Providers -> SUBSET (Lookups \cup Requests)]
    BY <1>0, <1>5 DEF MarshalUnlocks, ProgramTypes
  <2> DEFINE new == [report[r][p] EXCEPT !.at = "read", !.failure = failureCount[p]]
  <2>2. new \in Reports
    <3>1. report[r][p] \in Reports /\ failureCount[p] \in Nat
      BY <1>0 DEF ProgramTypes
    <3>2. QED
      BY <3>1 DEF Reports
  <2>3. report' = [report EXCEPT ![r][p] = new]
    BY <1>5, Zenon DEF MarshalUnlocks
  <2> HIDE DEF new
  <2>4. report' \in [Requests -> [Providers -> Reports]]
    BY <1>0, <2>2, <2>3 DEF ProgramTypes
  <2>5. QED
    BY <1>0, <1>5, <2>1, <2>4 DEF MarshalUnlocks, httpVars, ProgramTypes
<1>6. ASSUME NEW t \in Tasks, NEW p \in Providers, NEW what \in LookupResults,
             LookupEnds(t, p, what)
      PROVE  ProgramTypes'
  BY <1>0, <1>6 DEF LookupEnds, httpVars, ProgramTypes, Lookups
<1>7. ASSUME NEW l \in Lookups, NotifyLocks(l)
      PROVE  ProgramTypes'
  BY <1>0, <1>7 DEF NotifyLocks, CountOf, httpVars, ProgramTypes, Lookups
<1>8. ASSUME NEW l \in Lookups, NotifyUnlocks(l)
      PROVE  ProgramTypes'
  <2>1. l[2] \in Providers /\ seen[l] + 1 \in Nat
    BY <1>0 DEF ProgramTypes, Lookups
  <2>2. mutex' \in [Providers -> SUBSET (Lookups \cup Requests)]
    BY <1>0, <1>8, <2>1 DEF NotifyUnlocks, ProgramTypes
  <2>3. successCount' \in [Providers -> Nat] /\ failureCount' \in [Providers -> Nat]
    BY <1>0, <1>8, <2>1 DEF NotifyUnlocks, ProgramTypes
  <2>4. QED
    BY <1>0, <1>8, <2>2, <2>3 DEF NotifyUnlocks, httpVars, ProgramTypes
<1>9. ASSUME NEW r \in Requests, Refuse(r) \/ ResolveEnds(r) \/ StatsEnd(r)
      PROVE  ProgramTypes'
  <2>1. shape[r] \in DOMAIN Refusals => Refusals[shape[r]] \in Nat
    BY DEF Refusals
  <2>2. 200 \in Nat /\ 500 \in Nat /\ 503 \in Nat
    OBVIOUS
  <2>3. \E code \in Nat : Respond(r, code)
    <3>1. CASE Refuse(r)
      BY <2>1, <3>1, Zenon DEF Refuse
    <3>2. CASE ResolveEnds(r)
      BY <2>2, <3>2, Zenon DEF ResolveEnds
    <3>3. CASE StatsEnd(r)
      BY <2>2, <3>3, Zenon DEF StatsEnd
    <3>4. QED
      BY <1>9, <3>1, <3>2, <3>3
  <2>4. UNCHANGED <<shape, statVars>>
    BY <1>9 DEF Refuse, ResolveEnds, StatsEnd
  <2>5. QED
    BY <1>3, <2>3, <2>4
<1>10. QED
  BY <1>1, <1>2, <1>4, <1>5, <1>6, <1>7, <1>8, <1>9, ProgramStepKinds, InnerFrame, MainFrame
     DEF allVars, programVars

(* Handlers come and go with the server.                                   *)
LEMMA DrainedStep == PInv /\ [ProgramNext]_allVars => Drained'
<1> SUFFICES ASSUME PInv, [ProgramNext]_allVars
             PROVE  Drained'
  OBVIOUS
<1>0. ProgramTypes /\ Drained
  BY DEF PInv
<1>1. CASE UNCHANGED <<serverVars, conn>>
  BY <1>0, <1>1 DEF serverVars, Drained
<1>2. ASSUME NEW r \in Requests, NEW s, Accept(r, s)
      PROVE  Drained'
  BY <1>0, <1>2 DEF Accept, serverVars, ProgramTypes, Drained
<1>3. ASSUME NEW r \in Requests, NEW code, Respond(r, code), conn[r] = "handler",
             UNCHANGED serverVars
      PROVE  Drained'
  BY <1>0, <1>3 DEF Respond, serverVars, ProgramTypes, Drained
<1>4. CASE MainKinds
  <2>1. UNCHANGED conn
    BY <1>4, MainFrame DEF httpVars
  <2>2. CASE StartStep
    <3>1. /\ main \in {"config", "making", "starting"}
          /\ main' \in {"config", "making", "starting", "listen", "failed"}
          /\ UNCHANGED closer
      BY <2>2
         DEF StartStep, StartupStep, ParseConfig, MakeProvider, MakeProviderFails,
             ProvidersAreMade, StartProvider, StartFails, TopographerIsMade
    <3>2. QED
      BY <1>0, <2>1, <3>1 DEF Drained
  <2>3. CASE Listen \/ ServeReturns \/ MainReturns
    BY <1>0, <2>1, <2>3 DEF Listen, ServeReturns, MainReturns, Drained
  <2>4. CASE Signal \/ ServerShutdown \/ ServerIsDown
    BY <1>0, <2>1, <2>4 DEF Signal, ServerShutdown, ServerIsDown, Drained
  <2>5. QED
    BY <1>4, <2>2, <2>3, <2>4 DEF MainKinds
<1>5. ASSUME NEW r \in Requests, Refuse(r) \/ ResolveEnds(r) \/ StatsEnd(r)
      PROVE  Drained'
  BY <1>3, <1>5 DEF Refuse, ResolveEnds, StatsEnd
<1>6. QED
  BY <1>1, <1>2, <1>4, <1>5, ProgramStepKinds, InnerFrame
     DEF MarshalLocks, MarshalUnlocks, LookupEnds, NotifyLocks, NotifyUnlocks, allVars,
         programVars, httpVars

(* What a request that has returned was told is not taken back.            *)
LEMMA ResolvedIsFinal ==
    ASSUME PInv, [ProgramNext]_allVars, NEW q \in Requests, pc[q] = "returned"
    PROVE  /\ pc'[q] = "returned"
           /\ ctxDone'[q] = ctxDone[q]
           /\ Resolved(q) => Resolved(q)'
<1>0. IInv /\ ProgramTypes /\ [Next]_vars
  BY ProgramProjects DEF PInv
<1>1. pc'[q] = "returned" /\ UNCHANGED <<rv[q], using[q], ctxDone[q]>>
  BY <1>0, ReturnedStep DEF ReturnedIsFinal
<1>2. using[q] \in SUBSET Providers
  BY <1>0 DEF IInv, Types
<1>3. ASSUME NEW t \in TasksOf(q), NEW p \in Providers
      PROVE  got'[<<t, p>>] = got[<<t, p>>]
  <2>1. t \in Tasks /\ t[1] = q
    BY DEF TasksOf
  <2>2. lookup[t][p] # "running"
    BY <1>0, <2>1, LookupHasReader DEF Readers, Busy
  <2>3. ASSUME NEW u \in Tasks, NEW z \in Providers, NEW what \in LookupResults,
               LookupEnds(u, z, what)
        PROVE  got'[<<t, p>>] = got[<<t, p>>]
    <3>1. <<u, z>> # <<t, p>>
      BY <2>2, <2>3 DEF LookupEnds, LookupReturns
    <3>2. QED
      BY <1>0, <2>1, <2>3, <3>1 DEF LookupEnds, ProgramTypes, Lookups
  <2>4. CASE UNCHANGED got
    BY <2>4
  <2>5. QED
    BY <2>3, <2>4, ProgramStepKinds, InnerFrame, MainFrame
       DEF Accept, Refuse, ResolveEnds, StatsEnd, MarshalLocks, MarshalUnlocks, NotifyLocks,
           NotifyUnlocks, allVars, programVars, statVars
<1>4. QED
  BY <1>1, <1>2, <1>3 DEF Resolved

(* A 200 is given to a request that has returned its results.              *)
LEMMA ResponsesStep == PInv /\ [ProgramNext]_allVars => Responses'
<1> SUFFICES ASSUME PInv, [ProgramNext]_allVars, NEW q \in Requests
             PROVE  Responses!(q)'
  BY DEF Responses
<1>0. IInv /\ ProgramTypes /\ Responses!(q)
  BY DEF PInv, Responses
<1>1. CASE UNCHANGED <<conn[q], shape[q], status[q]>>
  BY <1>0, <1>1, ResolvedIsFinal
<1>2. ASSUME NEW r \in Requests, NEW s, Accept(r, s)
      PROVE  Responses!(q)'
  <2>1. CASE r # q
    BY <1>0, <1>1, <1>2, <2>1 DEF Accept, ProgramTypes
  <2>2. CASE r = q
    BY <1>0, <1>2, <2>2 DEF Accept, ProgramTypes
  <2>3. QED
    BY <2>1, <2>2
<1>3. ASSUME NEW r \in Requests, NEW code, Respond(r, code), UNCHANGED shape,
             code = 200 /\ shape[r] # "stats" =>
                 pc'[r] = "returned" /\ (~ctxDone'[r] => Resolved(r)')
      PROVE  Responses!(q)'
  <2>1. CASE r # q
    BY <1>0, <1>1, <1>3, <2>1 DEF Respond, ProgramTypes
  <2>2. CASE r = q
    BY <1>0, <1>3, <2>2 DEF Respond, ProgramTypes
  <2>3. QED
    BY <2>1, <2>2
<1>4. ASSUME NEW r \in Requests, Refuse(r)
      PROVE  Responses!(q)'
  <2>1. shape[r] \in DOMAIN Refusals => Refusals[shape[r]] # 200
    BY DEF Refusals
  <2>2. QED
    BY <1>3, <1>4, <2>1 DEF Refuse
<1>5. ASSUME NEW r \in Requests, StatsEnd(r)
      PROVE  Responses!(q)'
  BY <1>3, <1>5 DEF StatsEnd
<1>6. ASSUME NEW r \in Requests, ResolveEnds(r)
      PROVE  Responses!(q)'
  <2>1. pc'[r] = "returned" /\ ctxDone'[r] = ctxDone[r] /\ UNCHANGED shape
    BY <1>6, ResolvedIsFinal DEF ResolveEnds
  <2>2. ASSUME outcome[r] = "result", AllOK(r), ~ctxDone[r]
        PROVE  Resolved(r)'
    <3>1. rv[r] = TasksOf(r) /\ \A t \in rv[r] : details[t] = using[r]
      BY <1>0, <1>6, <2>2, IInvComplete DEF ResolveEnds, ResultsAreComplete
    <3>2. Resolved(r)
      BY <2>2, <3>1 DEF AllOK, MayBeOK, Resolved
    <3>3. QED
      BY <1>6, <3>2, ResolvedIsFinal DEF ResolveEnds
  <2>3. CASE Respond(r, 500) \/ Respond(r, 503)
    BY <1>3, <2>1, <2>3
  <2>4. CASE outcome[r] = "result" /\ AllOK(r) /\ Respond(r, 200)
    BY <1>3, <2>1, <2>2, <2>4
  <2>5. QED
    BY <1>6, <2>3, <2>4 DEF ResolveEnds
<1>7. CASE UNCHANGED httpVars
  BY <1>1, <1>7 DEF httpVars
<1>8. \/ UNCHANGED httpVars
      \/ \E r \in Requests : \E s \in ShapesOf(r) : Accept(r, s)
      \/ \E r \in Requests : Refuse(r) \/ ResolveEnds(r) \/ StatsEnd(r)
  BY ProgramStepKinds, InnerFrame, MainFrame
     DEF MarshalLocks, MarshalUnlocks, LookupEnds, NotifyLocks, NotifyUnlocks, allVars,
         programVars
<1>9. QED
  BY <1>2, <1>4, <1>5, <1>6, <1>7, <1>8

(* A lookup that is invoked has not returned before, and one that is noted *)
(* does not send its detail.                                               *)
LEMMA ReturnsStep == PInv /\ [ProgramNext]_allVars => Returns'
<1> SUFFICES ASSUME PInv, [ProgramNext]_allVars, NEW u \in Tasks, NEW z \in Providers
             PROVE  Returns!(u, z)'
  BY DEF Returns
<1>0. IInv /\ Types /\ ProgramTypes /\ Returns!(u, z) /\ <<u, z>> \in Lookups
  BY DEF PInv, IInv, Returns, Lookups
<1>1. CASE UNCHANGED <<lookup, got, noting>>
  BY <1>0, <1>1
<1>2. ASSUME NEW r \in Requests, Invoke(r), UNCHANGED programVars
      PROVE  Returns!(u, z)'
  <2>1. UNCHANGED <<got, noting>>
    BY <1>2 DEF programVars, statVars
  <2>2. CASE u # <<r, next[r]>>
    BY <1>0, <1>2, <2>1, <2>2 DEF Invoke, Types
  <2>3. CASE u = <<r, next[r]>>
    <3>1. next[r] \in Nat
      BY <1>0, SizesAssumption DEF Types
    <3>2. worker[u] = "none"
      BY <1>0, <2>3, <3>1 DEF IInv, Submitted
    <3>3. lookup[u][z] = "none"
      BY <1>0, <3>2 DEF IInv, Asking
    <3>4. got[<<u, z>>] = "none" /\ <<u, z>> \notin noting
      BY <1>0, <3>3
    <3>5. QED
      BY <2>1, <3>4
  <2>4. QED
    BY <2>2, <2>3
<1>3. ASSUME NEW t \in Tasks, NEW p \in Providers, DetailStep(t, p)
      PROVE  Returns!(u, z)'
  <2>1. UNCHANGED <<got, noting>>
    BY <1>3 DEF DetailStep, programVars, statVars
  <2>2. lookup' = [lookup EXCEPT ![t][p] = "done"] /\ <<t, p>> \notin noting
    BY <1>3 DEF DetailStep, SendDetail, DropDetail
  <2>3. QED
    BY <1>0, <2>1, <2>2 DEF Types
<1>4. ASSUME NEW t \in Tasks, NEW p \in Providers, NEW what \in LookupResults,
             LookupEnds(t, p, what)
      PROVE  Returns!(u, z)'
  <2>1. what # "none"
    BY DEF LookupResults
  <2>2. QED
    BY <1>0, <1>4, <2>1 DEF LookupEnds, LookupReturns, Types, ProgramTypes
<1>5. ASSUME NEW l \in Lookups, NotifyUnlocks(l)
      PROVE  Returns!(u, z)'
  BY <1>0, <1>5 DEF NotifyUnlocks, vars, taskVars
<1>6. CASE InnerStep
  <2>1. UNCHANGED <<got, noting>>
    BY <1>6, InnerFrame DEF programVars, statVars
  <2>2. QED
    BY <1>1, <1>2, <1>3, <1>6, <2>1
       DEF InnerStep, Resolve, Begin, RequestStep, Submit, ResolveReturns,
           CloseResultChannel, Collect, ResolveAllReturns, ContextDone, TaskStep, SendResult,
           DropResult, TaskDone, taskVars
<1>7. QED
  BY <1>1, <1>4, <1>5, <1>6, ProgramStepKinds, MainFrame
     DEF Accept, Refuse, ResolveEnds, StatsEnd, MarshalLocks, MarshalUnlocks, NotifyLocks,
         allVars, programVars, vars, taskVars, statVars

(* A lookup that runs is not being noted.                                  *)
LEMMA RunningIsNotNoted ==
    ASSUME PInv, NEW t \in Tasks, NEW p \in Providers, NEW what, LookupEnds(t, p, what)
    PROVE  <<t, p>> \notin noting /\ got[<<t, p>>] = "none"
BY DEF PInv, Returns, LookupEnds, LookupReturns

(* While a lookup holds the mutex of its provider, no report does.         *)
LEMMA NoReportIsLocked ==
    ASSUME PInv, NEW l \in Lookups, l \in mutex[l[2]], NEW r \in Requests
    PROVE  /\ report[r][l[2]].at # "locked"
           /\ mutex[l[2]] = {l} /\ l[2] \in Providers
           /\ l \in noting /\ seen[l] = CountOf(l)
<1>1. l[2] \in Providers
  BY DEF Lookups
<1>2. QED
  BY <1>1, HoldersAssumption DEF PInv, Holders

(* The mutex keeps the others out.                                         *)
LEMMA HoldersStep == PInv /\ [ProgramNext]_allVars => Holders'
<1> SUFFICES ASSUME PInv, [ProgramNext]_allVars, NEW q \in Providers
             PROVE  Holders!(q)'
  BY DEF Holders
<1>0. ProgramTypes /\ Holders!(q)
  BY DEF PInv, Holders
<1>1. CASE UNCHANGED statVars
  BY <1>0, <1>1 DEF statVars, CountOf
<1>2. ASSUME NEW t \in Tasks, NEW p \in Providers, NEW what \in LookupResults,
             LookupEnds(t, p, what)
      PROVE  Holders!(q)'
  <2>1. \A l \in mutex[q] \cap Lookups : l # <<t, p>> /\ got'[l] = got[l]
    <3>1. <<t, p>> \notin noting
      BY <1>2, RunningIsNotNoted
    <3>2. \A l \in Lookups : l # <<t, p>> => got'[l] = got[l]
      BY <1>0, <1>2 DEF LookupEnds, ProgramTypes
    <3>3. QED
      BY <1>0, <3>1, <3>2
  <2>2. QED
    BY <1>0, <1>2, <2>1 DEF LookupEnds, CountOf
<1>3. ASSUME NEW l \in Lookups, NotifyLocks(l)
      PROVE  Holders!(q)'
  <2>1. l[2] \in Providers
    BY DEF Lookups
  <2>2. CASE l[2] # q
    BY <1>0, <1>3, <2>1, <2>2 DEF NotifyLocks, CountOf, ProgramTypes
  <2>3. CASE l[2] = q
    <3>1. mutex'[q] = {l} /\ mutex[q] = {}
      BY <1>0, <1>3, <2>3 DEF NotifyLocks, ProgramTypes, Free
    <3>2. seen'[l] = CountOf(l)' /\ l \in noting'
      BY <1>0, <1>3 DEF NotifyLocks, CountOf, ProgramTypes
    <3>3. UNCHANGED report
      BY <1>3 DEF NotifyLocks
    <3>4. QED
      BY <1>0, <2>3, <3>1, <3>2, <3>3
  <2>4. QED
    BY <2>2, <2>3
<1>4. ASSUME NEW l \in Lookups, NotifyUnlocks(l)
      PROVE  Holders!(q)'
  <2>1. l[2] \in Providers
    BY DEF Lookups
  <2>2. CASE l[2] # q
    <3>1. /\ mutex'[q] = mutex[q] /\ successCount'[q] = successCount[q]
          /\ failureCount'[q] = failureCount[q] /\ UNCHANGED <<got, seen, report>>
      BY <1>0, <1>4, <2>1, <2>2 DEF NotifyUnlocks, ProgramTypes
    <3>2. \A k \in mutex[q] \cap Lookups : k[2] = q /\ k \in noting'
      BY <1>0, <1>4, <2>2 DEF NotifyUnlocks
    <3>3. QED
      BY <1>0, <3>1, <3>2 DEF CountOf
  <2>3. CASE l[2] = q
    <3>1. mutex'[q] = {} /\ UNCHANGED report
      BY <1>0, <1>4, <2>3 DEF NotifyUnlocks, ProgramTypes
    <3>2. \A r \in Requests : report[r][q].at # "locked"
      BY <1>4, <2>3, NoReportIsLocked DEF NotifyUnlocks
    <3>3. QED
      BY <3>1, <3>2
  <2>4. QED
    BY <2>2, <2>3
<1>5. ASSUME NEW r \in Requests, NEW p \in Providers, MarshalLocks(r, p)
      PROVE  Holders!(q)'
  <2>1. UNCHANGED <<got, noting, seen, successCount, failureCount>>
    BY <1>5 DEF MarshalLocks
  <2>2. CASE p # q
    <3>1. mutex'[q] = mutex[q] /\ \A x \in Requests : report'[x][q] = report[x][q]
      BY <1>0, <1>5, <2>2 DEF MarshalLocks, ProgramTypes
    <3>2. QED
      BY <1>0, <2>1, <3>1 DEF CountOf
  <2>3. CASE p = q
    <3>1. mutex'[q] = {r} /\ mutex[q] = {}
      BY <1>0, <1>5, <2>3 DEF MarshalLocks, ProgramTypes, Free
    <3>2. \A x \in Requests : x # r => report'[x][q] = report[x][q]
      BY <1>0, <1>5, <2>3 DEF MarshalLocks, ProgramTypes
    <3>3. r \notin Lookups
      BY HoldersAssumption
    <3>4. QED
      BY <1>0, <3>1, <3>2, <3>3
  <2>4. QED
    BY <2>2, <2>3
<1>6. ASSUME NEW r \in Requests, NEW p \in Providers, MarshalUnlocks(r, p)
      PROVE  Holders!(q)'
  <2>1. UNCHANGED <<got, noting, seen, successCount, failureCount>>
    BY <1>6 DEF MarshalUnlocks
  <2>2. CASE p # q
    <3>1. mutex'[q] = mutex[q] /\ \A x \in Requests : report'[x][q] = report[x][q]
      BY <1>0, <1>6, <2>2 DEF MarshalUnlocks, ProgramTypes
    <3>2. QED
      BY <1>0, <2>1, <3>1 DEF CountOf
  <2>3. CASE p = q
    <3>1. mutex'[q] = {} /\ mutex[q] = {r}
      BY <1>0, <1>6, <2>3 DEF MarshalUnlocks, ProgramTypes
    <3>2. \A x \in Requests : x # r => report'[x][q] = report[x][q]
      BY <1>0, <1>6, <2>3 DEF MarshalUnlocks, ProgramTypes
    <3>3. report'[r][q].at = "read"
      BY <1>0, <1>6, <2>3 DEF MarshalUnlocks, ProgramTypes, Reports
    <3>4. QED
      BY <1>0, <3>1, <3>2, <3>3
  <2>4. QED
    BY <2>2, <2>3
<1>7. QED
  BY <1>1, <1>2, <1>3, <1>4, <1>5, <1>6, ProgramStepKinds, InnerFrame, MainFrame
     DEF Accept, Refuse, ResolveEnds, StatsEnd, allVars, programVars

(* What NotifyUnlocks adds to the lookups that are counted, and LookupEnds *)
(* does not.                                                               *)
LEMMA NotifyCounts ==
    ASSUME PInv, NEW l \in Lookups, NotifyUnlocks(l), NEW p \in Providers, NEW outcomes
    PROVE  /\ l[2] = p /\ got[l] \in outcomes =>
                 Cardinality(Counted(p, outcomes)') = Cardinality(Counted(p, outcomes)) + 1
           /\ l[2] # p \/ got[l] \notin outcomes =>
                 Counted(p, outcomes)' = Counted(p, outcomes)
<1>1. noting' = noting \ {l} /\ got' = got /\ l \in noting
  BY NoReportIsLocked DEF NotifyUnlocks, PInv, Holders, Lookups
<1>2. CASE l[2] = p /\ got[l] \in outcomes
  <2>1. Counted(p, outcomes)' = Counted(p, outcomes) \cup {l} /\ l \notin Counted(p, outcomes)
    BY <1>1, <1>2 DEF Counted
  <2>2. IsFiniteSet(Counted(p, outcomes))
    BY CountedIsFinite
  <2>3. QED
    BY <1>2, <2>1, <2>2, FS_AddElement
<1>3. CASE l[2] # p \/ got[l] \notin outcomes
  BY <1>1, <1>3 DEF Counted
<1>4. QED
  BY <1>2, <1>3

LEMMA LookupEndsCounts ==
    ASSUME PInv, NEW t \in Tasks, NEW z \in Providers, NEW what \in LookupResults,
           LookupEnds(t, z, what), NEW p, NEW outcomes \in SUBSET LookupResults
    PROVE  Counted(p, outcomes)' = Counted(p, outcomes)
<1>1. got[<<t, z>>] = "none" /\ "none" \notin outcomes
  BY RunningIsNotNoted DEF LookupResults
<1>2. /\ noting' = noting \cup {<<t, z>>}
      /\ \A l \in Lookups : l # <<t, z>> => got'[l] = got[l]
  BY DEF LookupEnds, PInv, ProgramTypes
<1>3. QED
  BY <1>1, <1>2 DEF Counted

(* Every lookup is counted once, on the right side.                        *)
LEMMA CountsStep == PInv /\ [ProgramNext]_allVars => Counts'
<1> SUFFICES ASSUME PInv, [ProgramNext]_allVars, NEW q \in Providers
             PROVE  Counts!(q)'
  BY DEF Counts
<1>0. ProgramTypes /\ Counts!(q)
  BY DEF PInv, Counts
<1>1. CASE UNCHANGED <<got, noting, successCount, failureCount>>
  BY <1>0, <1>1 DEF Counted
<1>2. ASSUME NEW t \in Tasks, NEW p \in Providers, NEW what \in LookupResults,
             LookupEnds(t, p, what)
      PROVE  Counts!(q)'
  <2>1. UNCHANGED <<successCount, failureCount>>
    BY <1>2 DEF LookupEnds
  <2>2. {"country", "city"} \in SUBSET LookupResults /\ {"error"} \in SUBSET LookupResults
    BY DEF LookupResults
  <2>3. /\ Counted(q, {"country", "city"})' = Counted(q, {"country", "city"})
        /\ Counted(q, {"error"})' = Counted(q, {"error"})
    BY <1>2, <2>2, LookupEndsCounts
  <2>4. QED
    BY <1>0, <2>1, <2>3
<1>3. ASSUME NEW l \in Lookups, NotifyUnlocks(l)
      PROVE  Counts!(q)'
  <2>1. /\ l \in noting /\ seen[l] = CountOf(l) /\ l[2] \in Providers
        /\ got[l] \in LookupResults
    <3>1. l \in mutex[l[2]] /\ l[2] \in Providers
      BY <1>3 DEF NotifyUnlocks, Lookups
    <3>2. l \in noting /\ seen[l] = CountOf(l)
      BY <3>1 DEF PInv, Holders
    <3>3. \E t \in Tasks, p \in Providers : l = <<t, p>>
      BY DEF Lookups
    <3>4. got[l] # "none"
      BY <3>2, <3>3 DEF PInv, Returns
    <3>5. QED
      BY <1>0, <3>1, <3>2, <3>4 DEF ProgramTypes
  <2>2. CASE l[2] # q
    <3>1. successCount'[q] = successCount[q] /\ failureCount'[q] = failureCount[q]
      BY <1>0, <1>3, <2>1, <2>2 DEF NotifyUnlocks, ProgramTypes
    <3>2. QED
      BY <1>0, <1>3, <2>2, <3>1, NotifyCounts
  <2>3. CASE l[2] = q /\ got[l] = "error"
    <3>1. successCount'[q] = successCount[q] /\ failureCount'[q] = failureCount[q] + 1
      BY <1>0, <1>3, <2>1, <2>3 DEF NotifyUnlocks, CountOf, ProgramTypes
    <3>2. QED
      BY <1>0, <1>3, <2>3, <3>1, NotifyCounts
  <2>4. CASE l[2] = q /\ got[l] # "error"
    <3>1. successCount'[q] = successCount[q] + 1 /\ failureCount'[q] = failureCount[q]
      BY <1>0, <1>3, <2>1, <2>4 DEF NotifyUnlocks, CountOf, ProgramTypes
    <3>2. got[l] \in {"country", "city"}
      BY <2>1, <2>4 DEF LookupResults
    <3>3. QED
      BY <1>0, <1>3, <2>4, <3>1, <3>2, NotifyCounts
  <2>5. QED
    BY <2>2, <2>3, <2>4
<1>4. QED
  BY <1>1, <1>2, <1>3, ProgramStepKinds, InnerFrame, MainFrame
     DEF Accept, Refuse, ResolveEnds, StatsEnd, MarshalLocks, MarshalUnlocks, NotifyLocks,
         allVars, programVars, statVars

(* A report reads both counters between two changes of either.             *)
LEMMA ReportsAgreeStep == PInv /\ [ProgramNext]_allVars => ReportsAgree'
<1> SUFFICES ASSUME PInv, [ProgramNext]_allVars, NEW q \in Requests, NEW z \in Providers
             PROVE  ReportsAgree!(q, z)'
  BY DEF ReportsAgree
<1>0. ProgramTypes /\ ReportsAgree!(q, z)
  BY DEF PInv, ReportsAgree
<1>1. CASE UNCHANGED <<successCount, failureCount, report>>
  BY <1>0, <1>1
<1>2. ASSUME NEW l \in Lookups, NotifyUnlocks(l)
      PROVE  ReportsAgree!(q, z)'
  <2>1. UNCHANGED report
    BY <1>2 DEF NotifyUnlocks
  <2>2. CASE l[2] = z
    <3>1. report[q][z].at # "locked"
      BY <1>2, <2>2, NoReportIsLocked DEF NotifyUnlocks
    <3>2. QED
      BY <1>0, <2>1, <3>1
  <2>3. CASE l[2] # z
    <3>1. successCount'[z] = successCount[z] /\ failureCount'[z] = failureCount[z]
      BY <1>0, <1>2, <2>3 DEF NotifyUnlocks, ProgramTypes
    <3>2. QED
      BY <1>0, <2>1, <3>1
  <2>4. QED
    BY <2>2, <2>3
<1>3. ASSUME NEW r \in Requests, NEW p \in Providers, MarshalLocks(r, p)
      PROVE  ReportsAgree!(q, z)'
  <2>1. UNCHANGED <<successCount, failureCount>>
    BY <1>3 DEF MarshalLocks
  <2>2. CASE q = r /\ z = p
    <3>1. report'[q][z] = [at |-> "locked", success |-> successCount[z], failure |-> 0]
      BY <1>0, <1>3, <2>2 DEF MarshalLocks, ProgramTypes
    <3>2. QED
      BY <2>1, <3>1
  <2>3. CASE q # r \/ z # p
    <3>1. report'[q][z] = report[q][z]
      BY <1>0, <1>3, <2>3 DEF MarshalLocks, ProgramTypes
    <3>2. QED
      BY <1>0, <2>1, <3>1
  <2>4. QED
    BY <2>2, <2>3
<1>4. ASSUME NEW r \in Requests, NEW p \in Providers, MarshalUnlocks(r, p)
      PROVE  ReportsAgree!(q, z)'
  <2>1. UNCHANGED <<successCount, failureCount>>
    BY <1>4 DEF MarshalUnlocks
  <2>2. CASE q = r /\ z = p
    <3>1. report'[q][z] = [report[q][z] EXCEPT !.at = "read", !.failure = failureCount[z]]
      BY <1>0, <1>4, <2>2 DEF MarshalUnlocks, ProgramTypes
    <3>2. report[q][z] \in Reports
      BY <1>0 DEF ProgramTypes
    <3>3. report'[q][z].at = "read"
      BY <3>1, <3>2 DEF Reports
    <3>4. QED
      BY <3>3
  <2>3. CASE q # r \/ z # p
    <3>1. report'[q][z] = report[q][z]
      BY <1>0, <1>4, <2>3 DEF MarshalUnlocks, ProgramTypes
    <3>2. QED
      BY <1>0, <2>1, <3>1
  <2>4. QED
    BY <2>2, <2>3
<1>5. QED
  BY <1>1, <1>2, <1>3, <1>4, ProgramStepKinds, InnerFrame, MainFrame
     DEF Accept, Refuse, ResolveEnds, StatsEnd, LookupEnds, NotifyLocks, allVars, programVars,
         statVars

(* The configuration and the providers made of it, up to the start.        *)
LEMMA ConfiguredStep == PInv /\ [ProgramNext]_allVars => Configured'
<1> SUFFICES ASSUME PInv, [ProgramNext]_allVars
             PROVE  Configured'
  OBVIOUS
<1>0. Configured
  BY DEF PInv
<1>1. CASE UNCHANGED <<main, startupVars>>
  BY <1>0, <1>1 DEF startupVars, Configured
<1>2. CASE StartStep
  BY <1>0, <1>2, StartupKeepsConfigured DEF StartStep
<1>3. CASE Listen
  BY <1>3 DEF Listen, Configured, Starting
<1>4. CASE ServeReturns \/ MainReturns
  BY <1>0, <1>4 DEF ServeReturns, MainReturns, startupVars, Configured, Starting
<1>5. QED
  BY <1>1, <1>2, <1>3, <1>4, ProgramStepKinds, InnerFrame
     DEF MainKinds, Signal, ServerShutdown, ServerIsDown, Accept, Refuse, ResolveEnds,
         StatsEnd, MarshalLocks, MarshalUnlocks, LookupEnds, NotifyLocks, NotifyUnlocks,
         allVars, programVars, serverVars

-----------------------------------------------------------------------------
(* The invariant, and what follows from it.                                *)

(* The invariant holds at the start.                                       *)
LEMMA InitPInv == ProgramInit => PInv
<1> SUFFICES ASSUME ProgramInit
             PROVE  PInv
  OBVIOUS
<1>1. IInv
  BY InitIInv DEF ProgramInit
<1>2. ProgramTypes
  <2>1. NoReport \in Reports
    BY DEF NoReport, Reports
  <2>2. report \in [Requests -> [Providers -> Reports]]
    BY <2>1 DEF ProgramInit
  <2>3. QED
    BY <2>2 DEF ProgramInit, ProgramTypes, Shapes, Free
<1>3. Drained /\ Responses /\ Returns
  BY DEF ProgramInit, Drained, Responses, Returns, Lookups
<1>4. Holders /\ ReportsAgree
  BY DEF ProgramInit, Holders, ReportsAgree, NoReport, Free
<1>5. Counts
  <2>1. ASSUME NEW p \in Providers, NEW outcomes \in SUBSET LookupResults
        PROVE  Cardinality(Counted(p, outcomes)) = 0
    <3>1. Counted(p, outcomes) = {}
      BY DEF ProgramInit, Counted, LookupResults
    <3>2. QED
      BY <3>1, FS_EmptySet
  <2>2. {"country", "city"} \in SUBSET LookupResults /\ {"error"} \in SUBSET LookupResults
    BY DEF LookupResults
  <2>3. QED
    BY <2>1, <2>2 DEF ProgramInit, Counts
<1>6. Configured
  BY DEF ProgramInit, StartupInit, Configured, Starting
<1>7. QED
  BY <1>1, <1>2, <1>3, <1>4, <1>5, <1>6 DEF PInv

(* Every step preserves the invariant.                                     *)
LEMMA StepPInv == PInv /\ [ProgramNext]_allVars => PInv'
<1>1. PInv /\ [ProgramNext]_allVars => IInv'
  BY ProgramProjects, StepIInv DEF PInv
<1>2. QED
  BY <1>1, ProgramTypesStep, DrainedStep, ResponsesStep, ReturnsStep, HoldersStep, CountsStep,
     ReportsAgreeStep, ConfiguredStep DEF PInv

(* The inductive invariant of the program holds in every state.            *)
THEOREM ProgramInvariance == ProgramSpec => []PInv
BY InitPInv, StepPInv, PTL DEF ProgramSpec

(* main does not return, and the process does not end, under a handler:    *)
(* whatever is accepted before srv.Shutdown is answered.                   *)
THEOREM NoRequestIsCutOff == ProgramSpec => []ExitAfterAnswers
<1>1. PInv => ExitAfterAnswers
  BY DEF PInv, Drained, ExitAfterAnswers, ended
<1>2. QED
  BY <1>1, ProgramInvariance, PTL

(* A 200 whose client still waits has a result with a city for every IP,   *)
(* whatever other requests and their lookups do.                           *)
THEOREM OkIsEarned == ProgramSpec => []OkMeansResolved
<1>1. PInv => OkMeansResolved
  BY DEF PInv, Responses, Resolved, OkMeansResolved
<1>2. QED
  BY <1>1, ProgramInvariance, PTL

(* No increment of a counter is lost or made twice by lookups that end at  *)
(* the same time.                                                          *)
THEOREM NoUseIsLost == ProgramSpec => []EveryUseIsCounted
<1>1. PInv => EveryUseIsCounted
  BY DEF PInv, Counts, EveryUseIsCounted
<1>2. QED
  BY <1>1, ProgramInvariance, PTL

(* For a file with any number of entries: a program that starts has made   *)
(* and started every one up to the first that cannot be decoded.           *)
THEOREM StartIsComplete == ProgramSpec => []StartsAsConfigured
<1>1. PInv => StartsAsConfigured
  BY ConfiguredStarts DEF PInv
<1>2. QED
  BY <1>1, ProgramInvariance, PTL

-----------------------------------------------------------------------------
(* UsageStats are atomic.                                                  *)

(* A step that leaves the statistics alone is not seen.                    *)
LEMMA StatsUnseen ==
    ASSUME UNCHANGED <<got, noting, successCount, failureCount>>, Told' = Told
    PROVE  UNCHANGED Stats!vars
BY DEF Stats!vars, Used, Uses

(* What is told of a provider is told when the mutex is given back.        *)
LEMMA ToldStep ==
    ASSUME PInv, PInv', NEW r \in Requests, NEW p \in Providers,
           \A q \in Requests, z \in Providers :
              q # r \/ z # p => report'[q][z] = report[q][z]
    PROVE  Told' = [Told EXCEPT ![r][p] = Told'[r][p]]
<1> DEFINE Tellings == SUBSET [success : Nat, failure : Nat]
<1>1. Told \in [Requests -> [Providers -> Tellings]]
  BY DEF PInv, ProgramTypes, Reports, Told
<1>2. Told' \in [Requests -> [Providers -> Tellings]]
  BY DEF PInv, ProgramTypes, Reports, Told
<1>3. \A q \in Requests, z \in Providers : q # r \/ z # p => Told'[q][z] = Told[q][z]
  BY DEF Told
<1> HIDE DEF Tellings
<1>4. \A q \in Requests : q # r => Told'[q] = Told[q]
  BY <1>1, <1>2, <1>3
<1>5. Told'[r] = [Told[r] EXCEPT ![p] = Told'[r][p]]
  BY <1>1, <1>2, <1>3
<1>6. QED
  BY <1>1, <1>2, <1>4, <1>5

LEMMA LookupEndsSeen ==
    ASSUME PInv, NEW t \in Tasks, NEW p \in Providers, NEW what \in LookupResults,
           LookupEnds(t, p, what)
    PROVE  Stats!Return(<<t, p>>)
<1>0. ProgramTypes /\ <<t, p>> \in Lookups
  BY DEF PInv, Lookups
<1>1. <<t, p>> \notin noting /\ got[<<t, p>>] = "none"
  BY RunningIsNotNoted
<1>2. Used' = Used
  <2>1. noting' = noting \cup {<<t, p>>} /\ got' = [got EXCEPT ![<<t, p>>] = what]
    BY DEF LookupEnds
  <2>2. \A l \in Lookups : l # <<t, p>> => got'[l] = got[l]
    BY <1>0, <2>1 DEF ProgramTypes
  <2>3. QED
    BY <1>1, <2>1, <2>2 DEF Used
<1>3. Uses' = Uses /\ Told' = Told
  BY DEF LookupEnds, Uses, Told
<1>4. what \in {"error", "country", "city"} /\ got' = [got EXCEPT ![<<t, p>>] = what]
  BY DEF LookupEnds, LookupResults
<1>5. QED
  BY <1>1, <1>2, <1>3, <1>4 DEF Stats!Return

LEMMA NotifyUnlocksSeen ==
    ASSUME PInv, NEW l \in Lookups, NotifyUnlocks(l)
    PROVE  Stats!Use(l)
<1>0. ProgramTypes /\ l[2] \in Providers
  BY DEF PInv, Lookups
<1>1. l \in noting /\ seen[l] = CountOf(l)
  BY <1>0 DEF NotifyUnlocks, PInv, Holders
<1>2. got[l] # "none"
  <2>1. \E t \in Tasks, p \in Providers : l = <<t, p>>
    BY DEF Lookups
  <2>2. QED
    BY <1>1, <2>1 DEF PInv, Returns
<1>3. l \notin Used /\ Used' = Used \cup {l}
  BY <1>1, <1>2 DEF Used, NotifyUnlocks
<1>4. Uses' = [Uses EXCEPT ![l[2]] = Stats!OneMore(Uses[l[2]], got[l])]
  <2>1. Uses[l[2]] = [success |-> successCount[l[2]], failure |-> failureCount[l[2]]]
    BY <1>0 DEF Uses
  <2>2. CASE got[l] = "error"
    <3>1. /\ failureCount' = [failureCount EXCEPT ![l[2]] = failureCount[l[2]] + 1]
          /\ successCount' = successCount
      BY <1>1, <2>2 DEF NotifyUnlocks, CountOf
    <3>2. Stats!OneMore(Uses[l[2]], got[l])
            = [success |-> successCount[l[2]], failure |-> failureCount[l[2]] + 1]
      BY <2>1, <2>2 DEF Stats!OneMore
    <3>3. QED
      BY <1>0, <3>1, <3>2 DEF Uses, ProgramTypes
  <2>3. CASE got[l] # "error"
    <3>1. /\ successCount' = [successCount EXCEPT ![l[2]] = successCount[l[2]] + 1]
          /\ failureCount' = failureCount
      BY <1>1, <2>3 DEF NotifyUnlocks, CountOf
    <3>2. Stats!OneMore(Uses[l[2]], got[l])
            = [success |-> successCount[l[2]] + 1, failure |-> failureCount[l[2]]]
      BY <2>1, <2>3 DEF Stats!OneMore
    <3>3. QED
      BY <1>0, <3>1, <3>2 DEF Uses, ProgramTypes
  <2>4. QED
    BY <2>2, <2>3
<1>5. Told' = Told /\ got' = got
  BY DEF NotifyUnlocks, Told
<1>6. QED
  BY <1>2, <1>3, <1>4, <1>5 DEF Stats!Use

LEMMA MarshalUnlocksSeen ==
    ASSUME PInv, PInv', NEW r \in Requests, NEW p \in Providers, MarshalUnlocks(r, p)
    PROVE  Stats!Tell(r, p)
<1> DEFINE x == [report[r][p] EXCEPT !.at = "read", !.failure = failureCount[p]]
<1>0. ProgramTypes /\ report[r][p] \in Reports /\ failureCount[p] \in Nat
  BY DEF PInv, ProgramTypes
<1>1. report[r][p].at = "locked" /\ report[r][p].success = successCount[p]
  BY DEF MarshalUnlocks, PInv, ReportsAgree
<1>2. x \in Reports /\ x.at = "read" /\ x.success = successCount[p] /\ x.failure = failureCount[p]
  BY <1>0, <1>1 DEF Reports
<1>3. report' = [report EXCEPT ![r][p] = x]
  BY Zenon DEF MarshalUnlocks
<1> HIDE DEF x
<1>4. Told'[r][p] = {Uses[p]}
  <2>1. report'[r][p] = x
    BY <1>0, <1>3 DEF ProgramTypes
  <2>2. QED
    BY <1>2, <2>1 DEF Told, Uses
<1>5. Told' = [Told EXCEPT ![r][p] = {Uses[p]}]
  <2>1. \A q \in Requests, z \in Providers :
           q # r \/ z # p => report'[q][z] = report[q][z]
    BY <1>0, <1>3 DEF ProgramTypes
  <2>2. Told' = [Told EXCEPT ![r][p] = Told'[r][p]]
    BY <2>1, ToldStep
  <2>3. QED
    BY <1>4, <2>2
<1>6. Told[r][p] = {}
  BY <1>1 DEF Told
<1>7. UNCHANGED <<got, Used, Uses>>
  BY DEF MarshalUnlocks, Used, Uses
<1>8. QED
  BY <1>5, <1>6, <1>7 DEF Stats!Tell

LEMMA MarshalLocksUnseen ==
    ASSUME PInv, NEW r \in Requests, NEW p \in Providers, MarshalLocks(r, p)
    PROVE  UNCHANGED Stats!vars
<1> DEFINE x == [at |-> "locked", success |-> successCount[p], failure |-> 0]
<1>1. x \in Reports /\ x.at # "read"
  BY DEF PInv, ProgramTypes, Reports
<1>2. report' = [report EXCEPT ![r][p] = x]
  BY DEF MarshalLocks
<1> HIDE DEF x
<1>3. Told[r][p] = {} /\ Told'[r][p] = {}
  <2>1. report'[r][p] = x
    BY <1>2 DEF PInv, ProgramTypes
  <2>2. QED
    BY <1>1, <2>1 DEF Told, MarshalLocks
<1>4. \A q \in Requests, z \in Providers : Told'[q][z] = Told[q][z]
  <2>1. \A q \in Requests, z \in Providers :
           q # r \/ z # p => report'[q][z] = report[q][z]
    BY <1>2 DEF PInv, ProgramTypes
  <2>2. QED
    BY <1>3, <2>1 DEF Told
<1>5. Told' = Told
  BY <1>4 DEF Told
<1>6. QED
  BY <1>5, StatsUnseen DEF MarshalLocks

(* Every step is a step of the contract or is not seen.                    *)
LEMMA StatsStep == PInv /\ [ProgramNext]_allVars => [Stats!Next]_(Stats!vars)
<1> SUFFICES ASSUME PInv, [ProgramNext]_allVars
             PROVE  [Stats!Next]_(Stats!vars)
  OBVIOUS
<1>0. PInv'
  BY StepPInv
<1>1. CASE UNCHANGED <<got, noting, successCount, failureCount, report>>
  BY <1>1, StatsUnseen DEF Told
<1>2. ASSUME NEW t \in Tasks, NEW p \in Providers, NEW what \in LookupResults,
             LookupEnds(t, p, what)
      PROVE  Stats!Next
  <2>1. <<t, p>> \in Lookups
    BY DEF Lookups
  <2>2. QED
    BY <1>2, <2>1, LookupEndsSeen DEF Stats!Next
<1>3. ASSUME NEW l \in Lookups, NotifyUnlocks(l)
      PROVE  Stats!Next
  BY <1>3, NotifyUnlocksSeen DEF Stats!Next
<1>4. ASSUME NEW r \in Requests, NEW p \in Providers, MarshalUnlocks(r, p)
      PROVE  Stats!Next
  BY <1>0, <1>4, MarshalUnlocksSeen DEF Stats!Next
<1>5. ASSUME NEW r \in Requests, NEW p \in Providers, MarshalLocks(r, p)
      PROVE  UNCHANGED Stats!vars
  BY <1>5, MarshalLocksUnseen
<1>6. \/ UNCHANGED <<got, noting, successCount, failureCount, report>>
      \/ \E r \in Requests, p \in Providers : MarshalLocks(r, p) \/ MarshalUnlocks(r, p)
      \/ \E t \in Tasks, p \in Providers, what \in LookupResults : LookupEnds(t, p, what)
      \/ \E l \in Lookups : NotifyUnlocks(l)
  BY ProgramStepKinds, InnerFrame, MainFrame
     DEF Accept, Refuse, ResolveEnds, StatsEnd, NotifyLocks, allVars, programVars, statVars
<1>7. QED
  BY <1>1, <1>2, <1>3, <1>4, <1>5, <1>6

LEMMA StatsInit == ProgramInit => Stats!Init
<1> SUFFICES ASSUME ProgramInit
             PROVE  Stats!Init
  OBVIOUS
<1>1. got = [l \in Lookups |-> "none"] /\ Used = {}
  BY DEF ProgramInit, Used
<1>2. Uses = [p \in Providers |-> [success |-> 0, failure |-> 0]]
  BY DEF ProgramInit, Uses
<1>3. Told = [r \in Requests |-> [p \in Providers |-> {}]]
  BY DEF ProgramInit, Told, NoReport
<1>4. QED
  BY <1>1, <1>2, <1>3 DEF Stats!Init

(* notifyUsed and MarshalJSON are atomic, for any number of requests,      *)
(* lookups and providers: no use is lost or counted twice, and what /stats *)
(* tells of a provider are its two counters at one moment.                 *)
THEOREM StatsAreAtomic == ProgramSpec => ImplementsUsageStats
<1>1. PInv /\ [ProgramNext]_allVars => [Stats!Next]_(Stats!vars)
  BY StatsStep
<1>2. QED
  BY <1>1, StatsInit, ProgramInvariance, PTL DEF ProgramSpec, ImplementsUsageStats, Stats!Spec
=============================================================================

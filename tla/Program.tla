------------------------------- MODULE Program -------------------------------
(***************************************************************************)
(* The program around Topographer: main (main.go; Startup has how it       *)
(* starts), the HTTP handlers (http.go, http_handler_get.go,               *)
(* http_handler_post.go) and the UsageStats of each provider.  A request   *)
(* that is not refused becomes a call of Resolve (GET) or ResolveAll       *)
(* (POST), and its outcome a status.  A signal ends the root context, upon *)
(* which a goroutine shuts the server down and lets main return.           *)
(*                                                                         *)
(* main never calls Topographer.Shutdown, so that its steps do not occur   *)
(* here; for the updaters the exit is the end of the process that          *)
(* FsUpdater lets happen at any time.  Signals, the listener and           *)
(* http.Server are modelled from how main uses them.                       *)
(***************************************************************************)
EXTENDS Topographer, Startup

VARIABLES
    rootDone,  \* is rootCtx done?
    closer,    \* where the goroutine that waits for rootCtx is
    conn,      \* where the handler of each request is
    shape,     \* what the request looks like
    status,    \* the status code of its response
    got,       \* what each lookup has returned
    noting,    \* lookups that have returned and not ended notifyUsed yet
    mutex,     \* UsageStats.mutex of each provider: the set of its holder, or Free
    seen,      \* the counter that its holder has read
    successCount, failureCount,
    report     \* what MarshalJSON has read for each request

serverVars == <<main, rootDone, closer, startupVars>>
ended      == main \in {"exited", "failed"}
httpVars   == <<conn, shape, status>>
statVars   == <<got, noting, mutex, seen, successCount, failureCount, report>>
programVars == <<serverVars, httpVars, statVars>>
allVars    == <<vars, programVars>>

Lookups == Tasks \X Providers
Free    == {}

(* A request is not a lookup.                                              *)
ASSUME HoldersAssumption == Requests \cap Lookups = {}

(* What a lookup can return: an error, a country, a country and a city.    *)
(* ip2c and Software77 never know the city.                                *)
LookupResults == {"error", "country", "city"}

-----------------------------------------------------------------------------
(* The requests.                                                           *)

(* The status of requests that are refused before anything is resolved, in *)
(* the order in which the code looks at them.                              *)
Refusals == [noCredentials |-> 401, otherMethod |-> 405, unknownPath |-> 404,
             unknownAddress |-> 500, notJson |-> 415, malformedJson |-> 500,
             badBody |-> 400]

PostShapes == {"post", "notJson", "malformedJson", "badBody", "unknownPath",
               "noCredentials"}
GetShapes  == {"get", "stats", "unknownAddress", "unknownPath", "otherMethod",
               "noCredentials"}

ShapesOf(r) == IF r \in Batches THEN PostShapes ELSE GetShapes

(* http.Server accepts a connection and calls the handler.                 *)
Accept(r, s) ==
    /\ main = "serving"
    /\ closer = "waiting"
    /\ conn[r] = "none"
    /\ conn' = [conn EXCEPT ![r] = "handler"]
    /\ shape' = [shape EXCEPT ![r] = s]
    /\ UNCHANGED <<vars, serverVars, status, statVars>>

Respond(r, code) ==
    /\ conn' = [conn EXCEPT ![r] = "answered"]
    /\ status' = [status EXCEPT ![r] = code]

Refuse(r) ==
    /\ conn[r] = "handler"
    /\ shape[r] \in DOMAIN Refusals
    /\ Respond(r, Refusals[shape[r]])
    /\ UNCHANGED <<vars, serverVars, shape, statVars>>

(* handleGetIP asks all providers, handlePost the ones of its body.        *)
Resolve(r, names) ==
    /\ conn[r] = "handler"
    /\ \/ shape[r] = "get" /\ names = {}
       \/ shape[r] = "post"
    /\ Begin(r, names)
    /\ UNCHANGED programVars

(* Has the merged result of task t a country and a city (ResolveResult.OK)?*)
(* With several providers the vote may select either one's country.        *)
MayBeOK(t)    == \E p \in details[t] : got[<<t, p>>] = "city"
MayBeNotOK(t) ==
    (\A p \in details[t] : got[<<t, p>>] = "error")
        \/ \E p \in details[t] : got[<<t, p>>] = "country"

(* Mutant of AllOK: one good result is enough.                             *)
AllOKIfOne(r) == \E t \in rv[r] : MayBeOK(t)

(* Every result that was returned is good.  A Resolve that was cancelled   *)
(* returns an empty one, which is not; a batch may return fewer.           *)
AllOK(r) ==
    /\ r \notin Batches => rv[r] # {}
    /\ \A t \in rv[r] : MayBeOK(t)

SomeNotOK(r) ==
    \/ r \notin Batches /\ rv[r] = {}
    \/ \E t \in rv[r] : MayBeNotOK(t)

ResolveEnds(r) ==
    /\ conn[r] = "handler"
    /\ pc[r] = "returned"
    /\ \/ outcome[r] # "result"                 /\ Respond(r, 500)
       \/ outcome[r] = "result" /\ SomeNotOK(r) /\ Respond(r, 503)
       \/ outcome[r] = "result" /\ AllOK(r)     /\ Respond(r, 200)
    /\ UNCHANGED <<vars, serverVars, shape, statVars>>

-----------------------------------------------------------------------------
(* UsageStats.  The steps of a critical section that others could see.     *)

(* provider.Lookup returns in resolveIPLookup.                             *)
LookupEnds(t, p, what) ==
    /\ LookupReturns(t, p)
    /\ got' = [got EXCEPT ![<<t, p>>] = what]
    /\ noting' = noting \cup {<<t, p>>}
    /\ UNCHANGED <<serverVars, httpVars, mutex, seen, successCount, failureCount, report>>

CountOf(l) == IF got[l] = "error" THEN failureCount[l[2]] ELSE successCount[l[2]]

(* Mutant of NotifyLocks: the counter is read without the mutex.           *)
NotifyReads(l) ==
    /\ l \in noting
    /\ l \notin mutex[l[2]]
    /\ mutex' = [mutex EXCEPT ![l[2]] = @ \cup {l}]
    /\ seen' = [seen EXCEPT ![l] = CountOf(l)]
    /\ UNCHANGED <<vars, serverVars, httpVars, got, noting, successCount, failureCount, report>>

(* notifyUsed takes the mutex and reads the counter that it increments.    *)
NotifyLocks(l) ==
    /\ l \in noting
    /\ mutex[l[2]] = Free
    /\ mutex' = [mutex EXCEPT ![l[2]] = @ \cup {l}]
    /\ seen' = [seen EXCEPT ![l] = CountOf(l)]
    /\ UNCHANGED <<vars, serverVars, httpVars, got, noting, successCount, failureCount, report>>

NotifyUnlocks(l) ==
    /\ l \in mutex[l[2]]
    /\ IF got[l] = "error"
         THEN /\ failureCount' = [failureCount EXCEPT ![l[2]] = seen[l] + 1]
              /\ UNCHANGED successCount
         ELSE /\ successCount' = [successCount EXCEPT ![l[2]] = seen[l] + 1]
              /\ UNCHANGED failureCount
    /\ noting' = noting \ {l}
    /\ mutex' = [mutex EXCEPT ![l[2]] = @ \ {l}]
    /\ UNCHANGED <<vars, serverVars, httpVars, got, seen, report>>

(* The detail is sent after notifyUsed.                                    *)
DetailStep(t, p) ==
    /\ <<t, p>> \notin noting
    /\ SendDetail(t, p) \/ DropDetail(t, p)
    /\ UNCHANGED programVars

(* The lookups that notifyUsed has counted.                                *)
Counted(p, outcomes) == {l \in Lookups : l[2] = p /\ got[l] \in outcomes /\ l \notin noting}

(* Mutant of MarshalLocks: the mutex is given back between the counters.   *)
MarshalReads(r, p) ==
    /\ conn[r] = "handler"
    /\ shape[r] = "stats"
    /\ report[r][p].at = "new"
    /\ mutex[p] = Free
    /\ report' = [report EXCEPT ![r][p] =
                     [at |-> "locked", success |-> successCount[p], failure |-> 0]]
    /\ UNCHANGED <<vars, serverVars, httpVars, got, noting, mutex, seen, successCount,
                   failureCount>>

(* MarshalJSON of a provider's stats, for handleGetStats.                  *)
MarshalLocks(r, p) ==
    /\ conn[r] = "handler"
    /\ shape[r] = "stats"
    /\ report[r][p].at = "new"
    /\ mutex[p] = Free
    /\ mutex' = [mutex EXCEPT ![p] = @ \cup {r}]
    /\ report' = [report EXCEPT ![r][p] =
                     [at |-> "locked", success |-> successCount[p], failure |-> 0]]
    /\ UNCHANGED <<vars, serverVars, httpVars, got, noting, seen, successCount, failureCount>>

MarshalUnlocks(r, p) ==
    /\ report[r][p].at = "locked"
    /\ report' = [report EXCEPT ![r][p] = [@ EXCEPT !.at = "read", !.failure = failureCount[p]]]
    /\ mutex' = [mutex EXCEPT ![p] = @ \ {r}]
    /\ UNCHANGED <<vars, serverVars, httpVars, got, noting, seen, successCount, failureCount>>

StatsEnd(r) ==
    /\ conn[r] = "handler"
    /\ shape[r] = "stats"
    /\ \A p \in Providers : report[r][p].at = "read"
    /\ Respond(r, 200)
    /\ UNCHANGED <<vars, serverVars, shape, statVars>>

-----------------------------------------------------------------------------
(* main and the root context.                                              *)

(* The configuration and the providers, in Startup.                        *)
StartStep == StartupStep /\ UNCHANGED <<vars, rootDone, closer, httpVars, statVars>>

(* net.Listen, and Serve if it succeeds; if not, main returns its error.   *)
(* From here on the providers are those of Topographer, and the            *)
(* configuration is not looked at again.                                   *)
Listen ==
    /\ main = "listen"
    /\ main' \in {"serving", "exited"}
    /\ file' = <<>> /\ conf' = <<>> /\ made' = 0 /\ started' = 0 /\ running' = {}
    /\ UNCHANGED <<vars, rootDone, closer, httpVars, statVars>>

(* SIGINT or SIGTERM, once makeRootContext has asked for them; a second    *)
(* one cancels rootCtx again.                                              *)
Signal ==
    /\ main # "config"
    /\ rootDone' = TRUE
    /\ UNCHANGED <<vars, main, closer, startupVars, httpVars, statVars>>

(* srv.Shutdown closes the listener, or keeps Serve from starting.  The    *)
(* goroutine that calls it is started after Topographer was made.          *)
ServerShutdown ==
    /\ main \in {"listen", "serving", "draining"}
    /\ closer = "waiting"
    /\ rootDone
    /\ closer' = "shutting"
    /\ UNCHANGED <<vars, main, rootDone, startupVars, httpVars, statVars>>

(* Mutant of ServerIsDown: the channel is not closed.                      *)
ServerIsDownUntold ==
    /\ closer = "shutting"
    /\ \A r \in Requests : conn[r] # "handler"
    /\ UNCHANGED allVars

(* srv.Shutdown returns when the last handler has; closeChan is closed.    *)
ServerIsDown ==
    /\ closer = "shutting"
    /\ \A r \in Requests : conn[r] # "handler"
    /\ closer' = "closed"
    /\ UNCHANGED <<vars, main, rootDone, startupVars, httpVars, statVars>>

(* Serve returns as soon as the server is being shut down, or when the     *)
(* listener fails.                                                         *)
ServeReturns ==
    /\ main = "serving"
    /\ main' = "draining"
    /\ UNCHANGED <<vars, rootDone, closer, startupVars, httpVars, statVars>>

(* Mutant of MainReturns: main does not wait for closeChan.                *)
MainReturnsAtOnce ==
    /\ main = "draining"
    /\ main' = "exited"
    /\ UNCHANGED <<vars, rootDone, closer, startupVars, httpVars, statVars>>

MainReturns ==
    /\ main = "draining"
    /\ closer = "closed"
    /\ main' = "exited"
    /\ UNCHANGED <<vars, rootDone, closer, startupVars, httpVars, statVars>>

-----------------------------------------------------------------------------

NoReport == [at |-> "new", success |-> 0, failure |-> 0]

ProgramInit ==
    /\ Init
    /\ StartupInit
    /\ rootDone = FALSE /\ closer = "waiting"
    /\ conn = [r \in Requests |-> "none"]
    /\ shape = [r \in Requests |-> "none"]
    /\ status = [r \in Requests |-> 0]
    /\ got = [l \in Lookups |-> "none"]
    /\ noting = {}
    /\ mutex = [p \in Providers |-> Free]
    /\ seen = [l \in Lookups |-> 0]
    /\ successCount = [p \in Providers |-> 0]
    /\ failureCount = [p \in Providers |-> 0]
    /\ report = [r \in Requests |-> [p \in Providers |-> NoReport]]

HandlerStep(r) ==
    \/ Refuse(r)
    \/ \E names \in Queries : Resolve(r, names)
    \/ ResolveEnds(r)
    \/ \E p \in Providers : MarshalLocks(r, p) \/ MarshalUnlocks(r, p)
    \/ StatsEnd(r)
    \/ RequestStep(r) /\ UNCHANGED programVars

ProviderStep(t, p) ==
    \/ \E what \in LookupResults : LookupEnds(t, p, what)
    \/ NotifyLocks(<<t, p>>)
    \/ NotifyUnlocks(<<t, p>>)
    \/ DetailStep(t, p)

ServerStep == ServerShutdown \/ ServerIsDown
MainStep   == StartStep \/ Listen \/ (closer # "waiting" /\ ServeReturns) \/ MainReturns

(* The steps of the program's own goroutines.                              *)
Run ==
    /\ ~ended
    /\ \/ \E r \in Requests : HandlerStep(r)
       \/ \E t \in Tasks : TaskStep(t) /\ UNCHANGED programVars
       \/ \E t \in Tasks, p \in Providers : ProviderStep(t, p)
       \/ ServerStep
       \/ MainStep

(* What comes from outside.  Nothing reaches a process that has ended.     *)
Environment ==
    /\ ~ended
    /\ \/ \E r \in Requests : \E s \in ShapesOf(r) : Accept(r, s)
       \/ \E r \in Requests : ContextDone(r) /\ UNCHANGED programVars
       \/ Signal
       \/ ServeReturns

ProgramNext == Run \/ Environment

(* As long as some goroutine can run, one does.  No goroutine goes round   *)
(* in circles here, so that this gets all of them to their ends.           *)
ProgramSpec == ProgramInit /\ [][ProgramNext]_allVars /\ WF_allVars(Run)

-----------------------------------------------------------------------------
(* Properties.                                                             *)

(* The process does not end under a request: when main returns, every      *)
(* request that was accepted has got its response.                         *)
ExitAfterAnswers == ended => \A r \in Requests : conn[r] # "handler"

(* A 200 of a request whose client waits for it tells a city for each IP   *)
(* that was asked for.                                                     *)
OkMeansResolved ==
    \A r \in Requests :
        status[r] = 200 /\ shape[r] # "stats" /\ ~ctxDone[r] =>
            \A t \in TasksOf(r) : t \in rv[r] /\ \E p \in using[r] : got[<<t, p>>] = "city"

(* Every lookup that has ended notifyUsed is counted, once and on the      *)
(* right side, however many end at the same time.                          *)
EveryUseIsCounted ==
    \A p \in Providers : mutex[p] \cap Lookups = {} =>
        /\ successCount[p] = Cardinality(Counted(p, {"country", "city"}))
        /\ failureCount[p] = Cardinality(Counted(p, {"error"}))

(* The mutex makes notifyUsed and MarshalJSON atomic, as UsageStatsContract *)
(* has them: a use takes effect when notifyUsed gives the mutex back, a    *)
(* report when MarshalJSON does.  No use is lost or told in part, and what *)
(* /stats tells of a provider are not the counters of two moments.         *)
Used == {l \in Lookups : got[l] # "none" /\ l \notin noting}
Uses == [p \in Providers |-> [success |-> successCount[p], failure |-> failureCount[p]]]
Told ==
    [r \in Requests |-> [p \in Providers |->
        IF report[r][p].at = "read"
          THEN {[success |-> report[r][p].success, failure |-> report[r][p].failure]}
          ELSE {}]]

Stats == INSTANCE UsageStatsContract WITH
    Readers <- Requests, result <- got, used <- Used, uses <- Uses, told <- Told

ImplementsUsageStats == Stats!Spec

(* A signal ends the process, requests under way or not, unless a Resolve  *)
(* whose client went away waits for a result that was dropped (see         *)
(* CancelledResolveReturns): http.Server.Shutdown has no time limit here.  *)
SignalEndsProgram ==
    rootDone ~> ended \/ \E r \in Requests : CancelledReceive(r)
=============================================================================

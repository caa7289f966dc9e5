------------------------------- MODULE Startup -------------------------------
(***************************************************************************)
(* How the program starts (mainFunc in main.go, config.go, makeProviders   *)
(* in utils.go, NewTopographer): the configuration is read and checked,    *)
(* the providers are made, the updaters of offline providers are started.  *)
(* Each of these may fail, and then the program ends.                      *)
(*                                                                         *)
(* A configuration file is a sequence of entries, one per provider.  What  *)
(* is told apart of an entry: the kind of provider its name stands for,    *)
(* the spelling of its directory, whether it has the token some providers  *)
(* need, and the field, if any, whose duration cannot be parsed.           *)
(* json.Unmarshal stops there, with fields in alphabetical order, and      *)
(* parseConfig ignores its error (so that root_directory, which comes      *)
(* after the providers, is not read either).                               *)
(***************************************************************************)
EXTENDS Naturals, Sequences

CONSTANT MaxEntries   \* bound: the providers of a configuration file

ASSUME EntriesAssumption == MaxEntries \in Nat

VARIABLES
    main,     \* where mainFunc is
    file,     \* the configuration file
    conf,     \* conf.Providers
    made,     \* how many of them makeProviders has made
    started,  \* how many of those NewTopographer has gone through
    running   \* the ones whose updater is running

startupVars == <<file, conf, made, started, running>>

Names      == {"maxmind_lite", "dbip_lite", "ip2c", "other"}
Supported  == Names \ {"other"}
Offline    == {"maxmind_lite", "dbip_lite"}
NeedToken  == {"maxmind_lite"}
Spellings  == {"", "a", "./a"}

(* The fields with durations (the two of the circuit breaker are one here),*)
(* and those that are decoded before the others that matter.               *)
Durations  == {"circuit_breaker_half_open_timeout", "http_timeout",
               "rate_limit_interval", "update_every"}
BeforeName      == {"circuit_breaker_half_open_timeout", "http_timeout"}
BeforeDirectory == {"circuit_breaker_half_open_timeout"}
BeforeToken     == Durations \ {"update_every"}

Entries == [name : Names, directory : Spellings, token : BOOLEAN,
            bad : Durations \cup {"none"}]

Files == UNION {[1..n -> Entries] : n \in 0..MaxEntries}

-----------------------------------------------------------------------------
(* parseConfig.                                                            *)

Bad(f) == {i \in DOMAIN f : f[i].bad # "none"}

(* What is left of an entry.                                               *)
Decoded(e) ==
    [name |-> IF e.bad \in BeforeName THEN "" ELSE e.name,
     directory |-> IF e.bad \in BeforeDirectory THEN "" ELSE e.directory,
     token |-> e.token /\ e.bad \notin BeforeToken]

(* Mutant of Unmarshal: an entry that cannot be decoded is left out, too.  *)
UnmarshalWithoutBad(f) ==
    LET ok(i) == \A j \in Bad(f) : i < j
    IN  [i \in {k \in DOMAIN f : ok(k)} |-> Decoded(f[i])]

(* The entries up to the first one that cannot be decoded.                 *)
Unmarshal(f) ==
    LET ok(i) == \A j \in Bad(f) : i <= j
    IN  [i \in {k \in DOMAIN f : ok(k)} |-> Decoded(f[i])]

GetDirectory(e) == IF e.directory # "" THEN e.directory ELSE e.name

(* Directories are compared as they are spelled.                           *)
Duplicated(c) ==
    \E i, j \in DOMAIN c :
        i # j /\ (c[i].name = c[j].name \/ GetDirectory(c[i]) = GetDirectory(c[j]))

(* The file cannot be read or parsed, listen is wrong, or the list is.     *)
ParseConfig ==
    /\ main = "config"
    /\ conf' = Unmarshal(file)
    /\ \/ ~Duplicated(conf') /\ main' = "making"
       \/ main' = "failed"
    /\ UNCHANGED <<file, made, started, running>>

-----------------------------------------------------------------------------
(* makeProviders and NewTopographer, one provider after the other.         *)

CanBeMade(e) == e.name \in Supported /\ (e.name \in NeedToken => e.token)

MakeProvider ==
    /\ main = "making"
    /\ made < Len(conf)
    /\ CanBeMade(conf[made + 1])
    /\ made' = made + 1
    /\ UNCHANGED <<main, file, conf, started, running>>

(* The constructor refuses, or the directory cannot be created.            *)
MakeProviderFails ==
    /\ main = "making"
    /\ made < Len(conf)
    /\ ~CanBeMade(conf[made + 1]) \/ conf[made + 1].name \in Offline
    /\ main' = "failed"
    /\ UNCHANGED startupVars

ProvidersAreMade ==
    /\ main = "making"
    /\ made = Len(conf)
    /\ main' = "starting"
    /\ UNCHANGED startupVars

IsOffline(i) == conf[i].name \in Offline

StartProvider ==
    /\ main = "starting"
    /\ started < made
    /\ started' = started + 1
    /\ running' = running \cup {i \in {started + 1} : IsOffline(i)}
    /\ UNCHANGED <<main, file, conf, made>>

(* newFsUpdater fails: Shutdown of the providers before.                   *)
StartFails ==
    /\ main = "starting"
    /\ started < made
    /\ IsOffline(started + 1)
    /\ running' = {}
    /\ main' = "failed"
    /\ UNCHANGED <<file, conf, made, started>>

TopographerIsMade ==
    /\ main = "starting"
    /\ started = made
    /\ main' = "listen"
    /\ UNCHANGED startupVars

-----------------------------------------------------------------------------

StartupInit ==
    /\ main = "config"
    /\ file \in Files
    /\ conf = <<>>
    /\ made = 0 /\ started = 0
    /\ running = {}

StartupStep ==
    ParseConfig \/ MakeProvider \/ MakeProviderFails \/ ProvidersAreMade
        \/ StartProvider \/ StartFails \/ TopographerIsMade

-----------------------------------------------------------------------------
(* Properties.                                                             *)

(* A program that starts has every provider of its file, with one          *)
(* exception, exactly: the providers after one whose rate_limit_interval   *)
(* or update_every cannot be parsed are left out, silently, because        *)
(* parseConfig ignores the error of json.Unmarshal.  A bad duration in a   *)
(* field before the name, or before a token that is needed, ends it.       *)
StartsAsConfigured ==
    main = "listen" =>
        /\ started = Len(conf)
        /\ \A i \in DOMAIN file :
              \/ i <= started /\ conf[i].name = file[i].name
              \/ \E j \in 1..(i - 1) : file[j].bad \in {"rate_limit_interval", "update_every"}
=============================================================================

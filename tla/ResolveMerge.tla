----------------------------- MODULE ResolveMerge -----------------------------
(***************************************************************************)
(* How a task makes one verdict of what the providers said (resolveIPMerge *)
(* and resolveIPMergeCity of topolib/topographer.go): group the details by *)
(* country, take the largest group, count the cities in it by how they     *)
(* sound, take the most frequent one.  The two searches for a maximum      *)
(* range over Go maps, so they see the entries in any order, another one   *)
(* each time; the details come in the order the lookups ended.             *)
(***************************************************************************)
EXTENDS Naturals, Sequences, FiniteSets

CONSTANTS
    Countries,   \* known country codes
    NoCountry,   \* the country code of a provider that knows none
    Cities,      \* city names
    NoCity,      \* the empty city name
    Sounds,      \* double metaphone codes
    Sound,       \* the code of each city name
    MaxDetails   \* bound: number of providers

ASSUME VoteAssumption ==
    /\ NoCountry \notin Countries
    /\ NoCity \notin Cities
    /\ Sound \in [Cities -> Sounds]
    /\ MaxDetails \in Nat

Detail == [country : Countries \cup {NoCountry}, city : Cities \cup {NoCity}]
Inputs == UNION {[1..n -> Detail] : n \in 0..MaxDetails}

VARIABLES
    results,          \* the details, in the order of their arrival
    pc,               \* which loop runs
    i,                \* the detail that the first and the third loop are at
    group,            \* the details of each country
    todo,             \* map entries that a range loop has not visited
    selectedCountry,
    counters,         \* how many of the chosen country's cities sound like this
    names,            \* the last of them that does
    cityName,
    maxLen

vars == <<results, pc, i, group, todo, selectedCountry, counters, names, cityName, maxLen>>

Init ==
    /\ results \in Inputs
    /\ pc = "group"
    /\ i = 1
    /\ group = [c \in Countries |-> {}]
    /\ todo = {}
    /\ selectedCountry = NoCountry
    /\ counters = [s \in Sounds |-> 0]
    /\ names = [s \in Sounds |-> NoCity]
    /\ cityName = NoCity
    /\ maxLen = 0

(* One round of the loop that groups the details.                          *)
Group ==
    /\ pc = "group"
    /\ i <= Len(results)
    /\ group' = IF results[i].country \in Countries
                  THEN [group EXCEPT ![results[i].country] = @ \cup {i}]
                  ELSE group
    /\ i' = i + 1
    /\ UNCHANGED <<results, pc, todo, selectedCountry, counters, names, cityName, maxLen>>

(* The map has an entry for every country that was named.                  *)
Grouped ==
    /\ pc = "group"
    /\ i > Len(results)
    /\ pc' = "country"
    /\ todo' = {c \in Countries : group[c] # {}}
    /\ UNCHANGED <<results, i, group, selectedCountry, counters, names, cityName, maxLen>>

(* Mutant of SelectCountry: the last group replaces the best one.          *)
SelectLastCountry(c) ==
    /\ pc = "country"
    /\ c \in todo
    /\ todo' = todo \ {c}
    /\ selectedCountry' = c
    /\ maxLen' = Cardinality(group[c])
    /\ UNCHANGED <<results, pc, i, group, counters, names, cityName>>

SelectCountry(c) ==
    /\ pc = "country"
    /\ c \in todo
    /\ todo' = todo \ {c}
    /\ IF Cardinality(group[c]) > maxLen
         THEN selectedCountry' = c /\ maxLen' = Cardinality(group[c])
         ELSE UNCHANGED <<selectedCountry, maxLen>>
    /\ UNCHANGED <<results, pc, i, group, counters, names, cityName>>

(* cityResults is nil when no country was named.                           *)
CountrySelected ==
    /\ pc = "country"
    /\ todo = {}
    /\ pc' = IF selectedCountry = NoCountry THEN "done" ELSE "count"
    /\ i' = 1
    /\ UNCHANGED <<results, group, todo, selectedCountry, counters, names, cityName, maxLen>>

(* Does detail k belong to the group of the chosen country?                *)
InCityResults(k) == k \in group[selectedCountry]

(* One round of the loop that counts cities.                               *)
CountCity ==
    /\ pc = "count"
    /\ i <= Len(results)
    /\ LET city == results[i].city IN
         IF InCityResults(i) /\ city \in Cities
           THEN /\ counters' = [counters EXCEPT ![Sound[city]] = @ + 1]
                /\ names' = [names EXCEPT ![Sound[city]] = city]
           ELSE UNCHANGED <<counters, names>>
    /\ i' = i + 1
    /\ UNCHANGED <<results, pc, group, todo, selectedCountry, cityName, maxLen>>

CitiesCounted ==
    /\ pc = "count"
    /\ i > Len(results)
    /\ pc' = "city"
    /\ maxLen' = 0
    /\ todo' = {s \in Sounds : counters[s] > 0}
    /\ UNCHANGED <<results, i, group, selectedCountry, counters, names, cityName>>

(* Mutant of SelectCity: maxLen is not raised.                             *)
SelectCityForgetful(s) ==
    /\ pc = "city"
    /\ s \in todo
    /\ todo' = todo \ {s}
    /\ cityName' = IF counters[s] > maxLen THEN names[s] ELSE cityName
    /\ UNCHANGED <<results, pc, i, group, selectedCountry, counters, names, maxLen>>

SelectCity(s) ==
    /\ pc = "city"
    /\ s \in todo
    /\ todo' = todo \ {s}
    /\ IF counters[s] > maxLen
         THEN cityName' = names[s] /\ maxLen' = counters[s]
         ELSE UNCHANGED <<cityName, maxLen>>
    /\ UNCHANGED <<results, pc, i, group, selectedCountry, counters, names>>

CitySelected ==
    /\ pc = "city"
    /\ todo = {}
    /\ pc' = "done"
    /\ UNCHANGED <<results, i, group, todo, selectedCountry, counters, names, cityName, maxLen>>

(* The verdict is returned.                                                *)
Returned == pc = "done" /\ UNCHANGED vars

Next ==
    \/ Group \/ Grouped
    \/ (\E c \in Countries : SelectCountry(c)) \/ CountrySelected
    \/ CountCity \/ CitiesCounted
    \/ (\E s \in Sounds : SelectCity(s)) \/ CitySelected
    \/ Returned

Spec == Init /\ [][Next]_vars

-----------------------------------------------------------------------------
(* What the verdict should be, read off the details.                       *)

Votes(c) == {k \in DOMAIN results : results[k].country = c}

CityVotes(c, s) == {k \in Votes(c) : results[k].city \in Cities /\ Sound[results[k].city] = s}

(* "Topographer choose the most 'popular country'": no country has more    *)
(* votes than the chosen one, in whatever order the groups are visited,    *)
(* and one is chosen as soon as a provider knows one.                      *)
CountryIsMostPopular ==
    pc = "done" =>
        /\ \A c \in Countries : Cardinality(Votes(c)) <= Cardinality(Votes(selectedCountry))
                                \/ Votes(c) = {}
        /\ (\E c \in Countries : Votes(c) # {}) => selectedCountry \in Countries
        /\ selectedCountry \in Countries => Votes(selectedCountry) # {}

(* "It choose the most 'popular city' among these": the city was named by  *)
(* a provider that voted for the chosen country, no other city sound has   *)
(* more such providers, and a city is chosen if one of them named any.     *)
CityIsMostPopular ==
    pc = "done" =>
        IF cityName \in Cities
          THEN /\ \E k \in Votes(selectedCountry) : results[k].city = cityName
               /\ \A s \in Sounds : Cardinality(CityVotes(selectedCountry, s))
                                    <= Cardinality(CityVotes(selectedCountry, Sound[cityName]))
          ELSE \A s \in Sounds, c \in {selectedCountry} \cap Countries : CityVotes(c, s) = {}
=============================================================================

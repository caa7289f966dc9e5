-------------------------- MODULE ResolveMergeProofs --------------------------
(***************************************************************************)
(* What TLAPS proves of ResolveMerge: the vote is right for any number of  *)
(* details, any countries and cities and any order in which Go visits the  *)
(* maps.  The invariants are those of the four loops.                      *)
(***************************************************************************)
EXTENDS ResolveMerge, TLAPS, FiniteSetTheorems, SequenceTheorems

-----------------------------------------------------------------------------
(* The inductive invariant.                                                *)

Types ==
    /\ results \in Seq(Detail)
    /\ pc \in {"group", "country", "count", "city", "done"}
    /\ i \in 1..(Len(results) + 1)
    /\ group \in [Countries -> SUBSET DOMAIN results]
    /\ selectedCountry \in Countries \cup {NoCountry}
    /\ counters \in [Sounds -> Nat]
    /\ names \in [Sounds -> Cities \cup {NoCity}]
    /\ cityName \in Cities \cup {NoCity}
    /\ maxLen \in Nat

(* The first loop has put the details before i into their groups.          *)
Groups ==
    \A c \in Countries :
        group[c] = IF pc = "group" THEN {k \in Votes(c) : k < i} ELSE Votes(c)

(* The votes of the country that is selected so far.                       *)
Best == IF selectedCountry = NoCountry THEN 0 ELSE Cardinality(Votes(selectedCountry))

(* The second loop has found the best of the countries it has visited.     *)
CountrySoFar ==
    /\ pc = "group" => selectedCountry = NoCountry /\ maxLen = 0
    /\ pc = "country" => maxLen = Best
    /\ pc # "group" =>
          \A c \in Countries :
              Cardinality(Votes(c)) <= Best \/ (pc = "country" /\ c \in todo)
    /\ selectedCountry # NoCountry => Votes(selectedCountry) # {}
    /\ pc \in {"count", "city"} => selectedCountry # NoCountry

(* Who was counted for a sound.                                            *)
Voters(s) == {k \in CityVotes(selectedCountry, s) : pc = "count" => k < i}

(* The city that is remembered for a sound, named by one of its voters.    *)
NameIsVoted(s) ==
    /\ names[s] \in Cities
    /\ Sound[names[s]] = s
    /\ \E k \in Votes(selectedCountry) : results[k].city = names[s]

(* The third loop has counted the cities before i.                         *)
Counters ==
    /\ pc \in {"group", "country"} => \A s \in Sounds : counters[s] = 0
    /\ pc \notin {"group", "country"} /\ selectedCountry # NoCountry =>
          \A s \in Sounds :
              /\ counters[s] = Cardinality(Voters(s))
              /\ counters[s] > 0 => NameIsVoted(s)

(* The fourth loop has found the best of the sounds it has visited.        *)
CitySoFar ==
    /\ pc \in {"group", "country", "count"} \/ selectedCountry = NoCountry => cityName = NoCity
    /\ cityName # NoCity => \E k \in Votes(selectedCountry) : results[k].city = cityName
    /\ pc \in {"city", "done"} /\ selectedCountry # NoCountry =>
          /\ maxLen = IF cityName = NoCity THEN 0 ELSE counters[Sound[cityName]]
          /\ \A s \in Sounds : counters[s] <= maxLen \/ (pc = "city" /\ s \in todo)

IInv == Types /\ Groups /\ CountrySoFar /\ Counters /\ CitySoFar

-----------------------------------------------------------------------------
(* The details and the votes.                                              *)

(* An input is a sequence of details.                                      *)
LEMMA InputsAreSequences == Inputs \subseteq Seq(Detail)
BY VoteAssumption, SeqDef DEF Inputs

(* The details are numbered from 1, and each is one.                       *)
LEMMA ResultsParts ==
    ASSUME Types
    PROVE  /\ Len(results) \in Nat
           /\ DOMAIN results = 1..Len(results)
           /\ \A k \in DOMAIN results : results[k] \in Detail
BY LenProperties DEF Types

(* Votes can be counted.                                                   *)
LEMMA VotesAreFinite ==
    ASSUME Types, NEW S \in SUBSET DOMAIN results
    PROVE  /\ IsFiniteSet(S)
           /\ Cardinality(S) \in Nat
           /\ Cardinality(S) = 0 <=> S = {}
<1>1. IsFiniteSet(1..Len(results))
  BY ResultsParts, FS_Interval
<1>2. IsFiniteSet(S)
  BY <1>1, ResultsParts, FS_Subset
<1>3. QED
  BY <1>2, FS_CardinalityType, FS_EmptySet

(* Votes are details.                                                      *)
LEMMA VotesAreDetails ==
    ASSUME NEW c
    PROVE  /\ Votes(c) \in SUBSET DOMAIN results
           /\ \A s : CityVotes(c, s) \in SUBSET Votes(c)
BY DEF Votes, CityVotes

-----------------------------------------------------------------------------
(* Every step preserves the invariant, loop by loop.                       *)

(* The first loop.                                                         *)
LEMMA GroupStep == IInv /\ Group => IInv'
<1> SUFFICES ASSUME IInv, Group
             PROVE  IInv'
  OBVIOUS
<1>0. Types /\ Groups
  BY DEF IInv
<1>1. i \in DOMAIN results /\ i \in Nat /\ results[i] \in Detail
  BY <1>0, ResultsParts DEF Group, Types
<1>2. group' \in [Countries -> SUBSET DOMAIN results]
  BY <1>0, <1>1 DEF Group, Types
<1>3. Types'
  BY <1>0, <1>1, <1>2, ResultsParts DEF Group, Types
<1>4. ASSUME NEW c \in Countries
      PROVE  group'[c] = {k \in Votes(c)' : k < i'}
  <2>1. group[c] = {k \in Votes(c) : k < i}
    BY <1>0 DEF Groups, Group
  <2>2. Votes(c)' = Votes(c) /\ \A k \in Votes(c) : k \in Nat
    BY <1>0, ResultsParts DEF Votes, Group
  <2>3. CASE results[i].country = c
    <3>1. group'[c] = group[c] \cup {i} /\ i \in Votes(c)
      BY <1>0, <1>1, <2>3 DEF Group, Types, Votes
    <3>2. \A k \in Votes(c) : k < i + 1 <=> k < i \/ k = i
      BY <1>1, <2>2
    <3>3. QED
      BY <2>1, <2>2, <3>1, <3>2 DEF Group
  <2>4. CASE results[i].country # c
    <3>1. group'[c] = group[c] /\ i \notin Votes(c)
      BY <1>0, <1>1, <2>4 DEF Group, Types, Votes
    <3>2. \A k \in Votes(c) : k < i + 1 <=> k < i
      BY <1>1, <2>2, <3>1
    <3>3. QED
      BY <2>1, <2>2, <3>1, <3>2 DEF Group
  <2>5. QED
    BY <2>3, <2>4
<1>5. Groups'
  BY <1>4 DEF Groups, Group
<1>6. CountrySoFar' /\ Counters' /\ CitySoFar'
  BY DEF IInv, CountrySoFar, Counters, CitySoFar, Group
<1>7. QED
  BY <1>3, <1>5, <1>6 DEF IInv

(* After it every detail is in its group, and none was visited.            *)
LEMMA GroupedStep == IInv /\ Grouped => IInv'
<1> SUFFICES ASSUME IInv, Grouped
             PROVE  IInv'
  OBVIOUS
<1>0. Types /\ Groups /\ CountrySoFar
  BY DEF IInv
<1>1. Types'
  BY <1>0 DEF Types, Grouped
<1>2. ASSUME NEW c \in Countries
      PROVE  Votes(c)' = Votes(c) /\ group[c] = Votes(c)
  <2>1. \A k \in Votes(c) : k < i
    BY <1>0, ResultsParts DEF Votes, Grouped, Types
  <2>2. QED
    BY <1>0, <2>1 DEF Groups, Votes, Grouped
<1>3. Groups'
  BY <1>2 DEF Groups, Grouped
<1>4. CountrySoFar'
  <2>1. Best' = 0 /\ maxLen' = 0 /\ selectedCountry' = NoCountry
    BY <1>0 DEF CountrySoFar, Best, Grouped
  <2>2. ASSUME NEW c \in Countries
        PROVE  Cardinality(Votes(c)') <= Best' \/ c \in todo'
    BY <1>0, <1>2, <2>1, VotesAreFinite, VotesAreDetails DEF Grouped
  <2>3. QED
    BY <2>1, <2>2 DEF CountrySoFar, Grouped
<1>5. Counters' /\ CitySoFar'
  BY DEF IInv, Counters, CitySoFar, Grouped
<1>6. QED
  BY <1>1, <1>3, <1>4, <1>5 DEF IInv

(* The second loop.                                                        *)
LEMMA SelectCountryStep ==
    ASSUME IInv, NEW c \in Countries, SelectCountry(c)
    PROVE  IInv'
<1>0. Types /\ Groups /\ CountrySoFar
  BY DEF IInv
<1>1. \A d : Votes(d)' = Votes(d)
  BY DEF Votes, SelectCountry
<1>2. group[c] = Votes(c)
  BY <1>0 DEF Groups, SelectCountry
<1>3. \A d : Cardinality(Votes(d)) \in Nat /\ (Cardinality(Votes(d)) = 0 <=> Votes(d) = {})
  BY <1>0, VotesAreFinite, VotesAreDetails
<1>4. Types'
  BY <1>0, <1>2, <1>3 DEF Types, SelectCountry
<1>5. Groups'
  BY <1>0, <1>1 DEF Groups, SelectCountry
<1>6. maxLen = Best /\ pc = "country" /\ pc' = "country"
  BY <1>0 DEF CountrySoFar, SelectCountry
<1>7. CASE Cardinality(Votes(c)) > maxLen
  <2>1. selectedCountry' = c /\ maxLen' = Cardinality(Votes(c)) /\ c # NoCountry
    BY <1>2, <1>7, VoteAssumption DEF SelectCountry
  <2>2. Best' = Cardinality(Votes(c))
    BY <1>1, <2>1 DEF Best
  <2>3. Votes(c) # {}
    BY <1>3, <1>7, <1>0 DEF Types
  <2>4. ASSUME NEW d \in Countries
        PROVE  Cardinality(Votes(d)) <= Best' \/ d \in todo'
    <3>1. CASE d = c
      BY <1>3, <2>2, <3>1
    <3>2. CASE d # c
      <4>1. Cardinality(Votes(d)) <= Best \/ d \in todo'
        BY <1>0, <1>6, <3>2 DEF CountrySoFar, SelectCountry
      <4>2. QED
        BY <1>0, <1>3, <1>6, <1>7, <2>2, <4>1 DEF Types
    <3>3. QED
      BY <3>1, <3>2
  <2>5. CountrySoFar'
    BY <1>1, <1>6, <2>1, <2>2, <2>3, <2>4 DEF CountrySoFar
  <2>6. Counters' /\ CitySoFar'
    BY <1>6 DEF IInv, Counters, CitySoFar, SelectCountry
  <2>7. QED
    BY <1>4, <1>5, <2>5, <2>6 DEF IInv
<1>8. CASE ~(Cardinality(Votes(c)) > maxLen)
  <2>1. UNCHANGED <<selectedCountry, maxLen>>
    BY <1>2, <1>8 DEF SelectCountry
  <2>2. Best' = Best
    BY <1>1, <2>1 DEF Best
  <2>3. Cardinality(Votes(c)) <= Best
    BY <1>0, <1>3, <1>6, <1>8 DEF Types
  <2>4. CountrySoFar'
    BY <1>0, <1>1, <1>6, <2>1, <2>2, <2>3 DEF CountrySoFar, SelectCountry
  <2>5. Counters' /\ CitySoFar'
    BY <1>1, <1>6, <2>1 DEF IInv, Counters, CitySoFar, SelectCountry
  <2>6. QED
    BY <1>4, <1>5, <2>4, <2>5 DEF IInv
<1>9. QED
  BY <1>7, <1>8

(* After it the country is known; the cities are counted from the start.   *)
LEMMA CountrySelectedStep == IInv /\ CountrySelected => IInv'
<1> SUFFICES ASSUME IInv, CountrySelected
             PROVE  IInv'
  OBVIOUS
<1>0. Types /\ Groups /\ CountrySoFar
  BY DEF IInv
<1>1. \A d : Votes(d)' = Votes(d)
  BY DEF Votes, CountrySelected
<1>2. Types'
  BY <1>0, ResultsParts DEF Types, CountrySelected
<1>3. Groups'
  BY <1>0, <1>1 DEF Groups, CountrySelected
<1>4. CountrySoFar'
  <2>1. Best' = Best
    BY <1>1 DEF Best, CountrySelected
  <2>2. QED
    BY <1>0, <1>1, <2>1 DEF CountrySoFar, CountrySelected
<1>5. CASE selectedCountry = NoCountry
  BY <1>1, <1>2, <1>3, <1>4, <1>5 DEF IInv, Counters, CitySoFar, CountrySelected
<1>6. CASE selectedCountry # NoCountry
  <2>1. ASSUME NEW s \in Sounds
        PROVE  counters'[s] = 0 /\ Cardinality(Voters(s)') = 0
    <3>1. Voters(s)' = {}
      BY <1>0, <1>6, ResultsParts DEF Voters, CityVotes, Votes, CountrySelected
    <3>2. QED
      BY <3>1, FS_EmptySet DEF IInv, Counters, CountrySelected
  <2>2. Counters'
    BY <1>6, <2>1 DEF Counters, CountrySelected
  <2>3. CitySoFar'
    BY <1>6 DEF IInv, CitySoFar, CountrySelected
  <2>4. QED
    BY <1>2, <1>3, <1>4, <2>2, <2>3 DEF IInv
<1>7. QED
  BY <1>5, <1>6

(* The third loop.                                                         *)
LEMMA CountCityStep == IInv /\ CountCity => IInv'
<1> SUFFICES ASSUME IInv, CountCity
             PROVE  IInv'
  OBVIOUS
<1>0. Types /\ Groups /\ CountrySoFar /\ Counters
  BY DEF IInv
<1>1. i \in DOMAIN results /\ i \in Nat /\ results[i] \in Detail
  BY <1>0, ResultsParts DEF CountCity, Types
<1>2. selectedCountry \in Countries /\ selectedCountry # NoCountry
  BY <1>0 DEF CountrySoFar, CountCity, Types
<1>3. \A c : Votes(c)' = Votes(c)
  BY DEF Votes, CountCity
<1>4. InCityResults(i) <=> i \in Votes(selectedCountry)
  BY <1>0, <1>2 DEF InCityResults, Groups, CountCity
<1>5. \A c \in Cities : Sound[c] \in Sounds
  BY VoteAssumption
<1>6. Types'
  <2>1. counters' \in [Sounds -> Nat]
    BY <1>0, <1>5 DEF Types, CountCity
  <2>2. names' \in [Sounds -> Cities \cup {NoCity}]
    BY <1>0, <1>5 DEF Types, CountCity
  <2>3. i' \in 1..(Len(results) + 1)
    BY <1>0, <1>1, ResultsParts DEF CountCity
  <2>4. QED
    BY <1>0, <2>1, <2>2, <2>3 DEF Types, CountCity
<1>7. Groups' /\ CountrySoFar' /\ CitySoFar'
  BY <1>0, <1>3 DEF IInv, Groups, CountrySoFar, CitySoFar, Best, CountCity
<1>8. ASSUME NEW s \in Sounds
      PROVE  counters'[s] = Cardinality(Voters(s)') /\ (counters'[s] > 0 => NameIsVoted(s)')
  <2>1. counters[s] = Cardinality(Voters(s)) /\ (counters[s] > 0 => NameIsVoted(s))
    BY <1>0, <1>2 DEF Counters, CountCity
  <2>2. Voters(s) = {k \in CityVotes(selectedCountry, s) : k < i}
        /\ Voters(s)' = {k \in CityVotes(selectedCountry, s) : k < i + 1}
    BY <1>3 DEF Voters, CityVotes, CountCity
  <2>3. \A k \in CityVotes(selectedCountry, s) : k \in Nat
    BY <1>0, ResultsParts DEF CityVotes, Votes
  <2>4. IsFiniteSet(Voters(s)) /\ Cardinality(Voters(s)) \in Nat
    BY <1>0, <2>2, VotesAreFinite, VotesAreDetails
  <2>5. CASE i \in CityVotes(selectedCountry, s)
    <3>1. results[i].city \in Cities /\ Sound[results[i].city] = s
          /\ i \in Votes(selectedCountry)
      BY <2>5 DEF CityVotes
    <3>2. counters'[s] = counters[s] + 1 /\ names'[s] = results[i].city
      BY <1>0, <1>4, <3>1 DEF CountCity, Types
    <3>3. Voters(s)' = Voters(s) \cup {i} /\ i \notin Voters(s)
      BY <1>1, <2>2, <2>3, <2>5
    <3>4. Cardinality(Voters(s)') = Cardinality(Voters(s)) + 1
      BY <2>4, <3>3, FS_AddElement
    <3>5. NameIsVoted(s)'
      BY <1>3, <3>1, <3>2 DEF NameIsVoted, CountCity
    <3>6. QED
      BY <2>1, <3>2, <3>4, <3>5
  <2>6. CASE i \notin CityVotes(selectedCountry, s)
    <3>1. counters'[s] = counters[s] /\ names'[s] = names[s]
      BY <1>0, <1>4, <1>5, <2>6 DEF CountCity, Types, CityVotes
    <3>2. Voters(s)' = Voters(s)
      BY <1>1, <2>2, <2>3, <2>6
    <3>3. NameIsVoted(s) => NameIsVoted(s)'
      BY <1>3, <3>1 DEF NameIsVoted, CountCity
    <3>4. QED
      BY <2>1, <3>1, <3>2, <3>3
  <2>7. QED
    BY <2>5, <2>6
<1>9. Counters'
  BY <1>8 DEF Counters, CountCity
<1>10. QED
  BY <1>6, <1>7, <1>9 DEF IInv

(* What the steps of the fourth loop leave alone.                          *)
LEMMA CityLoopFrame ==
    ASSUME IInv, pc \in {"count", "city"}, pc' \in {"city", "done"},
           pc = "count" => i > Len(results),
           UNCHANGED <<results, i, group, selectedCountry, counters, names>>
    PROVE  Groups' /\ CountrySoFar' /\ Counters'
<1>0. Types /\ Groups /\ CountrySoFar /\ Counters
  BY DEF IInv
<1>1. \A c : Votes(c)' = Votes(c)
  BY DEF Votes
<1>2. Groups'
  BY <1>0, <1>1 DEF Groups
<1>3. CountrySoFar'
  BY <1>0, <1>1 DEF CountrySoFar, Best
<1>4. \A s : Voters(s)' = Voters(s)
  <2>1. \A s : \A k \in CityVotes(selectedCountry, s) : pc = "count" => k < i
    BY <1>0, ResultsParts DEF CityVotes, Votes, Types
  <2>2. QED
    BY <1>1, <2>1 DEF Voters, CityVotes
<1>5. \A s \in Sounds : NameIsVoted(s)' <=> NameIsVoted(s)
  BY <1>1 DEF NameIsVoted
<1>6. Counters'
  BY <1>0, <1>4, <1>5 DEF Counters
<1>7. QED
  BY <1>2, <1>3, <1>6

(* After the third loop every sound that was heard is to be visited.       *)
LEMMA CitiesCountedStep == IInv /\ CitiesCounted => IInv'
<1> SUFFICES ASSUME IInv, CitiesCounted
             PROVE  IInv'
  OBVIOUS
<1>1. Types'
  BY DEF IInv, Types, CitiesCounted
<1>2. Groups' /\ CountrySoFar' /\ Counters'
  BY CityLoopFrame DEF CitiesCounted
<1>3. CitySoFar'
  <2>1. cityName = NoCity /\ cityName' = NoCity
    BY DEF IInv, CitySoFar, CitiesCounted
  <2>2. \A s \in Sounds : counters'[s] <= 0 \/ s \in todo'
    BY DEF IInv, Types, CitiesCounted
  <2>3. QED
    BY <2>1, <2>2 DEF CitySoFar, CitiesCounted
<1>4. QED
  BY <1>1, <1>2, <1>3 DEF IInv

(* The fourth loop.                                                        *)
LEMMA SelectCityStep ==
    ASSUME IInv, NEW s \in Sounds, SelectCity(s)
    PROVE  IInv'
<1>0. Types /\ CountrySoFar /\ Counters /\ CitySoFar
  BY DEF IInv
<1>1. Types'
  BY <1>0 DEF Types, SelectCity
<1>2. Groups' /\ CountrySoFar' /\ Counters'
  BY CityLoopFrame DEF SelectCity
<1>3. \A c : Votes(c)' = Votes(c)
  BY DEF Votes, SelectCity
<1>4. selectedCountry # NoCountry /\ pc' = "city"
  BY <1>0 DEF CountrySoFar, SelectCity
<1>5. CASE counters[s] > maxLen
  <2>1. counters[s] > 0
    BY <1>0, <1>5 DEF Types
  <2>2. NameIsVoted(s)
    BY <1>0, <1>4, <2>1 DEF Counters, SelectCity
  <2>3. cityName' = names[s] /\ maxLen' = counters[s] /\ names[s] # NoCity
    BY <1>5, <2>2, VoteAssumption DEF SelectCity, NameIsVoted
  <2>4. \A x \in Sounds : counters[x] <= maxLen' \/ x \in todo'
    BY <1>0, <1>4, <1>5, <2>3 DEF CitySoFar, SelectCity, Types
  <2>5. CitySoFar'
    BY <1>3, <1>4, <2>2, <2>3, <2>4 DEF CitySoFar, SelectCity, NameIsVoted
  <2>6. QED
    BY <1>1, <1>2, <2>5 DEF IInv
<1>6. CASE ~(counters[s] > maxLen)
  <2>1. counters[s] <= maxLen
    BY <1>0, <1>6 DEF Types
  <2>2. CitySoFar'
    BY <1>0, <1>3, <1>4, <1>6, <2>1 DEF CitySoFar, SelectCity
  <2>3. QED
    BY <1>1, <1>2, <2>2 DEF IInv
<1>7. QED
  BY <1>5, <1>6

(* After it every sound was visited.                                       *)
LEMMA CitySelectedStep == IInv /\ CitySelected => IInv'
<1> SUFFICES ASSUME IInv, CitySelected
             PROVE  IInv'
  OBVIOUS
<1>1. Types'
  BY DEF IInv, Types, CitySelected
<1>2. Groups' /\ CountrySoFar' /\ Counters'
  BY CityLoopFrame DEF CitySelected
<1>3. CitySoFar'
  BY DEF IInv, CitySoFar, CitySelected, Votes
<1>4. QED
  BY <1>1, <1>2, <1>3 DEF IInv

-----------------------------------------------------------------------------
(* The invariant holds, and what follows from it.                          *)

(* It holds before the first loop.                                         *)
LEMMA InitIInv == Init => IInv
<1> SUFFICES ASSUME Init
             PROVE  IInv
  OBVIOUS
<1>1. results \in Seq(Detail) /\ Len(results) \in Nat
  BY InputsAreSequences, LenProperties DEF Init
<1>2. Types
  BY <1>1 DEF Init, Types
<1>3. Groups
  BY <1>2, ResultsParts DEF Init, Groups, Votes
<1>4. CountrySoFar /\ Counters /\ CitySoFar
  BY DEF Init, CountrySoFar, Counters, CitySoFar
<1>5. QED
  BY <1>2, <1>3, <1>4 DEF IInv

(* Every step preserves it.                                                *)
LEMMA StepIInv == IInv /\ [Next]_vars => IInv'
<1> SUFFICES ASSUME IInv, [Next]_vars
             PROVE  IInv'
  OBVIOUS
<1>1. CASE UNCHANGED vars
  <2>1. Types' /\ Groups'
    BY <1>1 DEF vars, IInv, Types, Groups, Votes
  <2>2. CountrySoFar'
    BY <1>1 DEF vars, IInv, CountrySoFar, Best, Votes
  <2>3. Counters'
    BY <1>1 DEF vars, IInv, Counters, Voters, CityVotes, NameIsVoted, Votes
  <2>4. CitySoFar'
    BY <1>1 DEF vars, IInv, CitySoFar, Votes
  <2>5. QED
    BY <2>1, <2>2, <2>3, <2>4 DEF IInv
<1>2. QED
  BY <1>1, GroupStep, GroupedStep, SelectCountryStep, CountrySelectedStep, CountCityStep,
     CitiesCountedStep, SelectCityStep, CitySelectedStep DEF Next, Returned

(* The inductive invariant holds in every state.                           *)
THEOREM Invariance == Spec => []IInv
BY InitIInv, StepIInv, PTL DEF Spec

(* resolveIPMerge chooses a country that as many providers have voted for  *)
(* as for any other, whatever the order of the map.                        *)
THEOREM MostPopularCountry == Spec => []CountryIsMostPopular
<1>1. ASSUME IInv, pc = "done"
      PROVE  CountryIsMostPopular
  <2>1. Types /\ CountrySoFar
    BY <1>1 DEF IInv
  <2>2. \A c \in Countries : Cardinality(Votes(c)) <= Best
    BY <1>1, <2>1 DEF CountrySoFar
  <2>3. \A c : Cardinality(Votes(c)) \in Nat /\ (Cardinality(Votes(c)) = 0 <=> Votes(c) = {})
    BY <2>1, VotesAreFinite, VotesAreDetails
  <2>4. CASE selectedCountry = NoCountry
    BY <2>2, <2>3, <2>4, VoteAssumption DEF Best, CountryIsMostPopular
  <2>5. CASE selectedCountry # NoCountry
    BY <2>1, <2>2, <2>5 DEF Best, CountrySoFar, Types, CountryIsMostPopular
  <2>6. QED
    BY <2>4, <2>5
<1>2. IInv => CountryIsMostPopular
  BY <1>1 DEF CountryIsMostPopular
<1>3. QED
  BY <1>2, Invariance, PTL

(* resolveIPMergeCity chooses a city that a provider of that country has   *)
(* named, with a sound that is as frequent as any, and chooses none only   *)
(* if none was named.                                                      *)
THEOREM MostPopularCity == Spec => []CityIsMostPopular
<1>1. ASSUME IInv, pc = "done"
      PROVE  CityIsMostPopular
  <2>0. Types /\ CountrySoFar /\ Counters /\ CitySoFar
    BY <1>1 DEF IInv
  <2>1. CASE selectedCountry = NoCountry
    BY <1>1, <2>0, <2>1, VoteAssumption DEF CitySoFar, CityIsMostPopular
  <2>2. CASE selectedCountry # NoCountry
    <3>1. ASSUME NEW s \in Sounds
          PROVE  /\ Cardinality(CityVotes(selectedCountry, s)) = counters[s]
                 /\ counters[s] = 0 => CityVotes(selectedCountry, s) = {}
                 /\ counters[s] <= maxLen
      <4>1. Voters(s) = CityVotes(selectedCountry, s)
        BY <1>1 DEF Voters
      <4>2. counters[s] = Cardinality(Voters(s)) /\ counters[s] <= maxLen
        BY <1>1, <2>0, <2>2 DEF Counters, CitySoFar
      <4>3. CityVotes(selectedCountry, s) \in SUBSET DOMAIN results
        BY DEF CityVotes, Votes
      <4>4. QED
        BY <2>0, <4>1, <4>2, <4>3, VotesAreFinite
    <3>2. CASE cityName = NoCity
      <4>1. \A s \in Sounds : counters[s] = 0
        BY <1>1, <2>0, <2>2, <3>1, <3>2 DEF CitySoFar, Types
      <4>2. QED
        BY <3>1, <3>2, <4>1, VoteAssumption DEF CityIsMostPopular
    <3>3. CASE cityName # NoCity
      <4>1. cityName \in Cities /\ Sound[cityName] \in Sounds
        BY <2>0, <3>3, VoteAssumption DEF Types
      <4>2. maxLen = counters[Sound[cityName]]
        BY <1>1, <2>0, <2>2, <3>3 DEF CitySoFar
      <4>3. \E k \in Votes(selectedCountry) : results[k].city = cityName
        BY <2>0, <3>3 DEF CitySoFar
      <4>4. QED
        BY <3>1, <4>1, <4>2, <4>3 DEF CityIsMostPopular
    <3>4. QED
      BY <3>2, <3>3
  <2>3. QED
    BY <2>1, <2>2
<1>2. IInv => CityIsMostPopular
  BY <1>1 DEF CityIsMostPopular
<1>3. QED
  BY <1>2, Invariance, PTL
=============================================================================

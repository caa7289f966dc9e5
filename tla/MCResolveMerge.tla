---------------------------- MODULE MCResolveMerge ----------------------------
(* Small instances of ResolveMerge for TLC.                                *)
EXTENDS ResolveMerge

CONSTANTS de, ru, moscow, moskva, berlin, msk, brln

TwoCountries == {de, ru}
ThreeCities  == {moscow, moskva, berlin}
TwoSounds    == {msk, brln}

(* Two spellings that sound alike, and another city.                       *)
SoundOfCity == [c \in ThreeCities |-> IF c = berlin THEN brln ELSE msk]
=============================================================================

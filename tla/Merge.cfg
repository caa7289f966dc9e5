SPECIFICATION Spec
CONSTANTS
    de = de
    ru = ru
    moscow = moscow
    moskva = moskva
    berlin = berlin
    msk = msk
    brln = brln
    Countries <- TwoCountries
    NoCountry = NoCountry
    Cities <- ThreeCities
    NoCity = NoCity
    Sounds <- TwoSounds
    Sound <- SoundOfCity
    MaxDetails = 4
INVARIANTS
    CountryIsMostPopular
    CityIsMostPopular

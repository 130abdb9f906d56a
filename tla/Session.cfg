SPECIFICATION SessionSpec
CONSTANTS
    Users = {alice, bob}
    Nobody = Nobody
    Nothing = Nothing
    Calls = {k1, k2}
    Addresses <- MCAddresses
SYMMETRY Symmetric
INVARIANTS SessionTypeOK SignedOutStaysOut OwnDataOnly TitleIsPage

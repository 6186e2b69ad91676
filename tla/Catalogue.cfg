SPECIFICATION Spec
CONSTANTS
    Locations = {"bar", "vip"}
    Stores = {"store"}
    Products = {"beer", "wine"}
    Skus = {"lager", "stout", "cider"}
    Menus = {"menu", "wines", "extra"}
    Items = {"pint", "half", "glass"}
    ProductOf <- MCProductOf
    SkuOf <- MCSkuOf
    MenuOf <- MCMenuOf
    Code <- MCCode
    Prices <- MCPrices
    Unset = Unset
    Everywhere = Everywhere
    ConfiguredRows <- MCConfigured
    ConfiguredAssignments <- MCAssigned
    ConfiguredPrices <- MCConfiguredPrices
    Clients = {c1, c2}
    Pulls = {p1, p2}
    Registers = {"till"}
    LocationOf <- MCLocationOf
    EventTargets = {"ACTIVE"}
    MaxChanges = 1
    MaxBatches = 2
    MaxLocal = 1
SYMMETRY Symmetries
INVARIANTS TypeOK WhatIsSoldIsInstalled
PROPERTIES MenusGoForward

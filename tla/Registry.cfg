CONSTANTS
    a = a
    b = b
    always = always
    manual = manual
    c1 = c1
    c2 = c2
    main = main
    Names = {a, b}
    Settings = {always, manual}
    Modes = {always, manual}
    Default = always
    Server = 1
    Base = 2
    Top = 4
    Unsafe = {3}
    Wanted = {1, 4}
    KeySets <- SomeKeys
    Clients = {c1, c2}
    Main = main
    Budget <- Bounds
SPECIFICATION Spec
SYMMETRY Symmetry
INVARIANTS
    TypeOK
    SoundConfigs
    RegistryLoads
    InForceIsTheFile
PROPERTIES
    PortsStick
CHECK_DEADLOCK FALSE

CONSTANTS
    ID = ID
    ENG = ENG
    POL = POL
    DEU = DEU
    None = None
    ID_COLUMN = ID
    FALLBACK = ENG
    Files <- SomeFiles
    Wishes <- SomeWishes
    Registers = {None, 0, 1, 7}
    Numbers = {"6", "20"}
    Units = {"C", "%", "min"}
    OnOff = {"ON", "OFF"}
    Moves = {"OPEN", "STOP", "CLOSE"}
    Dashes = {"---", "-"}
    ModeLabels = {"Mode", "Tryb", "Modus"}
    ModeCaptions = {"Mode", "Tryb"}
    Abbreviations = {"set."}
    Stems <- SomeStems
    SlotTexts <- SomeSlotTexts
    MaxSlots = 2
    Rows <- SomeRows
    DEVICE <- DeviceLabel
    Characters = {65, 32}
    Low = {0, 90, 255}
    High = {0, 7, 255}
    MaxParts = 3
    MaxNuls = 2
SPECIFICATION MCSpec
INVARIANTS ListedIsSelectable TextIsItsOwn SlotsResolve NamesTellApart ExpandsUnlessShortIndexLast
PROPERTY FollowsWish
CHECK_DEADLOCK FALSE

SPECIFICATION GuestsSpec
CONSTANTS
    NULL = NULL
    g1 = g1
    o1 = o1
    o2 = o2
    d1 = d1
    d2 = d2
    ri1 = ri1
    ri2 = ri2
    b1 = b1
    b2 = b2
    c1 = c1
    c2 = c2
    Group = {g1}
    Order = {o1, o2}
    GroupOf <- MCGroupOf
    DeliveryId = {d1, d2}
    Rider = {ri1, ri2}
    BatchId = {b1, b2}
    Call = {c1, c2}
    CodeNames = {o1, o2}
    TrackedTabs = {tab}
    Guests = {d1, d2}
    TrackFees = {5, 6}
    TrackBills = {bill}
    Reviews = {ri1, ri2}
    TrackCalls = {c1, c2}
    MaxTrackCalls = 3
    NoCode = NoCode
    NoTab = NoTab
    NoGuest = NoGuest
    NoScope = NoScope
    Providers = {hm, rs}
    Rsa = {rs}
    TerminalProvider = hm
    PostedLists = {{hm, rs}}
    Descriptions <- MCDescriptions
    Keys = {b1, b2}
    SettingsCalls = {c1, c2}
    MaxSettingsCalls = 3
    MaxEpoch = 1
    NoKey = NoKey
    Mask = Mask
    NotSet = NotSet
SYMMETRY Symmetry
INVARIANTS
    LedgersAgree
    BumpedHasDelivery
    CodesLeadRight
    KeysAreEntered
PROPERTIES
    FirstAcceptWins
CHECK_DEADLOCK FALSE

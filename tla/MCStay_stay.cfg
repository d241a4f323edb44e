SPECIFICATION SumSpec
CONSTANTS
    Req = {r1, r2}
    Slot = r3
    Total = 3
    MaxRows = 2
    Admin = {r4}
    Intent = {i1}
    Guest = {g1, g2}
    None = None
    Message = {1}
    Booking = {1}
    ListingId = {1, 2}
    MaxSaves = 2
    Type = {"villa", "tent"}
    Equipment = {"wifi"}
    DefaultItem = {"villa", "wifi"}
    Place = {"fr", "tn", "own"}
    DefaultPlace = {"fr", "tn"}
SYMMETRY Symmetry
INVARIANTS RefundsRegistered MoneyFollowsStatus ReadIsShown ListsAgree
           UsedItemsExist DefaultsAreThere
PROPERTIES StaysKeepTheirHost
CHECK_DEADLOCK FALSE

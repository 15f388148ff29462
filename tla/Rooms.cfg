\* Two addresses and two users, so that one address may get two accounts; two
\* requests that may register, three that may ask for the room first, two that
\* may rename it.  Deadlock is not checked: requests are served once.
SPECIFICATION Spec
CONSTANTS
    r1 = r1
    r2 = r2
    r3 = r3
    r4 = r4
    a1 = a1
    a2 = a2
    u1 = u1
    u2 = u2
    k1 = k1
    k2 = k2
    None = none
    Addresses <- MCAddresses
    Users <- MCUsers
    Rooms <- MCRooms
    Names = {"default", "other"}
    DefaultName = "default"
    Requests <- MCRequests
    MayAsk <- MCMayAsk
INVARIANTS
    OneAccountPerAddress
    NothingVanishes
    RoomAndRootAgree
PROPERTIES
    RequestsEnd
    OneRoomPerUser
CHECK_DEADLOCK FALSE

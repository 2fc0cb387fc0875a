CONSTANTS
    Clients = {c1, c2}
    Operators = {admin}
    Rooms = {r1}
    NoRoom = NoRoom
    NoClient = NoClient
    Rounds = 1
    FeeConfigs <- ConfirmedTrailingFees
    MaxClients = 2
    MaxRooms = 1
    MaxOpenOffers = 1
    MaxOffersPerClient = 1
    MaxFaults = 0
SPECIFICATION Spec
INVARIANT NeverForgets

CONSTANTS
    Clients = {c1, c2, c3}
    Operators = {admin}
    Rooms = {r1}
    NoRoom = NoRoom
    NoClient = NoClient
    Rounds = 1
    FeeConfigs <- UnconfirmedEarlyFees
    MaxClients = 2
    MaxRooms = 1
    MaxOpenOffers = 1
    MaxOffersPerClient = 1
    MaxFaults = 1
SPECIFICATION Spec
INVARIANTS OneOutcome CompleteMeansSettled NoOrphanedRooms SettlementReceiptChained LiveRoomsOnDisk NeverForgetsOpenRooms
SYMMETRY Identities

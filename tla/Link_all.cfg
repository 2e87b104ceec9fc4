\* Two users, two chats, two codes; statements fail and the bot stops.
SPECIFICATION Spec
CONSTANTS
    User = {ann, bob}
    Chat = {c1, c2}
    Code = {k1, k2}
    NoUser = NoUser
    NoChat = NoChat
    NoUpdate = NoUpdate
    RedisFails = TRUE
    DbFails = TRUE
    MaxSent = 3
INVARIANTS TypeOK LinkedByOwnCode CodeConnectsOnce ConnectedGetsAlerts
SYMMETRY Symmetry

\* With a player connected the emergency does not end.
CONSTANTS
    NumClients = 2
    Calls = 2
    MaxStack = 1
    CountMod = 4
SPECIFICATION OutageFairSpec
PROPERTIES
    DisconnectsEveryone

CONSTANTS
    w1 = w1
    w2 = w2
    e1 = e1
    Words <- MCWords
    Edits <- MCEdits
    Earlier <- MCEarlier
    LeftCopies <- MCCopies
    MaxLen = 3
    MinKeyLen = 2
    MaxSalt = 2
    MaxCrashes = 2
    None = None
SPECIFICATION Spec
CHECK_DEADLOCK FALSE
INVARIANTS NothingLost KeyOpensVault NoPlaintextWhileOpen
PROPERTIES VaultKeepsPassphrase

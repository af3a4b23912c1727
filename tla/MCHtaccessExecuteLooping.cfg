\* A rule that loops, in a directory that refuses everybody.
CONSTANTS
    user = user
    mallory = mallory
    NoLogin = NoLogin
    NoFile = NoFile
    Logins <- TheLogins
    Passwords <- ThePasswords
    Requested <- TheRequests
    Files <- TheFiles
    Directories <- TheDirectories
    Spare = 0
    Sites <- LoopingSites
    Edits <- NoEdits
    MaxRedirects = 2
    MaxEdits = 0
    AllocFails = FALSE
SPECIFICATION Spec
INVARIANTS
    RefusedIsNeverServed

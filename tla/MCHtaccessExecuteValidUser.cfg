\* The repository's own fixture.
CONSTANTS
    user = user
    mallory = mallory
    NoLogin = NoLogin
    NoFile = NoFile
    Logins <- TheLogins
    Passwords <- ThePasswords
    Requested <- TheRequests
    Files <- TheFiles
    Directories <- TheDirectories
    Spare = 0
    Sites <- FixtureSites
    Edits <- NoEdits
    MaxRedirects = 2
    MaxEdits = 0
    AllocFails = FALSE
SPECIFICATION Spec
INVARIANTS
    ValidUserRequired

\* Two groups of directives in the root, one in the subdirectory, three passes.
CONSTANTS
    user = user
    mallory = mallory
    NoLogin = NoLogin
    NoFile = NoFile
    Logins <- TheLogins
    Passwords <- ThePasswords
    Requested <- TheRequests
    Files <- TheFiles
    Directories <- TheDirectories
    Spare = 0
    Sites <- TheSites
    Edits <- TheEdits
    MaxRedirects = 3
    MaxEdits = 1
    AllocFails = TRUE
SPECIFICATION Spec
INVARIANTS
    ExecuteTypeOK
    DeniedFilesStayDenied
    NothingRefusedIsServed
    NothingReopened
    
    ClientQueryKept
    ChainsHold
PROPERTIES
    
    EnvSettled
    RequestGetsOn
    
    RequestDecided

\* The conditions of htaccess_examples/wordpress, which ought to keep files as they are.
CONSTANTS
    user = user
    mallory = mallory
    NoLogin = NoLogin
    NoFile = NoFile
    Logins <- TheLogins
    Passwords <- ThePasswords
    Requested <- FileRequests
    Files <- TheFiles
    Directories <- TheDirectories
    Spare = 0
    Sites <- WordPressSites
    Edits <- NoEdits
    MaxRedirects = 2
    MaxEdits = 0
    AllocFails = FALSE
SPECIFICATION Spec
INVARIANTS
    ExistingFilesAreServed

SPECIFICATION Spec
CONSTANTS
    Chars <- MCChars
    MaxLength <- MCMaxLength
    MaxName = 4
    MaxLabel = 3
    IPs <- MCIPs
    IPString <- MCIPString
INVARIANTS
    FilesNameTarget
    SubjectIsCertified
    IssuesDottedNames
    SerialIsItsNumber
    URLNamesMaster
CHECK_DEADLOCK FALSE

CONSTANTS
    MailFolder <- MCFolder
    Users = {"alice", "bob"}
    Contents <- MCContentsLong
    MaxFilesPerUser = 2
    NAnnotations = 2
    MaxMail <- MCNoLimit
    SelectCount = 2
    MaxPayload = 20
    TemplateLen = 5
    IdLen = 4
SPECIFICATION Spec
INVARIANT QueryWithinPayload
CHECK_DEADLOCK FALSE

CONSTANTS
    MailFolder <- MCFolder
    Users = {"alice", "bob"}
    Contents <- MCContents
    MaxFilesPerUser = 2
    NAnnotations = 2
    MaxMail = 3
    SelectCount = 2
    MaxPayload = 20
    TemplateLen = 5
    IdLen = 4
SPECIFICATION Spec
INVARIANT CutToPayload
INVARIANT MailsRead
INVARIANT SelectsInserted
CHECK_DEADLOCK FALSE

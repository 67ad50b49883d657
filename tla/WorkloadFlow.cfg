CONSTANTS
    Res = 2
    Ceiling = 2
    Margin = 1
    Leeway = 1
    Scope = {"read", "write"}
    Request <- SomeScope
    Offsets <- MCOffsets
    Fault = {"none", "early", "long", "mismatch", "unreadable", "undated", "opaque", "foreign"}
    SubjectLife = 3
    Kid = {"k1", "k2"}
    MaxNow = 6
    MaxChanges = 1
SPECIFICATION Spec
INVARIANTS AnswerAsAsked
PROPERTIES AuthorityEndsWithSubject SentIsAccepted

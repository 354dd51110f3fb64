SPECIFICATION MCSpec
CONSTANTS
    MaxGen = 2
    CRDs = {d1}
    MaxFaults = 2
    Charts = {"c1", "c2", "c3"}
    BuiltIn = {"c1", "c3"}
    Declared <- MCDeclared
    Answers <- MCAnswers
    MaxChanges = 2
    Addresses = {"a1", "a2"}
    Extra = {"x"}
    Requests = {"r1", "r2"}
    MaxMoves = 2
    Tokens = {t1, t2}
    None = None
    Tampered = Tampered
    MaxFailures = 2
INVARIANTS AddonsSettle ApprovedIsKnown RecordedIsRevoked SettlesRight
PROPERTIES
    EndpointsConverge ServingCertificateIssued
    ReplacedIsRevoked PublishedTokenSurvives DeletionCompletes
CHECK_DEADLOCK FALSE

\* Parts around the enclaves that share no state, one at a time.
CONSTANTS
    Addresses = {"a1", "a2", "a3"} Hostnames = {"n1", "n2"} Submissions <- EgressSubmissions MaxRebinds = 1
    Workers = {"w1", "w2"} WorkOf <- MetricsWork MaxTicks = 2 MaxStrays = 1 MaxSupplied = 4
    StaleAfter = 1 ReceiveTimeout = 1 CounterMax = 5
    Enclaves <- SessionEnclaves KeyOf <- SessionKeyOf ControlKeyOf <- SessionControlKeyOf
    Requests <- SessionRequests NoState = NoState MaxDials = 2 MaxRpcs = 2
    AutoCreate = TRUE MaxKeys = 1 MaxCrashes = 3
    NameOrder <- PulledNames InvalidNames = {"1BAD"} ForbiddenNames = {"http_proxy"}
    AllowedCreds = {"AWS_KEY", "AWS_REGION"} Region = "AWS_REGION" ImageEnv <- PulledImageEnv
    CredsMaps <- PulledCreds SecretsMaps <- PulledSecrets MaxUpgrades = 2
    Invocations = {"c1", "c2"} Backends = {"home", "away"} MaxGrants = 3 MaxRuns = 2
    MaxPollFailures = 2 MaxLog = 3
INIT SupportInit
NEXT SupportNext
INVARIANTS
    EnforcesAuthored MetricsAreSound AnswersAreOwn SealedKeysHold PullsAreWhole
    CliIsFaithful
CHECK_DEADLOCK FALSE

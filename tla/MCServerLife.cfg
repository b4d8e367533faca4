SPECIFICATION Spec
CONSTANTS
    None = None
    Tasks = {1}
    Spellings = {"ann", "Ann", "bob", "eve"}
    Newcomers = {"Ann"}
    TenantNames = {"acme"}
    Emails = {"mail"}
    Ips = {"near", "far"}
    IdentityKeys = {"key"}
    Databases = {"memory", "postgres"}
    Normalize <- Lowercase
    MAX_FAILURES = 2
    WINDOW_SECS = 1
    MAX_KEYS = 2
    TENANT_FLOOD_CEILING = 3
    SESSION_TTL_SECS = 1
    MAX_PER_WINDOW = 1
    MAX_CALLERS = 1
    MaxTime = 2
    MaxKeys = 2
    Budgets <- Given
INVARIANTS SessionsExact GuessesBounded RestartKeeps

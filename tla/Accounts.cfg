CONSTANTS
    n1 = n1
    n2 = n2
    c1 = c1
    c2 = c2
    k1 = k1
    SIGNUP = SIGNUP
    Unset = Unset
    Nobody = Nobody
    Nodes = {n1, n2}
    Deployments = {TRUE, FALSE}
    Settings = {k1, SIGNUP}
    ThreadRead = {k1}
    Values <- MCValues
    Env <- MCEnv
    Forms <- MCForms
    Imports <- MCImports
    ResetOnStart = FALSE
    MaxSaves = 1
    MaxCrashes = 1
    Calls = {c1, c2}
    Kinds = {"signup", "ldap", "oauth"}
    Email <- MCEmail
    Roles = {"pending", "admin"}
    DefaultRole = "pending"
    RoleManagement = FALSE
    OauthRoles = {"pending"}
    InitialAdminSignup = FALSE
    SessionSharing = FALSE
    AdminEnv = {TRUE, FALSE}
    MaxWork = 4
SYMMETRY Symmetry
SPECIFICATION Spec
INVARIANTS OneSignupWins  ClosedStaysClosed SetIsRead
PROPERTY PrimaryStaysAdmin
CHECK_DEADLOCK FALSE

CONSTANTS
    Nil = Nil
    Workers = {w1, w2}
    Tabs = {x, y}
    Visitor = user
    MaxCalls = 2
    MaxLate = 1
    T1 = T1  T2 = T2  T3 = T3
    root = root  adm = adm  lead = lead  user = user  other = other
    A1 = A1  A2 = A2  A3 = A3  B1 = B1
    G1 = G1  G2 = G2
    gw1 = gw1  i1 = i1  m1 = m1  m2 = m2  o1 = o1  c1 = c1  r1 = r1
    DefaultPorts <- Ports
    PageSize = 1
    MaxEvents <- PageActs
    MaxWaiting = 1
    Permissions = {1, 2}
    Limited = {1}
    Limit = 2
    Scenarios <- MCScenarios
SYMMETRY Symmetry
SPECIFICATION PortalSpec
CHECK_DEADLOCK FALSE
INVARIANTS
    ListsAgree AgentsSound TokensSound ListsCurrent OptionsFit
PROPERTIES
    QuotaKept FreeSwitchInStep OwnTenants AccountsSound RouteChecked NotThrownOut

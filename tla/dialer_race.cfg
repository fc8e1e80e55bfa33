SPECIFICATION Spec
CONSTANTS
  s1 = s1
  s2 = s2
  w1 = w1
  w2 = w2
  c1 = c1
  c2 = c2
  Schedulers = {s1, s2}
  Workers = {w1}
  HostOf <- TwoHosts
  Campaigns = {c1}
  Leads <- LeadIds1
  CampaignOf <- AllToOne
  MaxRetries = 0
  RetryDelay = 1
  Limits = {1}
  Billable = {"answered"}
  OpenTimes = {0, 1}
  Faults = {"crash", "eslTimeout", "bgFail"}
  Requests = {"schedule", "start"}
  InitCampaigns <- Running1
  InitLeads <- LeadIds1
  MaxJobs = 1
  MaxTime = 0
  MaxRequests = 3
  MaxPosts = 2
INVARIANTS DialedOnce ChargedOnce
PROPERTY OneCallPerJob

SPECIFICATION LiveSpec
CONSTANTS
  s1 = s1
  s2 = s2
  w1 = w1
  w2 = w2
  c1 = c1
  c2 = c2
  Schedulers = {s1}
  Workers = {w1}
  HostOf <- OneHost
  Campaigns = {c1}
  Leads <- LeadIds2
  CampaignOf <- AllToOne
  MaxRetries = 2
  RetryDelay = 1
  Limits = {1}
  Billable = {"answered"}
  OpenTimes = {0, 1}
  Faults = {}
  Requests = {"schedule"}
  InitCampaigns <- Running1
  InitLeads <- LeadIds2
  MaxJobs = 6
  MaxTime = 1
  MaxRequests = 1
  MaxPosts = 1
INVARIANTS TypeOK CapacityRespected NothingLost AnsweredNotRetried
PROPERTIES PendingJobsTaken DialingJobsSettled

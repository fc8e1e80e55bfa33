SPECIFICATION Spec
CONSTANTS
  s1 = s1
  s2 = s2
  w1 = w1
  w2 = w2
  c1 = c1
  c2 = c2
  Schedulers = {s1}
  Workers = {w1, w2}
  HostOf <- OneHost
  Campaigns = {c1, c2}
  Leads <- LeadIds2
  CampaignOf <- EachItsOwn
  MaxRetries = 0
  RetryDelay = 1
  Limits = {1}
  Billable = {"answered"}
  OpenTimes = {0, 1}
  Faults = {}
  Requests = {"create", "addLeads", "schedule", "start", "deleteLead", "deleteCampaign", "update"}
  InitCampaigns <- FirstRuns
  InitLeads <- LeadIds1
  MaxJobs = 3
  MaxTime = 0
  MaxRequests = 3
  MaxPosts = 2
INVARIANT ForeignKeys
PROPERTY DeletedNotRequeued

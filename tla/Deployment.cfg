CONSTANTS
  in = in
  out = out
  listed = listed
  bad = bad
  t1 = "t1"
  t2 = "t2"
  NoBacklog = NoBacklog
  Addresses <- MCAddresses
  Events <- MCEvents
  Setups <- MCSetups
  MaxWriters = 2
  PluginID = 2
  FirstNumber = 2
  Reliability = 9
  Categorised <- MCCategorised
SPECIFICATION Spec
CHECK_DEADLOCK FALSE
INVARIANTS DeploymentTypeOK BacklogAssumption PanicCauses ReferencesFollowOpener QuickCheckSound ListsMeanTheirComment RunsServedVersion MergeKeeps WatchesTitle
PROPERTIES SIDsRetained

\* Both loops over one server and over three of the replicas of a service that
\* tolerates one fault; the commit channel has room for one or for every client.
SPECIFICATION FairSpec
CONSTANTS
  NumClient = 2
  InvokeCapacity = 1
  MaxInflight = 1
  Workloads <- MCWorkloads
  r1 = r1
  r2 = r2
  r3 = r3
  Replica = {r1, r2, r3}
  Id = {r1, r2, r3}
  Faulty = {r3}
  NumFaulty = 1
INVARIANTS RequestsBounded ClientsFailForReason
 
CHECK_DEADLOCK FALSE

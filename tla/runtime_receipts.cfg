SPECIFICATION Spec
CONSTANTS
  a1 = a1  a2 = a2  c1 = c1  t1 = t1  r1 = r1  r2 = r2  r3 = r3  r4 = r4
  None = None
  Agents = {a1, a2}
  Tasks = {}
  OwnerChats = {}
  Runs = {r2}
  Direct = {r2}
  To <- MCTo
  AgentOf <- MCAgentOf
  LockTtl = 1  ChatTtl = 1  MutexTtl = 1  LeaseTtl = 1
CHECK_DEADLOCK FALSE
PROPERTY ConfirmedStays

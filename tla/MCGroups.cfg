CONSTANTS
  u1 = u1
  u2 = u2
  u3 = u3
  a1 = a1
  g1 = g1
  g2 = g2
  NoUser = NoUser
  Users <- ThreeUsers
  Agents = {a1}
  AgentOwner <- OwnerOfAgent
  Invites <- TwoInvites
  Members = {u1}
  MaxFaults = 1
  Groups = {g1, g2}
  Amounts = {1, 2}
  MinStake = 2
  MinWelfare = 8
  MinDrop = 2
  Activities = {0, 3}
  DailyPool = 10
  TopN = 1
  TopAmount = 2
  GroupCap = 6
  Hours = 2
  InitCredits = 4
  InitPool = 6
  MaxStakes = 2
  MaxTime = 2
  Owner = u2
  Calls = {1, 2}
  Limits = {0, 2}
  DefaultLimit = 1
  MaxMessages = 3
  MaxReports = 2
  MaxDocs = 3
  MaxDays = 1
  Nodes = {"north", "south"}
  Peers <- TwoPeers
  Founder = "north"
  Messages = {"text"}
  Tasks = {"task"}
  MaxPosts = 5
  MaxLate = 1
SYMMETRY GroupSymmetry
SPECIFICATION PartsSpec
INVARIANTS
  OneOwner
  
  GroupAnswers
  InStep
PROPERTIES
  EntryIsApproved
  OwnerAppoints
CHECK_DEADLOCK FALSE

SPECIFICATION FairDeskSpec
CONSTANTS
  Loops = {"fore", "back"}
  Contents <- OneContent
  Jobs = {1, 2}
  Workers = {"w1", "w2"}
  Drafts = {"life", "other"}
  LifeOrLiberty = {"life"}
  LifeDays = 0
  ResponseDays = 1
  Thresholds = {0, 1}
  Threads = {"t1", "t2"}
  MaxRefs = 1
  MaxDay = 1
  Processes = {"p1", "p2"}
  Webs = {"p1"}
  MaxAttempts = 2
  MaxStamp = 3
  Nobody = "nobody"
  Payloads = {"whole", "partial"}
  Complete = {"whole"}
  Callers = {"r1", "r2"}
  MaxRows = 2
  Passwords = {"old", "new"}
  Roles = {"citizen", "staff"}
  Sessions = {"s1"}
  Tokens = {"k1"}
  Requests = {"q1", "q2"}
  Sockets = {"k1", "k2", "k3"}
  Owners = {"s1", "s2"}
  OwnerOf <- OneOfTwo
PROPERTY QueuedIsAnswered
PROPERTY ReadyIsServed
PROPERTY EndedSocketsFall
CHECK_DEADLOCK FALSE

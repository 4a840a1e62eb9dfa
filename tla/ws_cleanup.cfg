CONSTANTS
  Parts = {"socket"}
  g1 = g1  g2 = g2  n1 = n1  m1 = m1  r1 = r1
  Callers = {g1, g2, n1}
  Notifiers = {n1}
  Errors = {"ok", "failed"}
  NoErr = "ok"
  NotLocked = NotLocked
  MaxTasks = 2
  Buffers = {m1, r1}
  Closable = {r1}
  Messages = {m1}
  ReadLoop = ReadLoop
  PingLoop = PingLoop
  NoCloser = NoCloser
  StopPing = StopPing
  ExecCalls = {"a", "b"}
  Paths = {"p", "q"}
  Pipe = "pipe"
  NoCall = "none"
  Sessions = {"ts", "mp4"}
  TsSessions = {"ts"}
  Requests = {"first", "second"}
  NoSession = "none"
  MaxFragments = 2
SPECIFICATION PartsSpec
INVARIANT CleanupNeverPanics

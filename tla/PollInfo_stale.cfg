CONSTANTS
  PollSize = 4
  Reader = Reader
  Writer = Writer
  Timeouts = {t1, t2}
  Pipe = Pipe
  Socket = Socket
  NoFd = NoFd
  NULL = NULL
  MaxPipe = 1
SPECIFICATION PollSpec
INVARIANT OnlyExpiredIsRead

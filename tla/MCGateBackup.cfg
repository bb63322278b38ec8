\* Two goroutines call Open; five arrivals against a queue of three; the
\* clock passes maxAge more than once.
\* A minute is five ticks: several changes of the connection fall between
\* the start of a timer and its end, and a forgotten timer runs on meanwhile.
CONSTANTS
  Openers = {o1, o2}
  MaxMsgs = 5
  MaxLen  = 3
  MaxAge  = 1
  MaxNow  = 3
  Wait    = 5
SPECIFICATION MCSpec
INVARIANTS
  GateTypeOK
  NothingStranded
  BacklogsInOrder
  EachMessageInOnePlace
  TypeOK
  CallsApart
PROPERTIES
  DrainsOnlyFresh
  DiscardsJustified
  OnlyAfterWait
  BackupFollows

SPECIFICATION JointSpec
CONSTANTS
  MaxSeq = 2
  MaxOps = 2
  Calls = {"markConversation", "markMessage", "delete", "revoke", "clear"}
  Events = {"revoke", "delete", "clear", "read", "receipt", "sync", "mine"}
  People = {"u", "v"}
  Queries = {"p", "q"}
  Way = 1
  Apps = {app1, app2}
  Callers = {"c"}
  ErrorKinds = {"kicked"}
  Epochs = 3
  Attempts = 2
  PageCalls = {"p", "q"}
  Upload = "u"
  StatementsOf <- FewStatements
  FileSize = 3
  BufferSize = 2
CONSTRAINT Few
INVARIANTS  CountedOnce  OneSession PageIsAnswered
CHECK_DEADLOCK FALSE

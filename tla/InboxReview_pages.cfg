SPECIFICATION InboxSpec
CONSTANTS
  Runners = {q1}
  Chats = {a}
  Ours = {}
  MaxPosts = 3
  MaxRuns = 1
  Limit = 3
  ChatsRead = 1
  ReviewPage = 1
  PerChat = 3
INVARIANT ReviewMissesNothing
CHECK_DEADLOCK FALSE

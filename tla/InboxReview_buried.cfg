SPECIFICATION InboxSpec
CONSTANTS
  Runners = {q1}
  Chats = {a, b}
  Ours = {}
  MaxPosts = 3
  MaxRuns = 1
  Limit = 1
  ChatsRead = 2
  ReviewPage = 1
  PerChat = 1
INVARIANT InboxLosesNothing
CHECK_DEADLOCK FALSE

----------------------------- MODULE InboxReview -----------------------------
(***************************************************************************)
(* `max inbox --new` and `max review` (src/src/client.ts,                   *)
(* src/src/commands/inbox.ts, src/src/review.ts): what they read of the     *)
(* chats that changed, and the point each of them moves.                    *)
(*                                                                          *)
(* Messages are numbered by their time, which no two share.  The chat list  *)
(* is MAX's: what a copy of it may lack is ContactStore's matter.  The      *)
(* point of `inbox` lives in the profile's state, a file every command      *)
(* reads before its login and writes back after it; the point of `review`   *)
(* is the --since its note tells the person to start with.                  *)
(***************************************************************************)
EXTENDS Integers, FiniteSets, Sequences, SequencesExt, FiniteSetsExt

CONSTANTS
  Runners,      \* processes of one profile
  Chats,
  Ours,         \* which of the messages this account writes
  MaxPosts, MaxRuns,    \* bounds
  Limit,        \* --limit of the inbox
  ChatsRead,    \* INBOX_CHATS and REVIEW_CHATS
  ReviewPage, PerChat   \* REVIEW_PAGE and REVIEW_PER_CHAT

ASSUME InboxAssumption ==
  /\ {MaxPosts, MaxRuns} \subseteq Nat
  /\ {Limit, ChatsRead, ReviewPage} \subseteq Nat \ {0}
  /\ \E pages \in 1 .. PerChat : PerChat = pages * ReviewPage

VARIABLES
  log,          \* the chat of each message
  saved,        \* lastCheckAt
  point,        \* where the next review starts
  errand,       \* what each runner is doing
  runs,
  shown,        \* messages an inbox has printed
  pointedAt,    \* messages an inbox has not printed and named the chat of
  reviewed,     \* messages a review has printed
  buried, outrun        \* messages an inbox or a review could not reach (Unreached, Beyond), and did not say so

inboxVars == << log, saved, point, errand, runs, shown, pointedAt, reviewed, buried, outrun >>

Posts == DOMAIN log
InChat(c) == { m \in Posts : log[m] = c }
LastOf(c) == Max(InChat(c) \cup {0})
Theirs(S) == S \ Ours

Free ==
  [ at |-> "free", kind |-> "none", state |-> 0, since |-> 0, cut |-> 0, todo |-> << >>,
    until |-> 0, from |-> 0, part |-> {}, got |-> {}, hints |-> {}, over |-> {}, more |-> FALSE ]

InboxInit ==
  /\ log = << >>
  /\ saved = 0 /\ point = 0
  /\ errand = [r \in Runners |-> Free]
  /\ runs = 0
  /\ shown = {} /\ pointedAt = {} /\ reviewed = {}
  /\ buried = {} /\ outrun = {}

----------------------------------------------------------------------------
Arrive ==
  /\ Len(log) < MaxPosts
  /\ \E c \in Chats : log' = Append(log, c)
  /\ UNCHANGED << saved, point, errand, runs, shown, pointedAt, reviewed, buried, outrun >>

Goes(r, job) ==
  /\ errand' = [errand EXCEPT ![r] = job]
  /\ UNCHANGED << log, runs, point, reviewed, outrun >>

\* The state is read: the point to start from, and what the login will write back.
Start(r) ==
  /\ errand[r] = Free
  /\ runs < MaxRuns
  /\ runs' = runs + 1
  /\ \E kind \in {"inbox", "review", "other"} :
       errand' = [errand EXCEPT ![r] = [Free EXCEPT !.at = "login", !.kind = kind, !.state = saved,
                                                    !.since = CASE kind = "inbox" -> saved
                                                                [] kind = "review" -> point
                                                                [] OTHER -> 0]]
  /\ UNCHANGED << log, saved, point, shown, pointedAt, reviewed, buried, outrun >>

\* connect counts the login in the state it read before it.
LoggedIn(r) ==
  LET job == errand[r] IN
  /\ job.at = "login"
  /\ saved' = job.state
  /\ Goes(r, IF job.kind = "other" THEN Free ELSE [job EXCEPT !.at = "list", !.state = 0])
  /\ UNCHANGED << shown, pointedAt, buried >>

Changed(since) == { c \in Chats : LastOf(c) > since }
Window(c, since, cut) == { m \in InChat(c) : since < m /\ m <= cut }

\* The latest first.
ByRecency(S) ==
  { q \in [1 .. Cardinality(S) -> S] :
      ToSet(q) = S /\ \A i, j \in DOMAIN q : i < j => LastOf(q[i]) > LastOf(q[j]) }

\* Mutant of Capped: every changed chat is read in one burst.
CappedNever(chats) == chats

Capped(chats) == SubSeq(chats, 1, Min({ChatsRead, Len(chats)}))

\* #changedSince, and the chats past ChatsRead, which are named and not read.
ListChats(r) ==
  LET job == errand[r]
      cut == Max({job.since} \cup { LastOf(c) : c \in Changed(job.since) })
  IN
  /\ job.at = "list"
  /\ \E chats \in ByRecency(Changed(job.since)) :
       LET read == Capped(chats)
           skipped == Changed(job.since) \ ToSet(read)
       IN
       Goes(r, [job EXCEPT !.at = "read", !.cut = cut, !.todo = read, !.until = job.since, !.from = job.since,
                           !.more = skipped # {},
                           !.hints = UNION { Window(c, job.since, cut) : c \in skipped }])
  /\ UNCHANGED << saved, shown, pointedAt, buried >>

NewestIn(n, S) == { m \in S : Cardinality({ k \in S : k > m }) < n }
OldestIn(n, S) == { m \in S : Cardinality({ k \in S : k < m }) < n }

\* Mutant of Fresh: the point may follow a message that came while other chats were read.
FreshUncut(page, job) == { m \in page : m > job.since }

Fresh(page, job) == { m \in page : m > job.since /\ m <= job.cut }

\* What Limit newer messages of its chat keep off the page.
Unreached(c, since, cut) == Window(c, since, cut) \ NewestIn(Limit, InChat(c))

\* inbox.since: the newest of one chat.  `more` asks for Limit fresh ones, and one of another person.
InboxReads(r) ==
  LET job == errand[r]
      c == Head(job.todo)
      fresh == Fresh(NewestIn(Limit, InChat(c)), job)
      more == Theirs(fresh) # {} /\ Cardinality(fresh) >= Limit
  IN
  /\ job.at = "read" /\ job.kind = "inbox"
  /\ job.todo # << >>
  /\ Goes(r, [job EXCEPT !.todo = Tail(@), !.until = Max({@} \cup fresh), !.got = @ \cup Theirs(fresh),
                         !.hints = IF more THEN @ \cup Window(c, job.since, job.cut) ELSE @,
                         !.over = IF more THEN @ ELSE @ \cup Unreached(c, job.since, job.cut)])
  /\ UNCHANGED << saved, shown, pointedAt, buried >>

InboxPrints(r) ==
  LET job == errand[r] IN
  /\ job.at = "read" /\ job.kind = "inbox"
  /\ job.todo = << >>
  /\ shown' = shown \cup job.got
  /\ pointedAt' = pointedAt \cup (job.hints \ job.got)
  /\ buried' = buried \cup job.over
  /\ Goes(r, IF job.until = job.since THEN Free ELSE [Free EXCEPT !.at = "save", !.until = job.until])
  /\ UNCHANGED saved

\* The state is read and written in one go.
InboxSaves(r) ==
  /\ errand[r].at = "save"
  /\ saved' = errand[r].until
  /\ Goes(r, Free)
  /\ UNCHANGED << shown, pointedAt, buried >>

\* What lies past the pages a review reads of a chat: MAX counts the message a page starts at among
\* those it answers, so the second page is the last, and the first is when `since` is a message.
Reach(c, since) == IF since \in InChat(c) THEN ReviewPage ELSE 2 * ReviewPage
Beyond(c, since, cut) == Window(c, since, cut) \ OldestIn(Reach(c, since), Window(c, since, cut))

\* inbox.review: one page forward of one chat, the anchor dropped from it.
ReviewReads(r) ==
  LET job == errand[r]
      c == Head(job.todo)
      later == { m \in OldestIn(ReviewPage + 1, { m \in InChat(c) : m >= job.from }) : m > job.from }
      page == OldestIn(ReviewPage, later)
      inWindow == { m \in page : m <= job.cut }
      part == job.part \cup inWindow
      ends == later = page \/ page = {} \/ inWindow # page
      full == ~ ends /\ Cardinality(part) >= PerChat
      next == [job EXCEPT !.todo = Tail(@), !.from = job.since, !.part = {}, !.more = @ \/ full,
                          !.got = @ \cup OldestIn(PerChat, part),
                          !.over = @ \cup Beyond(c, job.since, job.cut)]
  IN
  /\ job.at = "read" /\ job.kind = "review"
  /\ job.todo # << >>
  /\ Goes(r, IF ends \/ full THEN next ELSE [job EXCEPT !.part = part, !.from = Max(page)])
  /\ UNCHANGED << saved, shown, pointedAt, buried >>

Complete(job, heard) == ~ job.more /\ heard

\* The person starts the next review where the note says; `heard`: every voice message has a text.
ReviewPrints(r) ==
  LET job == errand[r] IN
  /\ job.at = "read" /\ job.kind = "review"
  /\ job.todo = << >>
  /\ reviewed' = reviewed \cup job.got
  /\ outrun' = outrun \cup job.over
  /\ \E heard \in BOOLEAN : point' = IF Complete(job, heard) THEN job.cut ELSE job.since
  /\ errand' = [errand EXCEPT ![r] = Free]
  /\ UNCHANGED << log, saved, runs, shown, pointedAt, buried >>

\* A request fails, or the process ends.
Dies(r) ==
  /\ errand[r] # Free
  /\ Goes(r, Free)
  /\ UNCHANGED << saved, shown, pointedAt, buried >>

InboxNext ==
  \/ Arrive
  \/ \E r \in Runners :
       \/ Start(r) \/ LoggedIn(r) \/ ListChats(r) \/ Dies(r)
       \/ InboxReads(r) \/ InboxPrints(r) \/ InboxSaves(r)
       \/ ReviewReads(r) \/ ReviewPrints(r)

InboxSpec == InboxInit /\ [][InboxNext]_inboxVars

----------------------------------------------------------------------------
(* Properties. *)

ErrandType ==
  [ at : {"free", "login", "list", "read", "save"}, kind : {"none", "inbox", "review", "other"},
    state : 0 .. MaxPosts, since : 0 .. MaxPosts, cut : 0 .. MaxPosts, todo : BoundedSeq(Chats, ChatsRead),
    until : 0 .. MaxPosts, from : 0 .. MaxPosts, part : SUBSET (1 .. MaxPosts),
    got : SUBSET (1 .. MaxPosts), hints : SUBSET (1 .. MaxPosts), over : SUBSET (1 .. MaxPosts),
    more : BOOLEAN ]

\* Every variable has its type.
InboxTypeOK ==
  /\ Len(log) <= MaxPosts /\ ToSet(log) \subseteq Chats
  /\ saved \in 0 .. MaxPosts /\ point \in 0 .. MaxPosts
  /\ errand \in [Runners -> ErrandType]
  /\ runs \in 0 .. MaxRuns
  /\ shown \cup pointedAt \cup reviewed \cup buried \cup outrun \subseteq 1 .. MaxPosts

\* `inbox --new` shows each message once, and one of a run that fails again rather than never
\* (src/src/commands/inbox.ts:17): whatever another person wrote up to the saved point was printed,
\* or its chat was named as one to read on.
InboxLosesNothing == Theirs(1 .. saved) \subseteq shown \cup pointedAt

\* A review that called itself complete has missed nothing, so the next may start where it ended.
ReviewMissesNothing == 1 .. point \subseteq reviewed

\* Neither of the points kept on disk passes a message its owner was not shown (the state of the
\* inbox, src/src/commands/inbox.ts, and the `until` of a review), although messages arrive between
\* the reads, a run dies before or after it prints, and another command writes back the state it
\* read earlier -- but for those that a page of newer messages hid from an inbox, or that lie past
\* the two pages a review reads of a chat.
PointsLoseNothing ==
  /\ Theirs(1 .. saved) \subseteq shown \cup pointedAt \cup buried
  /\ 1 .. point \subseteq reviewed \cup outrun
=============================================================================

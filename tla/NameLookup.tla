----------------------------- MODULE NameLookup -----------------------------
(***************************************************************************)
(* The list of chats a command shows page by page, and the name in it that  *)
(* a command takes for a chat (chats.list and chats.resolve of              *)
(* src/src/client.ts, src/src/resolve.ts).                                  *)
(*                                                                          *)
(* A one-to-one chat has no title at MAX: the list fills in its person's    *)
(* name, where MAX said who takes part, and writes it into the store that   *)
(* every login also writes.  ContactStore has what those logins keep of     *)
(* chats and people; here a row is its title, or none, and its time.        *)
(* A command with no local copy, or with `max serve`, is not here.          *)
(***************************************************************************)
EXTENDS Naturals, FiniteSets, FiniteSetsExt

CONSTANTS
  Lookers,     \* processes
  Convs,       \* the chats of the account are 1 .. Convs, and those ids their first order
  GroupConvs,  \* those with a title of their own
  TitleWords,  \* what a command is given for a chat: to each, the chats whose name contains it
  Filters,     \* what lists are asked for: "all", a kind, or one of those words
  PageRows,    \* --limit
  MaxLookups, MaxArrivals   \* bounds

ASSUME LookupAssumption ==
  /\ Convs \in Nat /\ GroupConvs \subseteq 1 .. Convs
  /\ Filters \subseteq {"all", "group", "dialog"} \cup DOMAIN TitleWords
  /\ \A word \in DOMAIN TitleWords : TitleWords[word] \subseteq 1 .. Convs
  /\ PageRows \in Nat \ {0} /\ {MaxLookups, MaxArrivals} \subseteq Nat

VARIABLES
  lastAt,    \* when MAX last had a message in each chat
  listed,    \* the rows
  since,     \* whether a sync marker is kept, and the chats that changed after it
  looker,    \* what each process is doing
  pages,     \* how far the owner has paged
  lookups

lookupVars == << lastAt, listed, since, looker, pages, lookups >>

ConvIds == 1 .. Convs
Words == DOMAIN TitleWords
NoRow == [title |-> FALSE, at |-> 0]
Unasked ==
  [does |-> "rest", for |-> "none", what |-> "all", due |-> {}, full |-> FALSE, with |-> {}, left |-> {},
   got |-> [c \in ConvIds |-> 0], after |-> {}, shown |-> {}, chat |-> 0]
FirstPage ==
  [filter |-> "all", next |-> 1, seen |-> {}, twice |-> FALSE, still |-> FALSE, more |-> FALSE, over |-> FALSE]
ListedOf(rows) == { c \in ConvIds : rows[c].at # 0 }

LookupInit ==
  /\ lastAt = [c \in ConvIds |-> c]
  /\ listed = [c \in ConvIds |-> NoRow]
  /\ since = [marker |-> FALSE, changed |-> ConvIds]
  /\ looker = [p \in Lookers |-> Unasked]
  /\ pages = FirstPage
  /\ lookups = 0

----------------------------------------------------------------------------
\* A row that is written may move the pages behind it.
Lists(rows) ==
  /\ listed' = rows
  /\ pages' = [pages EXCEPT !.still = @ /\ rows = listed]

MessageArrives(c) ==
  LET clock == Max({ lastAt[d] : d \in ConvIds }) IN
  /\ clock < Convs + MaxArrivals
  /\ lastAt' = [lastAt EXCEPT ![c] = clock + 1]
  /\ since' = [since EXCEPT !.changed = @ \cup {c}]
  /\ looker' = [p \in Lookers |->
       [looker[p] EXCEPT !.due = IF looker[p].does = "asks" THEN @ \cup {c} ELSE @,
                         !.after = IF looker[p].does = "merges" THEN @ \cup {c} ELSE @]]
  /\ UNCHANGED << listed, pages, lookups >>

StartsLookup(p, does, for, what) ==
  /\ looker[p].does = "rest" /\ lookups < MaxLookups
  /\ lookups' = lookups + 1
  /\ looker' = [looker EXCEPT ![p] = [Unasked EXCEPT !.does = does, !.for = for, !.what = what,
                                                  !.due = IF does = "asks" THEN since.changed ELSE {},
                                                  !.full = (does = "asks" /\ ~ since.marker)]]

\* The marker is read with the login.  Any other command that has the store logs in as these do.
AsksOther(p) ==
  /\ StartsLookup(p, "asks", "other", "all")
  /\ UNCHANGED << lastAt, listed, since, pages >>

AsksName(p, word) ==
  /\ StartsLookup(p, "asks", "name", word)
  /\ UNCHANGED << lastAt, listed, since, pages >>

\* `max chats list`, the first page or the one it was told of; `--offline` reads what is held, if
\* anything is.
AsksPage(p, filter, offline) ==
  /\ offline => ListedOf(listed) # {}
  /\ StartsLookup(p, IF offline THEN "reads" ELSE "asks", "page", filter)
  /\ \A q \in Lookers : looker[q].for # "page"
  /\ \/ pages' = [FirstPage EXCEPT !.filter = filter]
     \/ pages.more /\ pages.filter = filter /\ UNCHANGED pages
  /\ UNCHANGED << lastAt, listed, since >>

\* What changed since the marker, or everything; a delta may leave the participants out.
LoginAnswers(p) ==
  LET due == looker[p].due IN
  \E with \in {due, {}} :
    /\ looker[p].does = "asks"
    /\ looker[p].full => with = due
    /\ looker' = [looker EXCEPT ![p].does = "merges", ![p].with = with,
                                ![p].got = [c \in ConvIds |-> IF c \in due THEN lastAt[c] ELSE 0]]
    /\ UNCHANGED << lastAt, listed, since, pages, lookups >>

\* mergeDelta: the rows as MAX gave them, and the marker; a store that fails keeps neither.  Then
\* who takes part in those chats is asked (#peopleFor).
MergesLogin(p) ==
  LET got == looker[p].got
      rows == [c \in ConvIds |-> IF got[c] # 0 THEN [title |-> c \in GroupConvs, at |-> got[c]] ELSE listed[c]]
      left == { c \in ConvIds : got[c] # 0 }
  IN
  /\ looker[p].does = "merges"
  /\ \/ Lists(rows) /\ since' = [marker |-> TRUE, changed |-> looker[p].after]
     \/ UNCHANGED << listed, pages, since >>
  /\ looker' = [looker EXCEPT ![p] = IF @.for = "other" THEN Unasked
                                     ELSE [@ EXCEPT !.does = IF left = {} THEN "reads" ELSE "writes",
                                                    !.left = left, !.due = {}, !.full = FALSE, !.after = {}]]
  /\ UNCHANGED << lastAt, lookups >>

\* cache.chats.write, row by row in the order of the login, with the titles found.
WritesRow(p) ==
  LET job == looker[p]
      c == CHOOSE d \in job.left : \A e \in job.left : job.got[e] <= job.got[d]
  IN
  /\ job.does = "writes"
  /\ Lists([listed EXCEPT ![c] = [title |-> c \in GroupConvs \cup job.with, at |-> job.got[c]]])
  /\ looker' = [looker EXCEPT ![p].left = @ \ {c}, ![p].does = IF job.left = {c} THEN "reads" ELSE "writes"]
  /\ UNCHANGED << lastAt, since, lookups >>

----------------------------------------------------------------------------
\* chatWhere: the rows of a listing, of one kind or of a name.
Matching(filter) ==
  { c \in ListedOf(listed) :
      CASE filter = "all" -> TRUE
        [] filter = "group" -> c \in GroupConvs
        [] filter = "dialog" -> c \notin GroupConvs
        [] filter \in Words -> listed[c].title /\ c \in TitleWords[filter] }

CountEvery(filter) == Cardinality(ListedOf(listed))    \* a mutant: a count that does not filter
Count(filter) == Cardinality(Matching(filter))

\* ORDER BY last_message_at DESC LIMIT .. OFFSET ..
PageOf(filter, offset) ==
  { c \in Matching(filter) :
      LET before == Cardinality({ d \in Matching(filter) : listed[d].at > listed[c].at })
      IN offset <= before /\ before < offset + PageRows }

Offset == (pages.next - 1) * PageRows

ReadsPage(p) ==
  /\ looker[p].does = "reads" /\ looker[p].for = "page"
  /\ looker' = [looker EXCEPT ![p].does = "counts", ![p].shown = PageOf(looker[p].what, Offset)]
  /\ pages' = [pages EXCEPT !.still = @ \/ pages.next = 1]
  /\ UNCHANGED << lastAt, listed, since, lookups >>

\* hasMore, from a statement of its own.
Counts(p) ==
  LET shown == looker[p].shown
      more == Offset + Cardinality(shown) < Count(looker[p].what)
  IN
  /\ looker[p].does = "counts"
  /\ pages' = [pages EXCEPT !.seen = @ \cup shown, !.twice = @ \/ pages.seen \cap shown # {},
                            !.next = @ + 1, !.more = more, !.over = ~ more]
  /\ looker' = [looker EXCEPT ![p] = Unasked]
  /\ UNCHANGED << lastAt, listed, since, lookups >>

\* pickChat over the whole list: the one chat whose title contains the word, or an error.
PicksChat(p) ==
  LET matches == { c \in ListedOf(listed) : listed[c].title /\ c \in TitleWords[looker[p].what] } IN
  /\ looker[p].does = "reads" /\ looker[p].for = "name"
  /\ looker' = [looker EXCEPT ![p] =
       IF Cardinality(matches) = 1
       THEN [Unasked EXCEPT !.does = "acts", !.for = "name", !.what = looker[p].what, !.chat = CHOOSE c \in matches : TRUE]
       ELSE Unasked]
  /\ UNCHANGED << lastAt, listed, since, pages, lookups >>

\* The command has acted, a request or a write of it fails, or its process ends.
EndsLookup(p) ==
  /\ looker[p].does # "rest"
  /\ looker' = [looker EXCEPT ![p] = Unasked]
  /\ UNCHANGED << lastAt, listed, since, pages, lookups >>

\* `max cache clear`; ContactStore has its steps.
ClearsList ==
  /\ since.marker /\ lookups < MaxLookups
  /\ lookups' = lookups + 1
  /\ Lists([c \in ConvIds |-> NoRow])
  /\ since' = [marker |-> FALSE, changed |-> ConvIds]
  /\ UNCHANGED << lastAt, looker >>

LookupNext ==
  \/ ClearsList
  \/ \E c \in ConvIds : MessageArrives(c)
  \/ \E p \in Lookers :
       \/ AsksOther(p) \/ LoginAnswers(p) \/ MergesLogin(p) \/ WritesRow(p)
       \/ ReadsPage(p) \/ Counts(p) \/ PicksChat(p) \/ EndsLookup(p)
       \/ \E word \in Words : AsksName(p, word)
       \/ \E filter \in Filters, offline \in BOOLEAN : AsksPage(p, filter, offline)

LookupSpec == LookupInit /\ [][LookupNext]_lookupVars

----------------------------------------------------------------------------
LookupTypeOK ==
  /\ lastAt \in [ConvIds -> 1 .. Convs + MaxArrivals]
  /\ listed \in [ConvIds -> [title : BOOLEAN, at : 0 .. Convs + MaxArrivals]]
  /\ since \in [marker : BOOLEAN, changed : SUBSET ConvIds]
  /\ looker \in [Lookers ->
       [does : {"rest", "asks", "merges", "writes", "reads", "counts", "acts"}, for : {"none", "other", "page", "name"},
        what : {"all"} \cup Filters \cup Words, due : SUBSET ConvIds, full : BOOLEAN, got : [ConvIds -> 0 .. Convs + MaxArrivals],
        with : SUBSET ConvIds, left : SUBSET ConvIds, after : SUBSET ConvIds, shown : SUBSET ConvIds, chat : 0 .. Convs]]
  /\ pages \in
       [filter : {"all"} \cup Filters, next : 1 .. MaxLookups + 1, seen : SUBSET ConvIds,
        twice : BOOLEAN, still : BOOLEAN, more : BOOLEAN, over : BOOLEAN]
  /\ lookups \in 0 .. MaxLookups

(***************************************************************************)
(* Page after page, each a command with a login, a merge and rows of its    *)
(* own, an owner is shown every chat that the filter takes, once; a page is *)
(* promised when there is one, and the last is told to be the last: as long *)
(* as no row changed since the first, the one case src/src/commands/        *)
(* paging.ts:23 grants.                                                     *)
(***************************************************************************)
PagesAreTheList ==
  pages.still /\ (\A p \in Lookers : looker[p].for # "page") =>
    LET all == Matching(pages.filter) IN
    /\ ~ pages.twice
    /\ pages.over => pages.seen = all
    /\ pages.more => pages.seen \subseteq all /\ pages.seen # all

(***************************************************************************)
(* "a group named "Мама" must not quietly take a send meant for "Мама       *)
(* Иванова"" (src/src/resolve.ts:10): a name taken for a chat is in the     *)
(* name of no other chat of the account.                                    *)
(***************************************************************************)
NoQuietGuess ==
  \A p \in Lookers : looker[p].does = "acts" => TitleWords[looker[p].what] = {looker[p].chat}
=============================================================================

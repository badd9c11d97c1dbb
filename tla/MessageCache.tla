---------------------------- MODULE MessageCache ----------------------------
(***************************************************************************)
(* One chat of the local copy: the messages and the stretches held          *)
(* (src/src/cache/store.ts), the readers and backups that fill it and the   *)
(* deletions that empty it (src/src/client.ts), and what an export of it    *)
(* says it lacks (src/src/export.ts).                                       *)
(*                                                                          *)
(* Messages are numbered as they were posted; two may share a millisecond.  *)
(* A process writes a page row by row, then its stretch, then the mark that *)
(* it was fetched: every statement is a transaction of its own, and others  *)
(* come in between.  This machine's clock agrees with MAX's and is a        *)
(* millisecond past the newest message.                                     *)
(***************************************************************************)
EXTENDS Integers, FiniteSets, FiniteSetsExt

CONSTANTS
  Readers,    \* processes that read the chat
  TimeOf,     \* the times of the messages, in the order they are posted
  Before,     \* how many of them the chat has at first
  Page,       \* BACKUP_PAGE, and the limit of the other reads
  MaxPages,   \* maxPages of a backup
  Touched,    \* those that are edited or deleted
  MaxVersion, MaxChanges, MaxReads   \* bounds; a clear counts as a read

Messages == DOMAIN TimeOf

ASSUME CacheAssumption ==
  /\ Messages # {} /\ IsFiniteSet(Messages)
  /\ Messages = 1 .. Cardinality(Messages)
  /\ TimeOf \in [Messages -> Nat \ {0}]
  /\ \A m, n \in Messages : m <= n => TimeOf[m] <= TimeOf[n]
  /\ Before \in 0 .. Cardinality(Messages)
  /\ {Page, MaxPages} \subseteq Nat \ {0}
  /\ {MaxVersion, MaxChanges, MaxReads} \subseteq Nat

VARIABLES
  posted,     \* how many messages MAX has
  version,    \* update_time of each, 0 before its first edit
  gone,       \* messages deleted in MAX
  rows,       \* the version held of each, or Absent
  ranges,     \* to_time by from_time, or Absent
  fetched,    \* whether the table fetched has the chat
  clearing,   \* what `max cache clear` has emptied so far: "none", "rows" or "ranges"
  job,        \* what each reader is doing
  told,       \* what its last backup answered
  reads,
  torn        \* whether a clear has met a reader, or was cut short

cacheVars == << posted, version, gone, rows, ranges, fetched, clearing, job, told, reads, torn >>

Absent == -1
Newest(n, S) == { m \in S : Cardinality({ k \in S : k > m }) < n }
Oldest(n, S) == { m \in S : Cardinality({ k \in S : k < m }) < n }
Now == IF posted = 0 THEN 1 ELSE TimeOf[posted] + 1
Clock == 0 .. TimeOf[Cardinality(Messages)] + 1
Live == (1 .. posted) \ gone
Held == { m \in Messages : rows[m] # Absent }
NoPage == [m \in Messages |-> Absent]
Ids(page) == { m \in Messages : page[m] # Absent }

Idle ==
  [ at |-> "idle", from |-> 0, back |-> 0, forth |-> 0, page |-> NoPage, left |-> {},
    backup |-> FALSE, cursor |-> 0, pages |-> 0, since |-> Absent, last |-> 0, base |-> 0 ]

Untold == [complete |-> FALSE, start |-> FALSE, since |-> Absent, last |-> 0, base |-> 0]

CacheInit ==
  /\ posted = Before
  /\ version = [m \in Messages |-> 0]
  /\ gone = {}
  /\ rows = [m \in Messages |-> Absent]
  /\ ranges = [f \in Clock |-> Absent]
  /\ fetched = FALSE
  /\ clearing = "none"
  /\ job = [p \in Readers |-> Idle]
  /\ told = [p \in Readers |-> Untold]
  /\ reads = 0 /\ torn = FALSE

----------------------------------------------------------------------------
(* MAX, and what the commands that change a message do to the copy. *)

Post ==
  /\ posted < Cardinality(Messages)
  /\ posted' = posted + 1
  /\ UNCHANGED << version, gone, rows, ranges, fetched, clearing, job, told, reads, torn >>

Changes == Cardinality(gone) + Cardinality({ m \in Messages : version[m] > 0 })

Edit(m) ==
  /\ m \in Live \cap Touched
  /\ Changes < MaxChanges
  /\ version[m] < MaxVersion
  /\ version' = [version EXCEPT ![m] = @ + 1]
  /\ UNCHANGED << posted, gone, rows, ranges, fetched, clearing, job, told, reads, torn >>

Delete(m) ==
  /\ m \in Live \cap Touched
  /\ Changes < MaxChanges
  /\ gone' = gone \cup {m}
  /\ UNCHANGED << posted, version, rows, ranges, fetched, clearing, job, told, reads, torn >>

\* After a send or an edit of this profile, and when a newer max rebuilds the file around the
\* messages and ranges it keeps: no collection counts as read.
Invalidate ==
  /\ fetched
  /\ fetched' = FALSE
  /\ UNCHANGED << posted, version, gone, rows, ranges, clearing, job, told, reads, torn >>

\* The answer to a deletion of this profile.
Forget(m) ==
  /\ m \in gone
  /\ rows[m] # Absent
  /\ rows' = [rows EXCEPT ![m] = Absent]
  /\ fetched' = FALSE
  /\ UNCHANGED << posted, version, gone, ranges, clearing, job, told, reads, torn >>

----------------------------------------------------------------------------
(* Reading. *)

Starts(p, j) ==
  /\ job[p] = Idle
  /\ reads < MaxReads
  /\ reads' = reads + 1
  /\ job' = [job EXCEPT ![p] = j]
  /\ torn' = (torn \/ clearing = "rows")
  /\ UNCHANGED << posted, version, gone, rows, ranges, fetched, clearing, told >>

Asking(from, back, forth) ==
  [Idle EXCEPT !.at = "asked", !.from = from, !.back = back, !.forth = forth]

\* messages.list without a moment, `before` and `after` one, and messages.around.
List(p) == Starts(p, Asking(Now, Page, 0))
ListBefore(p) == \E m \in 1 .. posted : Starts(p, Asking(TimeOf[m], Page, 0))
ListAfter(p) == \E m \in 1 .. posted : Starts(p, Asking(TimeOf[m], 0, Page + 1))
Around(p) == \E m \in 1 .. posted : Starts(p, Asking(TimeOf[m], Page, Page))

\* With `backward` above zero, `forward` starts behind the moment; with zero it starts at it.
WindowOf(j) ==
  Newest(j.back, { m \in Live : TimeOf[m] <= j.from })
    \cup Oldest(j.forth, { m \in Live : IF j.back = 0 THEN TimeOf[m] >= j.from ELSE TimeOf[m] > j.from })

\* The senders are looked up before the first row is written.
Answer(p) ==
  LET ids == WindowOf(job[p]) IN
  /\ job[p].at = "asked"
  /\ job' = [job EXCEPT ![p].at = "rows",
                        ![p].page = [m \in Messages |-> IF m \in ids THEN version[m] ELSE Absent],
                        ![p].left = ids, ![p].from = 0, ![p].back = 0, ![p].forth = 0]
  /\ UNCHANGED << posted, version, gone, rows, ranges, fetched, clearing, told, reads, torn >>

\* Mutant of Upsert: whoever writes last is kept.
UpsertLast(held, new) == new

\* putMessage compares MAX's clock, never ours.
Upsert(held, new) == IF new >= held THEN new ELSE held

WriteRow(p) ==
  LET m == Min(job[p].left) IN
  /\ job[p].at = "rows"
  /\ job[p].left # {}
  /\ rows' = [rows EXCEPT ![m] = Upsert(@, job[p].page[m])]
  /\ job' = [job EXCEPT ![p].left = @ \ {m}]
  /\ UNCHANGED << posted, version, gone, ranges, fetched, clearing, told, reads, torn >>

Extend(from, to) ==
  ranges' = [ranges EXCEPT ![from] = IF to > @ THEN to ELSE @]

\* Mutant of WriteRange: a stretch is noted before its rows.
WriteRangeFirst(p) ==
  LET page == Ids(job[p].page) IN
  /\ job[p].at = "rows"
  /\ page # {}
  /\ Extend(TimeOf[Min(page)], TimeOf[Max(page)])
  /\ job' = [job EXCEPT ![p].at = IF job[p].left = {} THEN "range" ELSE "rows"]
  /\ UNCHANGED << posted, version, gone, rows, fetched, clearing, told, reads, torn >>

WriteRange(p) ==
  LET page == Ids(job[p].page) IN
  /\ job[p].at = "rows"
  /\ job[p].left = {}
  /\ page # {}
  /\ Extend(TimeOf[Min(page)], TimeOf[Max(page)])
  /\ job' = [job EXCEPT ![p].at = "range"]
  /\ UNCHANGED << posted, version, gone, rows, fetched, clearing, told, reads, torn >>

\* The page is written, or was empty.
Written(j) ==
  \/ j.at = "range"
  \/ j.at = "rows" /\ Ids(j.page) = {}

ReadEnds(p) ==
  /\ Written(job[p])
  /\ ~ job[p].backup
  /\ fetched' = (fetched \/ job[p].at = "range")
  /\ job' = [job EXCEPT ![p] = Idle]
  /\ UNCHANGED << posted, version, gone, rows, ranges, clearing, told, reads, torn >>

----------------------------------------------------------------------------
(* messages.backup. *)

Joined(to, from) == from <= to

\* heldWindows: the stretches held, those that share a point as one.
Windows ==
  LET held == { f \in Clock : ranges[f] # Absent }
      starts == { f \in held : \A g \in held : g < f => ~ Joined(ranges[g], f) }
      upTo(f) == { g \in held : g >= f /\ ~ \E s \in starts : f < s /\ s <= g }
  IN  { [from |-> f, to |-> Max({ ranges[g] : g \in upTo(f) })] : f \in starts }

Sinces == {Absent} \cup { TimeOf[m] : m \in Messages }

Backup(p) ==
  \E since \in Sinces, last \in 0 .. 2 :
    /\ (since = Absent) = (last > 0)
    /\ Starts(p, [Idle EXCEPT !.at = "turn", !.backup = TRUE, !.cursor = Now,
                              !.since = since, !.last = last, !.base = posted])

BackupEnds(p, complete, start) ==
  /\ told' = [told EXCEPT ![p] = [complete |-> complete, start |-> start,
                                  since |-> job[p].since, last |-> job[p].last, base |-> job[p].base]]
  /\ job' = [job EXCEPT ![p] = Idle]

Enough(j, cursor) ==
  \/ j.since # Absent /\ cursor <= j.since
  \/ j.last > 0 /\ Cardinality({ m \in Held : TimeOf[m] >= cursor }) >= j.last

\* One turn of the loop, to its request: a window held is stepped over.
BackupTurn(p) ==
  LET j == job[p]
      around == { w.from : w \in { w \in Windows : w.from <= j.cursor /\ j.cursor <= w.to } }
      cursor == Min(around \cup {j.cursor})
  IN
  /\ j.at = "turn"
  /\ \/ 0 \in around /\ BackupEnds(p, TRUE, TRUE)
     \/ 0 \notin around /\ Enough(j, cursor) /\ BackupEnds(p, TRUE, FALSE)
     \/ /\ 0 \notin around /\ ~ Enough(j, cursor)
        /\ j.pages >= MaxPages
        /\ BackupEnds(p, FALSE, FALSE)
     \/ /\ 0 \notin around /\ ~ Enough(j, cursor)
        /\ j.pages < MaxPages
        /\ job' = [job EXCEPT ![p].at = "asked", ![p].from = cursor, ![p].back = Page, ![p].cursor = cursor]
        /\ UNCHANGED told
  /\ UNCHANGED << posted, version, gone, rows, ranges, fetched, clearing, reads, torn >>

\* A short page is the chat's start, unless it is the first and empty; a page that brings
\* nothing older is an error.
PageEnds(p) ==
  LET j == job[p]
      page == Ids(j.page)
      oldest == IF page = {} THEN j.cursor ELSE TimeOf[Min(page)]
      short == Cardinality(page) < Page
      reachedStart == page # {} \/ j.pages > 0
  IN
  /\ Written(j)
  /\ j.backup
  /\ fetched' = (fetched \/ j.at = "range")
  /\ \/ /\ short /\ reachedStart
        /\ job' = [job EXCEPT ![p].at = "start", ![p].cursor = oldest]
        /\ UNCHANGED told
     \/ short /\ ~ reachedStart /\ BackupEnds(p, TRUE, TRUE)
     \/ ~ short /\ oldest >= j.cursor /\ job' = [job EXCEPT ![p] = Idle] /\ UNCHANGED told
     \/ /\ ~ short /\ oldest < j.cursor
        /\ job' = [job EXCEPT ![p].at = "turn", ![p].cursor = oldest, ![p].pages = @ + 1, ![p].page = NoPage]
        /\ UNCHANGED told
  /\ UNCHANGED << posted, version, gone, rows, ranges, clearing, reads, torn >>

ReachedStart(p) ==
  /\ job[p].at = "start"
  /\ Extend(0, job[p].cursor)
  /\ BackupEnds(p, TRUE, TRUE)
  /\ UNCHANGED << posted, version, gone, rows, fetched, clearing, reads, torn >>

\* The request is refused, lost, or the process dies: what was written stays.
Stops(p) ==
  /\ job[p] # Idle
  /\ job' = [job EXCEPT ![p] = Idle]
  /\ UNCHANGED << posted, version, gone, rows, ranges, fetched, clearing, told, reads, torn >>

----------------------------------------------------------------------------
(* `max cache clear`: one table after another. *)

ClearRows ==
  /\ clearing = "none"
  /\ reads < MaxReads
  /\ reads' = reads + 1
  /\ rows' = [m \in Messages |-> Absent]
  /\ clearing' = "rows"
  /\ told' = [p \in Readers |-> Untold]
  /\ torn' = (torn \/ \E p \in Readers : job[p] # Idle)
  /\ UNCHANGED << posted, version, gone, ranges, fetched, job >>

ClearRanges ==
  /\ clearing = "rows"
  /\ ranges' = [f \in Clock |-> Absent]
  /\ clearing' = "ranges"
  /\ UNCHANGED << posted, version, gone, rows, fetched, job, told, reads, torn >>

ClearFetched ==
  /\ clearing = "ranges"
  /\ fetched' = FALSE
  /\ clearing' = "none"
  /\ UNCHANGED << posted, version, gone, rows, ranges, job, told, reads, torn >>

ClearDies ==
  /\ clearing # "none"
  /\ torn' = (torn \/ clearing = "rows")
  /\ clearing' = "none"
  /\ UNCHANGED << posted, version, gone, rows, ranges, fetched, job, told, reads >>

----------------------------------------------------------------------------
ReaderStep(p) ==
  \/ List(p) \/ ListBefore(p) \/ ListAfter(p) \/ Around(p) \/ Backup(p)
  \/ Answer(p) \/ WriteRow(p) \/ WriteRange(p) \/ ReadEnds(p)
  \/ BackupTurn(p) \/ PageEnds(p) \/ ReachedStart(p) \/ Stops(p)

CacheNext ==
  \/ Post \/ Invalidate
  \/ \E m \in Messages : Edit(m) \/ Delete(m) \/ Forget(m)
  \/ \E p \in Readers : ReaderStep(p)
  \/ ClearRows \/ ClearRanges \/ ClearFetched \/ ClearDies

CacheSpec == CacheInit /\ [][CacheNext]_cacheVars

----------------------------------------------------------------------------
(* Properties. *)

JobType ==
  [ at : {"idle", "asked", "rows", "range", "turn", "start"}, from : Clock, back : 0 .. Page, forth : 0 .. Page + 1,
    page : [Messages -> Absent .. MaxVersion], left : SUBSET Messages,
    backup : BOOLEAN, cursor : Clock, pages : 0 .. MaxPages,
    since : Clock \cup {Absent}, last : Nat, base : 0 .. Cardinality(Messages) ]

\* Every variable has its type.
CacheTypeOK ==
  /\ posted \in 0 .. Cardinality(Messages)
  /\ version \in [Messages -> 0 .. MaxVersion]
  /\ gone \subseteq 1 .. posted
  /\ rows \in [Messages -> Absent .. MaxVersion]
  /\ ranges \in [Clock -> Clock \cup {Absent}]
  /\ fetched \in BOOLEAN /\ torn \in BOOLEAN
  /\ clearing \in {"none", "rows", "ranges"}
  /\ job \in [Readers -> JobType]
  /\ told \in [Readers -> [complete : BOOLEAN, start : BOOLEAN, since : Clock \cup {Absent},
                           last : Nat, base : 0 .. Cardinality(Messages)]]
  /\ reads \in 0 .. MaxReads

Whole == ~ torn /\ clearing # "rows"

\* An edit is never undone in the copy by a slower answer that has not seen it.
EditsStay ==
  [][\A m \in Messages :
       rows[m] # Absent /\ rows'[m] # Absent => rows[m] <= rows'[m]]_cacheVars

NotFirst(m) == \E k \in Messages : k < m /\ TimeOf[k] = TimeOf[m]
NotLast(m) == \E k \in Messages : m < k /\ TimeOf[k] = TimeOf[m]

\* A backup that answered "complete" has brought everything it was asked for: every message MAX
\* had when it began, back to the chat's start, to `since`, or to the last so many.  But one
\* between two others of its millisecond may be missing: a stretch that ends there and one that
\* begins there are taken for one.
BackupTellsTruth ==
  ~ torn =>
    \A p \in Readers : told[p].complete =>
      \A m \in (1 .. told[p].base) \ gone :
        \/ m \in Held
        \/ NotFirst(m) /\ NotLast(m)
        \/ /\ ~ told[p].start
           /\ \/ told[p].since # Absent /\ TimeOf[m] <= told[p].since
              \/ told[p].last > 0 /\ Cardinality({ k \in Held \cup gone : k > m }) >= told[p].last

\* unreadStretches, with `last` the newest message there is.
Unread(since) ==
  LET windows == { w \in Windows : w.to >= since }
      last == TimeOf[posted]
      ends == {since} \cup { w.to : w \in windows }
      before(to) == Max({ end \in ends : end < to })
      gaps == { [from |-> before(to), to |-> to] : to \in { w.from : w \in windows } \cap { to \in Clock : to > since } }
      tail == IF last > Max(ends) THEN { [from |-> Max(ends), to |-> last] } ELSE {}
  IN  IF windows = {} THEN {} ELSE gaps \cup tail

\* A stretch the store calls read completely misses no message inside it: what is absent there was
\* deleted ("absent means deleted", schema.ts), although other processes edit, delete, forget and
\* read meanwhile, and any of them dies between two statements.  Messages that share the
\* millisecond of an end may have been cut off with the page.
RowsAreWhole ==
  Whole =>
    \A f \in Clock, m \in Live :
      ranges[f] # Absent /\ f < TimeOf[m] /\ TimeOf[m] < ranges[f] => m \in Held

\* An export of what is held says of every message it lacks that its stretch was never read,
\* wherever some stretch reaches into what was asked for; but for one whose
\* millisecond has another message that was read.
GapsAreTold ==
  Whole =>
    \A since \in Clock :
      (\E f \in Clock : ranges[f] >= since) =>
      \A m \in Live \ Held :
        TimeOf[m] >= since /\ (\A k \in Held \cup gone : TimeOf[k] # TimeOf[m]) =>
          \E gap \in Unread(since) : gap.from <= TimeOf[m] /\ TimeOf[m] <= gap.to

\* What the copy claims is so, both ways and of a backup: what the ranges call read is whole, what
\* they leave out is told (readRanges of the store, unreadStretches of src/src/export.ts:18), and
\* a backup that was complete is.
CopyTellsTruth == RowsAreWhole /\ GapsAreTold /\ BackupTellsTruth
=============================================================================

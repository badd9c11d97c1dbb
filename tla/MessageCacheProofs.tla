------------------------- MODULE MessageCacheProofs -------------------------
(***************************************************************************)
(* What the local copy of a chat claims is so, for any number of readers,   *)
(* messages, pages and edits: what its stretches call read is whole, what   *)
(* they leave out is told, and a backup that was complete is.  And the list *)
(* of chats a command shows page by page is the list (NameLookup).          *)
(***************************************************************************)
EXTENDS MessageCache, NameLookup, FiniteSetTheorems, WellFoundedInduction, TLAPS

\* A set of natural numbers has a least element, and that is Min; with a bound it has a greatest.
LEMMA LeastOf ==
  ASSUME NEW S, S \subseteq Nat, S # {}
  PROVE  Min(S) \in S /\ \A x \in S : Min(S) <= x
  <1>1. IsWellFoundedOn(OpToRel(<, Nat), Nat)
    BY NatLessThanWellFounded
  <1>2. PICK n \in S : \A m \in S : << m, n >> \notin OpToRel(<, Nat)
    BY <1>1, WFMin
  <1>3. \A m \in S : ~(m < n)
    BY <1>2 DEF OpToRel
  <1>4. \A m \in S : n <= m
    BY <1>3
  <1> QED
    BY <1>4 DEF Min

LEMMA GreatestOf ==
  ASSUME NEW S, S \subseteq Nat, S # {}, NEW b \in Nat, \A x \in S : x <= b
  PROVE  Max(S) \in S /\ \A x \in S : x <= Max(S)
  <1> DEFINE D == { b - x : x \in S }
  <1>1. D \subseteq Nat /\ D # {}
    <2>1. ASSUME NEW x \in S PROVE b - x \in Nat
      OBVIOUS
    <2>2. PICK x \in S : b - x \in D
      OBVIOUS
    <2> QED
      BY <2>1, <2>2
  <1>2. Min(D) \in D /\ \A e \in D : Min(D) <= e
    BY <1>1, LeastOf
  <1>3. PICK k \in S : Min(D) = b - k
    BY <1>2
  <1>4. \A x \in S : k >= x
    <2> TAKE x \in S
    <2>1. b - x \in D
      OBVIOUS
    <2>2. Min(D) <= b - x
      BY <1>2, <2>1
    <2> HIDE DEF D
    <2> QED
      BY <1>3, <2>2
  <1> HIDE DEF D
  <1> QED
    BY <1>4 DEF Max

-----------------------------------------------------------------------------
(* Types. *)

Size == Cardinality(Messages)

\* The messages, their times and the clock.
LEMMA CacheConstants ==
  /\ IsFiniteSet(Messages) /\ Size \in Nat \ {0} /\ Messages = 1 .. Size
  /\ \A m \in Messages : m \in Nat /\ TimeOf[m] \in Nat \ {0} /\ TimeOf[m] \in Clock /\ TimeOf[m] + 1 \in Clock
  /\ Clock \subseteq Nat /\ 0 \in Clock /\ 1 \in Clock
  /\ \A m, n \in Messages : m <= n => TimeOf[m] <= TimeOf[n]
  /\ Page \in Nat \ {0} /\ MaxPages \in Nat \ {0}
  /\ MaxVersion \in Nat /\ MaxChanges \in Nat /\ MaxReads \in Nat
  /\ Before \in 0 .. Size
  <1>1. IsFiniteSet(Messages) /\ Messages # {} /\ Messages = 1 .. Size
    BY CacheAssumption DEF Size
  <1>2. Size \in Nat
    BY <1>1, FS_CardinalityType DEF Size
  <1>3. Size \in Nat \ {0}
    BY <1>1, <1>2
  <1>4. Size \in Messages /\ \A m \in Messages : m \in Nat /\ m <= Size
    BY <1>1, <1>3
  <1>5. /\ \A m \in Messages : TimeOf[m] \in Nat \ {0}
        /\ \A m, n \in Messages : m <= n => TimeOf[m] <= TimeOf[n]
    BY CacheAssumption
  <1>6. Clock = 0 .. TimeOf[Size] + 1
    BY DEF Clock, Size
  <1>7. \A m \in Messages : TimeOf[m] <= TimeOf[Size]
    BY <1>4, <1>5
  <1>8. \A m \in Messages : TimeOf[m] \in Clock /\ TimeOf[m] + 1 \in Clock
    BY <1>4, <1>5, <1>6, <1>7
  <1>9. Clock \subseteq Nat /\ 0 \in Clock /\ 1 \in Clock
    BY <1>4, <1>5, <1>6
  <1>10. /\ Page \in Nat \ {0} /\ MaxPages \in Nat \ {0}
         /\ MaxVersion \in Nat /\ MaxChanges \in Nat /\ MaxReads \in Nat
         /\ Before \in 0 .. Size
    BY CacheAssumption DEF Size
  <1> QED
    BY <1>1, <1>3, <1>4, <1>5, <1>8, <1>9, <1>10

LEMMA NowIsTime == ASSUME posted \in 0 .. Size PROVE Now \in Clock
  <1>1. CASE posted = 0
    BY <1>1, CacheConstants DEF Now
  <1>2. CASE posted # 0
    <2>1. posted \in Messages
      BY <1>2, CacheConstants
    <2> QED
      BY <1>2, <2>1, CacheConstants DEF Now
  <1> QED
    BY <1>1, <1>2

PageContents == [Messages -> Absent .. MaxVersion]

LEMMA IdsTyped ==
  ASSUME NEW page \in PageContents, Ids(page) # {}
  PROVE  /\ Ids(page) \subseteq Messages
         /\ Min(Ids(page)) \in Ids(page) /\ \A m \in Ids(page) : Min(Ids(page)) <= m
         /\ Max(Ids(page)) \in Ids(page) /\ \A m \in Ids(page) : m <= Max(Ids(page))
         /\ TimeOf[Min(Ids(page))] \in Clock /\ TimeOf[Max(Ids(page))] \in Clock
  <1>1. Ids(page) \subseteq Messages
    BY DEF Ids
  <1>2. Ids(page) \subseteq Nat /\ Size \in Nat /\ \A m \in Ids(page) : m <= Size
    BY <1>1, CacheConstants
  <1>3. Min(Ids(page)) \in Ids(page) /\ \A m \in Ids(page) : Min(Ids(page)) <= m
    BY <1>2, LeastOf
  <1>4. Max(Ids(page)) \in Ids(page) /\ \A m \in Ids(page) : m <= Max(Ids(page))
    BY <1>2, GreatestOf
  <1> QED
    BY <1>1, <1>3, <1>4, CacheConstants

LEMMA IdleTyped == Idle \in JobType /\ Untold.since = Absent /\ ~ Untold.complete
  <1>1. /\ 0 \in Clock /\ 0 \in 0 .. Page /\ 0 \in 0 .. Page + 1 /\ 0 \in 0 .. MaxPages /\ 0 \in 0 .. Size
        /\ NoPage \in PageContents
    BY CacheConstants DEF NoPage, PageContents, Absent
  <1> QED
    BY <1>1 DEF Idle, JobType, Untold, PageContents, Size

\* What a reader's job becomes.
LEMMA JobForms ==
  ASSUME NEW j \in JobType, NEW c \in Clock
  PROVE  /\ \A back \in 0 .. Page, forth \in 0 .. Page + 1 : Asking(c, back, forth) \in JobType
         /\ \A earliest \in Clock \cup {Absent}, last \in Nat, base \in 0 .. Size :
              [Idle EXCEPT !.at = "turn", !.backup = TRUE, !.cursor = c,
                           !.since = earliest, !.last = last, !.base = base] \in JobType
         /\ \A page \in PageContents, left \in SUBSET Messages :
              [j EXCEPT !.at = "rows", !.page = page, !.left = left, !.from = 0, !.back = 0, !.forth = 0] \in JobType
         /\ \A left \in SUBSET Messages : [j EXCEPT !.left = left] \in JobType
         /\ [j EXCEPT !.at = "range"] \in JobType
         /\ [j EXCEPT !.at = "asked", !.from = c, !.back = Page, !.cursor = c] \in JobType
         /\ [j EXCEPT !.at = "start", !.cursor = c] \in JobType
         /\ j.pages < MaxPages =>
              [j EXCEPT !.at = "turn", !.cursor = c, !.pages = @ + 1, !.page = NoPage] \in JobType
  <1>1. /\ 0 \in Clock /\ 0 \in 0 .. Page /\ 0 \in 0 .. Page + 1 /\ Page \in 0 .. Page
        /\ NoPage \in PageContents
    BY CacheConstants DEF NoPage, PageContents, Absent
  <1>2. \A back \in 0 .. Page, forth \in 0 .. Page + 1 : Asking(c, back, forth) \in JobType
    BY IdleTyped DEF Asking, JobType
  <1>3. \A earliest \in Clock \cup {Absent}, last \in Nat, base \in 0 .. Size :
          [Idle EXCEPT !.at = "turn", !.backup = TRUE, !.cursor = c,
                       !.since = earliest, !.last = last, !.base = base] \in JobType
    BY IdleTyped DEF JobType, Size
  <1>4. \A page \in PageContents, left \in SUBSET Messages :
          [j EXCEPT !.at = "rows", !.page = page, !.left = left, !.from = 0, !.back = 0, !.forth = 0] \in JobType
    BY <1>1 DEF JobType, PageContents
  <1>5. \A left \in SUBSET Messages : [j EXCEPT !.left = left] \in JobType
    BY DEF JobType
  <1>6. /\ [j EXCEPT !.at = "range"] \in JobType
        /\ [j EXCEPT !.at = "asked", !.from = c, !.back = Page, !.cursor = c] \in JobType
        /\ [j EXCEPT !.at = "start", !.cursor = c] \in JobType
    BY <1>1 DEF JobType
  <1>7. j.pages < MaxPages =>
          [j EXCEPT !.at = "turn", !.cursor = c, !.pages = @ + 1, !.page = NoPage] \in JobType
    <2> SUFFICES ASSUME j.pages < MaxPages
                 PROVE  [j EXCEPT !.at = "turn", !.cursor = c, !.pages = @ + 1, !.page = NoPage] \in JobType
      OBVIOUS
    <2>1. j.pages + 1 \in 0 .. MaxPages
      BY CacheConstants DEF JobType
    <2> QED
      BY <1>1, <2>1 DEF JobType, PageContents
  <1> QED
    BY <1>2, <1>3, <1>4, <1>5, <1>6, <1>7, Zenon

PagesLeft(j) == j.backup /\ j.at \in {"asked", "rows", "range"} => j.pages < MaxPages

CacheTyped == CacheTypeOK /\ \A p \in Readers : PagesLeft(job[p])

TellType ==
  [ complete : BOOLEAN, start : BOOLEAN, since : Clock \cup {Absent}, last : Nat, base : 0 .. Size ]

LEMMA CacheTypes ==
  ASSUME CacheTypeOK
  PROVE  /\ posted \in 0 .. Size /\ 1 .. posted \subseteq Messages
         /\ version \in [Messages -> 0 .. MaxVersion]
         /\ gone \subseteq 1 .. posted
         /\ rows \in PageContents
         /\ ranges \in [Clock -> Clock \cup {Absent}]
         /\ fetched \in BOOLEAN /\ torn \in BOOLEAN
         /\ clearing \in {"none", "rows", "ranges"}
         /\ job \in [Readers -> JobType]
         /\ told \in [Readers -> TellType]
         /\ reads \in 0 .. MaxReads
  BY CacheConstants DEF CacheTypeOK, Size, PageContents, TellType

LEMMA CacheTyping ==
  ASSUME posted \in 0 .. Size, version \in [Messages -> 0 .. MaxVersion], gone \subseteq 1 .. posted,
         rows \in PageContents, ranges \in [Clock -> Clock \cup {Absent}], fetched \in BOOLEAN, torn \in BOOLEAN,
         clearing \in {"none", "rows", "ranges"}, job \in [Readers -> JobType],
         told \in [Readers -> TellType], reads \in 0 .. MaxReads
  PROVE  CacheTypeOK
  BY DEF CacheTypeOK, Size, PageContents, TellType

LEMMA CacheTypedInit == CacheInit => CacheTyped
  <1> SUFFICES ASSUME CacheInit PROVE CacheTyped
    OBVIOUS
  <1> USE DEF CacheInit
  <1>1. posted \in 0 .. Size /\ version \in [Messages -> 0 .. MaxVersion] /\ gone \subseteq 1 .. posted
    BY CacheConstants
  <1>2. rows \in PageContents
    BY CacheConstants DEF PageContents, Absent
  <1>3. ranges \in [Clock -> Clock \cup {Absent}]
    OBVIOUS
  <1>4. told \in [Readers -> TellType]
    <2>1. Untold \in TellType
      BY CacheConstants DEF Untold, TellType, Absent
    <2> QED
      BY <2>1
  <1>5. job \in [Readers -> JobType]
    BY IdleTyped
  <1>6. reads \in 0 .. MaxReads
    BY CacheConstants
  <1>7. CacheTypeOK
    BY <1>1, <1>2, <1>3, <1>4, <1>5, <1>6, CacheTyping
  <1> QED
    BY <1>7 DEF CacheTyped, PagesLeft, Idle

\* A step of one reader keeps the types if its job and its answer have theirs.
LEMMA ReaderTyped ==
  ASSUME CacheTyped, NEW p \in Readers, NEW j \in JobType, PagesLeft(j),
         job' = [job EXCEPT ![p] = j], told' \in [Readers -> TellType],
         UNCHANGED << posted, version, gone, clearing >>,
         rows' \in PageContents, ranges' \in [Clock -> Clock \cup {Absent}],
         fetched' \in BOOLEAN, torn' \in BOOLEAN, reads' \in 0 .. MaxReads
  PROVE  CacheTyped'
  <1>1. job' \in [Readers -> JobType] /\ \A q \in Readers : job'[q] = IF q = p THEN j ELSE job[q]
    BY CacheTypes DEF CacheTyped
  <1>2. CacheTypeOK'
    <2>1. /\ posted' \in 0 .. Size /\ version' \in [Messages -> 0 .. MaxVersion] /\ gone' \subseteq 1 .. posted'
          /\ clearing' \in {"none", "rows", "ranges"}
      BY CacheTypes DEF CacheTyped
    <2> QED
      BY <1>1, <2>1 DEF CacheTypeOK, Size, PageContents, TellType
  <1>3. \A q \in Readers : PagesLeft(job[q])'
    BY <1>1 DEF CacheTyped, PagesLeft
  <1> QED
    BY <1>2, <1>3 DEF CacheTyped

LEMMA SomeoneReads ==
  ASSUME CacheTyped, NEW p \in Readers
  PROVE  job[p] \in JobType /\ PagesLeft(job[p]) /\ told[p] \in TellType
  BY CacheTypes DEF CacheTyped

LEMMA StartsTyped ==
  ASSUME CacheTyped, NEW p \in Readers, NEW j \in JobType, PagesLeft(j), Starts(p, j)
  PROVE  CacheTyped'
  <1>1. reads' \in 0 .. MaxReads /\ torn' \in BOOLEAN
    BY CacheTypes, CacheConstants DEF Starts, CacheTyped
  <1> QED
    BY <1>1, ReaderTyped, CacheTypes DEF Starts, CacheTyped

LEMMA ReadsStartTyped ==
  ASSUME CacheTyped, NEW p \in Readers, List(p) \/ ListBefore(p) \/ ListAfter(p) \/ Around(p)
  PROVE  CacheTyped'
  <1>1. posted \in 0 .. Size /\ 1 .. posted \subseteq Messages /\ Now \in Clock
    BY CacheTypes, NowIsTime DEF CacheTyped
  <1>2. ASSUME NEW c \in Clock, NEW back \in 0 .. Page, NEW forth \in 0 .. Page + 1, Starts(p, Asking(c, back, forth))
        PROVE  CacheTyped'
    <2>1. Asking(c, back, forth) \in JobType
      BY JobForms, IdleTyped
    <2>2. PagesLeft(Asking(c, back, forth))
      BY DEF PagesLeft, Asking, Idle
    <2> QED
      BY <1>2, <2>1, <2>2, StartsTyped
  <1>3. Page \in 0 .. Page /\ 0 \in 0 .. Page /\ 0 \in 0 .. Page + 1 /\ Page \in 0 .. Page + 1 /\ Page + 1 \in 0 .. Page + 1
    BY CacheConstants
  <1>4. CASE List(p)
    BY <1>1, <1>2, <1>3, <1>4 DEF List
  <1>5. CASE ListBefore(p)
    BY <1>1, <1>2, <1>3, <1>5, CacheConstants DEF ListBefore
  <1>6. CASE ListAfter(p)
    BY <1>1, <1>2, <1>3, <1>6, CacheConstants DEF ListAfter
  <1>7. CASE Around(p)
    BY <1>1, <1>2, <1>3, <1>7, CacheConstants DEF Around
  <1> QED
    BY <1>4, <1>5, <1>6, <1>7

LEMMA BackupTyped == ASSUME CacheTyped, NEW p \in Readers, Backup(p) PROVE CacheTyped'
  <1>1. posted \in 0 .. Size /\ Now \in Clock
    BY CacheTypes, NowIsTime DEF CacheTyped
  <1>2. PICK earliest \in Sinces, last \in 0 .. 2 :
          Starts(p, [Idle EXCEPT !.at = "turn", !.backup = TRUE, !.cursor = Now,
                                 !.since = earliest, !.last = last, !.base = posted])
    BY DEF Backup
  <1>3. earliest \in Clock \cup {Absent} /\ last \in Nat
    BY CacheConstants DEF Sinces
  <1> DEFINE j == [Idle EXCEPT !.at = "turn", !.backup = TRUE, !.cursor = Now,
                               !.since = earliest, !.last = last, !.base = posted]
  <1>4. j \in JobType
    <2>1. \A s \in Clock \cup {Absent}, l \in Nat, b \in 0 .. Size :
            [Idle EXCEPT !.at = "turn", !.backup = TRUE, !.cursor = Now,
                         !.since = s, !.last = l, !.base = b] \in JobType
      BY <1>1, JobForms, IdleTyped
    <2> QED
      BY <1>1, <1>3, <2>1
  <1>5. PagesLeft(j)
    BY DEF PagesLeft, Idle
  <1> QED
    BY <1>2, <1>4, <1>5, StartsTyped

LEMMA AnswerTyped == ASSUME CacheTyped, NEW p \in Readers, Answer(p) PROVE CacheTyped'
  <1> DEFINE ids == WindowOf(job[p])
             page == [m \in Messages |-> IF m \in ids THEN version[m] ELSE Absent]
             j == [job[p] EXCEPT !.at = "rows", !.page = page, !.left = ids, !.from = 0, !.back = 0, !.forth = 0]
  <1>1. job[p] \in JobType /\ PagesLeft(job[p]) /\ job[p].at = "asked" /\ 1 .. posted \subseteq Messages
        /\ version \in [Messages -> 0 .. MaxVersion]
    BY SomeoneReads, CacheTypes DEF Answer, CacheTyped
  <1>2. ids \subseteq Messages
    BY <1>1 DEF WindowOf, Newest, Oldest, Live
  <1>3. page \in PageContents
    BY <1>1, CacheConstants DEF PageContents, Absent
  <1> HIDE DEF ids, page
  <1>4. j \in JobType
    BY <1>1, <1>2, <1>3, JobForms, CacheConstants
  <1>5. PagesLeft(j)
    BY <1>1 DEF PagesLeft, JobType
  <1>6. job' = [job EXCEPT ![p] = j]
    BY DEF Answer, ids, page
  <1> HIDE DEF j
  <1> QED
    BY <1>4, <1>5, <1>6, ReaderTyped, CacheTypes DEF Answer, CacheTyped

LEMMA WriteRowTyped == ASSUME CacheTyped, NEW p \in Readers, WriteRow(p) PROVE CacheTyped'
  <1> DEFINE m == Min(job[p].left)
             j == [job[p] EXCEPT !.left = @ \ {m}]
  <1>1. job[p] \in JobType /\ PagesLeft(job[p]) /\ rows \in PageContents /\ job[p].page \in PageContents /\ job[p].left \subseteq Messages
    BY SomeoneReads, CacheTypes DEF CacheTyped, JobType, PageContents
  <1>2. j \in JobType
    BY <1>1, JobForms, CacheConstants
  <1>3. PagesLeft(j)
    BY <1>1 DEF PagesLeft, JobType
  <1>4. job' = [job EXCEPT ![p] = j]
    BY DEF WriteRow
  <1>5. m \in Messages
    BY <1>1, LeastOf, CacheConstants DEF WriteRow
  <1>6. rows' \in PageContents
    <2>1. Upsert(rows[m], job[p].page[m]) \in Absent .. MaxVersion
      BY <1>1, <1>5 DEF Upsert, PageContents
    <2>2. rows' = [rows EXCEPT ![m] = Upsert(rows[m], job[p].page[m])]
      BY <1>1, <1>5 DEF WriteRow, PageContents
    <2> QED
      BY <1>1, <1>5, <2>1, <2>2 DEF PageContents
  <1> HIDE DEF m, j
  <1> QED
    BY <1>2, <1>3, <1>4, <1>6, ReaderTyped, CacheTypes DEF WriteRow, CacheTyped

LEMMA Extended ==
  ASSUME ranges \in [Clock -> Clock \cup {Absent}], NEW from \in Clock, NEW to \in Clock, Extend(from, to)
  PROVE  /\ ranges' \in [Clock -> Clock \cup {Absent}]
         /\ ranges'[from] = IF to > ranges[from] THEN to ELSE ranges[from]
         /\ \A f \in Clock : f # from => ranges'[f] = ranges[f]
  <1>1. ranges' = [ranges EXCEPT ![from] = IF to > ranges[from] THEN to ELSE ranges[from]]
    BY DEF Extend
  <1> QED
    BY <1>1

LEMMA WriteRangeTyped == ASSUME CacheTyped, NEW p \in Readers, WriteRange(p) PROVE CacheTyped'
  <1> DEFINE page == Ids(job[p].page)
             j == [job[p] EXCEPT !.at = "range"]
  <1>1. job[p] \in JobType /\ PagesLeft(job[p]) /\ job[p].at = "rows" /\ job[p].page \in PageContents /\ page # {}
        /\ Extend(TimeOf[Min(page)], TimeOf[Max(page)]) /\ job' = [job EXCEPT ![p] = j]
    BY SomeoneReads DEF WriteRange, JobType, PageContents
  <1>2. j \in JobType
    BY <1>1, JobForms, CacheConstants
  <1>3. PagesLeft(j)
    BY <1>1 DEF PagesLeft, JobType
  <1>4. ranges' \in [Clock -> Clock \cup {Absent}]
    BY <1>1, IdsTyped, Extended, CacheTypes DEF CacheTyped
  <1> HIDE DEF page, j
  <1> QED
    BY <1>1, <1>2, <1>3, <1>4, ReaderTyped, CacheTypes DEF WriteRange, CacheTyped

\* The ends of a reader's work.
LEMMA IdleAgain ==
  ASSUME CacheTyped, NEW p \in Readers, job' = [job EXCEPT ![p] = Idle],
         UNCHANGED << posted, version, gone, rows, clearing, reads, torn >>,
         ranges' \in [Clock -> Clock \cup {Absent}], fetched' \in BOOLEAN, told' \in [Readers -> TellType]
  PROVE  CacheTyped'
  <1>1. PagesLeft(Idle)
    BY DEF PagesLeft, Idle
  <1> QED
    BY <1>1, IdleTyped, ReaderTyped, CacheTypes DEF CacheTyped

LEMMA BackupTells ==
  ASSUME CacheTyped, NEW p \in Readers, NEW complete \in BOOLEAN, NEW start \in BOOLEAN,
         BackupEnds(p, complete, start)
  PROVE  /\ told' \in [Readers -> TellType] /\ job' = [job EXCEPT ![p] = Idle]
         /\ told' = [told EXCEPT ![p] = [complete |-> complete, start |-> start, since |-> job[p].since,
                                         last |-> job[p].last, base |-> job[p].base]]
  <1> DEFINE t == [complete |-> complete, start |-> start, since |-> job[p].since,
                   last |-> job[p].last, base |-> job[p].base]
  <1>1. t \in TellType
    BY SomeoneReads DEF TellType, JobType, Size
  <1>2. told' = [told EXCEPT ![p] = t] /\ job' = [job EXCEPT ![p] = Idle]
    BY DEF BackupEnds
  <1> QED
    BY <1>1, <1>2, CacheTypes DEF CacheTyped

-----------------------------------------------------------------------------
(* The stretches held, those that share a point taken for one. *)

HeldFroms == { f \in Clock : ranges[f] # Absent }
Firsts == { f \in HeldFroms : \A g \in HeldFroms : g < f => ~ Joined(ranges[g], f) }
UpTo(f) == { g \in HeldFroms : g >= f /\ ~ \E s \in Firsts : f < s /\ s <= g }

LEMMA WindowsAre ==
  Windows = { [from |-> f, to |-> Max({ ranges[g] : g \in UpTo(f) })] : f \in Firsts }
  BY Zenon DEF Windows, HeldFroms, Firsts, UpTo

LEMMA AWindow ==
  ASSUME NEW w \in Windows
  PROVE  /\ w.from \in Firsts /\ w.from \in Clock
         /\ w.to = Max({ ranges[g] : g \in UpTo(w.from) })
  <1>1. PICK f \in Firsts : w = [from |-> f, to |-> Max({ ranges[g] : g \in UpTo(f) })]
    BY WindowsAre
  <1> QED
    BY <1>1 DEF Firsts, HeldFroms

LEMMA StretchTimes ==
  ASSUME ranges \in [Clock -> Clock \cup {Absent}]
  PROVE  /\ HeldFroms \subseteq Nat /\ Firsts \subseteq HeldFroms /\ Firsts \subseteq Nat
         /\ \A f \in HeldFroms : f \in Clock /\ ranges[f] \in Clock /\ ranges[f] \in Nat
         /\ \A f \in Firsts : f \in UpTo(f)
         /\ \A f \in Firsts : UpTo(f) \subseteq HeldFroms /\ \A g \in UpTo(f) : f <= g
  <1>1. HeldFroms \subseteq Nat /\ Firsts \subseteq HeldFroms
    BY CacheConstants DEF HeldFroms, Firsts
  <1>2. \A f \in HeldFroms : f \in Clock /\ ranges[f] \in Clock /\ ranges[f] \in Nat
    BY CacheConstants DEF HeldFroms
  <1>3. \A f, s \in Firsts : ~(f < s /\ s <= f)
    BY <1>1
  <1>4. \A f \in Firsts : f >= f
    BY <1>1
  <1>5. \A f \in Firsts : f \in UpTo(f)
    BY <1>1, <1>3, <1>4 DEF UpTo
  <1>6. \A f \in Firsts : UpTo(f) \subseteq HeldFroms /\ \A g \in UpTo(f) : f <= g
    BY <1>1 DEF UpTo
  <1> QED
    BY <1>1, <1>2, <1>5, <1>6

\* Above its first stretch a window has, at every point up to a later one of it, a stretch that
\* began before the point and reaches the next.
LEMMA Chained ==
  ASSUME ranges \in [Clock -> Clock \cup {Absent}], NEW s \in Firsts, NEW e \in UpTo(s), NEW y \in Nat, s < y, y <= e
  PROVE  \E f \in HeldFroms, g \in HeldFroms : g < y /\ y <= f /\ f <= ranges[g] /\ f <= e
  <1> DEFINE F == { f \in HeldFroms : y <= f }
  <1>1. HeldFroms \subseteq Nat /\ s \in HeldFroms /\ e \in HeldFroms /\ s \in Nat /\ \A g \in HeldFroms : ranges[g] \in Nat
    BY StretchTimes
  <1>2. F \subseteq Nat /\ e \in F
    BY <1>1
  <1> DEFINE f == Min(F)
  <1>3. f \in F /\ \A h \in F : f <= h
    BY <1>2, LeastOf
  <1>4. f \in HeldFroms /\ f \in Nat /\ y <= f /\ f <= e /\ \A h \in HeldFroms : y <= h => f <= h
    BY <1>1, <1>2, <1>3
  <1> HIDE DEF f, F
  <1>5. f \notin Firsts
    <2>1. s < f
      BY <1>1, <1>4
    <2> QED
      BY <1>4, <2>1 DEF UpTo
  <1>6. PICK g \in HeldFroms : g < f /\ f <= ranges[g]
    BY <1>4, <1>5 DEF Firsts, Joined
  <1>7. g < y
    BY <1>1, <1>4, <1>6
  <1> QED
    BY <1>4, <1>6, <1>7

\* A window ends with a stretch of it.
LEMMA WindowEnds ==
  ASSUME ranges \in [Clock -> Clock \cup {Absent}], NEW w \in Windows
  PROVE  /\ w.to \in Clock /\ \A g \in UpTo(w.from) : ranges[g] <= w.to
         /\ \E e \in UpTo(w.from) : ranges[e] = w.to
  <1> DEFINE T == { ranges[g] : g \in UpTo(w.from) }
  <1>1. w.from \in Firsts /\ w.from \in Clock /\ w.to = Max(T)
    BY AWindow
  <1>2. w.from \in UpTo(w.from)
    BY <1>1, StretchTimes
  <1>3. \A g \in UpTo(w.from) : ranges[g] \in Clock /\ ranges[g] \in Nat
    BY <1>1, StretchTimes
  <1>4. T \subseteq Nat /\ T # {}
    BY <1>2, <1>3
  <1>5. \A t \in T : t <= TimeOf[Size] + 1
    BY <1>3, CacheConstants DEF Clock, Size
  <1>6. TimeOf[Size] + 1 \in Nat
    BY CacheConstants
  <1>7. Max(T) \in T /\ \A t \in T : t <= Max(T)
    <2> HIDE DEF T
    <2> QED
      BY <1>4, <1>5, <1>6, GreatestOf
  <1> QED
    BY <1>1, <1>3, <1>7

\* Inside a window a point is inside one stretch, or where one ends and another begins.
LEMMA InsideWindow ==
  ASSUME ranges \in [Clock -> Clock \cup {Absent}], NEW w \in Windows, NEW x \in Nat, w.from < x, x < w.to
  PROVE  \/ \E g \in HeldFroms : g < x /\ x < ranges[g]
         \/ x \in HeldFroms /\ x < ranges[x] /\ \E g \in HeldFroms : g < x /\ ranges[g] = x
  <1> DEFINE s == w.from
  <1>1. s \in Firsts /\ HeldFroms \subseteq Nat /\ x + 1 \in Nat /\ s \in Nat /\ s < x + 1
    <2>1. s \in Firsts /\ HeldFroms \subseteq Nat /\ s \in Nat
      BY AWindow, StretchTimes
    <2> QED
      BY <2>1
  <1>2. PICK e \in UpTo(s) : ranges[e] = w.to
    BY WindowEnds
  <1>3. e \in HeldFroms /\ \A g \in HeldFroms : ranges[g] \in Nat
    BY <1>1, StretchTimes
  <1>4. CASE e < x
    BY <1>2, <1>3, <1>4
  <1>5. CASE x <= e
    <2>1. PICK f \in HeldFroms, g \in HeldFroms : g < x /\ x <= f /\ f <= ranges[g] /\ f <= e
      BY <1>1, <1>5, Chained
    <2>2. CASE x < ranges[g]
      BY <2>1, <2>2
    <2>3. CASE ~(x < ranges[g])
      <3>1. ranges[g] = x /\ x \in HeldFroms
        BY <1>1, <1>3, <2>1, <2>3
      <3>2. CASE x < ranges[x]
        BY <2>1, <3>1, <3>2
      <3>3. CASE ~(x < ranges[x])
        <4>1. x + 1 <= e
          BY <1>1, <1>2, <1>3, <1>5, <3>3
        <4>2. PICK f2 \in HeldFroms, g2 \in HeldFroms : g2 < x + 1 /\ x + 1 <= f2 /\ f2 <= ranges[g2] /\ f2 <= e
          BY <1>1, <4>1, Chained
        <4>3. g2 # x /\ g2 < x /\ x < ranges[g2]
          BY <1>1, <1>3, <3>3, <4>2
        <4> QED
          BY <4>2, <4>3
      <3> QED
        BY <3>2, <3>3
    <2> QED
      BY <2>2, <2>3
  <1> QED
    BY <1>1, <1>3, <1>4, <1>5

\* A window that is not a point begins with a stretch that is not one, and ends with one.
LEMMA WindowEdges ==
  ASSUME ranges \in [Clock -> Clock \cup {Absent}], \A f \in HeldFroms : f <= ranges[f],
         NEW w \in Windows
  PROVE  /\ w.from <= w.to /\ w.from \in HeldFroms
         /\ w.from < w.to => w.from < ranges[w.from] /\ \E g \in HeldFroms : g < w.to /\ ranges[g] = w.to
  <1> DEFINE s == w.from
  <1>1. s \in Firsts /\ s \in HeldFroms /\ HeldFroms \subseteq Nat /\ s \in UpTo(s) /\ s \in Nat
    BY AWindow, StretchTimes
  <1>2. PICK e \in UpTo(s) : ranges[e] = w.to
    BY WindowEnds
  <1>3. e \in HeldFroms /\ e \in Nat /\ s <= e /\ w.to \in Nat /\ \A g \in HeldFroms : ranges[g] \in Nat
    BY <1>1, WindowEnds, StretchTimes, CacheConstants
  <1>4. w.from <= w.to
    <2>1. e <= ranges[e]
      BY <1>3
    <2> QED
      BY <1>1, <1>2, <1>3, <2>1
  <1>5. ASSUME s < w.to PROVE s < ranges[s]
    <2> SUFFICES ASSUME ~(s < ranges[s]) PROVE FALSE
      OBVIOUS
    <2>0. s <= ranges[s] /\ ranges[s] \in Nat
      BY <1>1, <1>3
    <2>1. ranges[s] = s /\ s + 1 <= e /\ s + 1 \in Nat /\ s < s + 1
      <3>1. ranges[s] = s
        BY <1>1, <2>0
      <3>2. e # s
        BY <1>2, <1>5, <3>1
      <3> QED
        BY <1>1, <1>3, <3>1, <3>2
    <2>2. PICK f \in HeldFroms, g \in HeldFroms : g < s + 1 /\ s + 1 <= f /\ f <= ranges[g] /\ f <= e
      BY <1>1, <2>1, Chained
    <2>3. g < s /\ s <= ranges[g]
      <3>1. g \in Nat /\ f \in Nat /\ ranges[g] \in Nat /\ g # s
        BY <1>1, <1>3, <2>1, <2>2
      <3> QED
        BY <1>1, <2>2, <3>1
    <2> QED
      BY <1>1, <2>2, <2>3 DEF Firsts, Joined
  <1>6. ASSUME s < w.to PROVE \E g \in HeldFroms : g < w.to /\ ranges[g] = w.to
    <2>1. CASE e < w.to
      BY <1>2, <1>3, <2>1
    <2>2. CASE ~(e < w.to)
      <3>1. e = w.to /\ s < e /\ e \in Nat
        BY <1>1, <1>2, <1>3, <1>6, <2>2
      <3>2. PICK f \in HeldFroms, g \in HeldFroms : g < e /\ e <= f /\ f <= ranges[g] /\ f <= e
        BY <1>1, <3>1, Chained
      <3>0. g \in Nat /\ f \in Nat /\ ranges[g] \in Nat
        BY <1>1, <1>3, <3>2
      <3>3. s <= g
        <4> SUFFICES ASSUME g < s PROVE FALSE
          BY <1>1, <3>0
        <4>1. s <= ranges[g]
          BY <1>1, <3>0, <3>1, <3>2
        <4> QED
          BY <1>1, <3>2, <4>1 DEF Firsts, Joined
      <3>4. g \in UpTo(s)
        <4>1. ASSUME NEW t \in Firsts, s < t, t <= g PROVE FALSE
          <5>1. t \in Nat /\ t <= e
            BY <1>3, <3>0, <3>2, <4>1, StretchTimes
          <5> QED
            BY <4>1, <5>1 DEF UpTo
        <4>2. g >= s
          BY <1>1, <3>0, <3>3
        <4> QED
          BY <3>2, <4>1, <4>2 DEF UpTo
      <3>5. ranges[g] = w.to
        <4>1. ranges[g] <= w.to
          BY <3>4, WindowEnds
        <4> QED
          BY <1>3, <3>0, <3>1, <3>2, <4>1
      <3> QED
        BY <3>1, <3>2, <3>5
    <2> QED
      BY <2>1, <2>2
  <1> QED
    BY <1>1, <1>4, <1>5, <1>6

\* Every stretch is in a window.
LEMMA InAWindow ==
  ASSUME ranges \in [Clock -> Clock \cup {Absent}], NEW f \in HeldFroms
  PROVE  \E w \in Windows : w.from <= f /\ ranges[f] <= w.to
  <1> DEFINE S == { g \in Firsts : g <= f }
             s == Max(S)
  <1>1. HeldFroms \subseteq Nat /\ Firsts \subseteq HeldFroms /\ f \in Nat
    BY StretchTimes
  <1>2. Min(HeldFroms) \in HeldFroms /\ \A g \in HeldFroms : Min(HeldFroms) <= g
    BY <1>1, LeastOf
  <1>3. Min(HeldFroms) \in Firsts
    <2> DEFINE least == Min(HeldFroms)
    <2>1. least \in HeldFroms /\ least \in Nat /\ \A g \in HeldFroms : g \in Nat /\ least <= g
      BY <1>1, <1>2
    <2> HIDE DEF least
    <2>2. \A g \in HeldFroms : ~(g < least)
      BY <2>1
    <2>3. least \in Firsts
      BY <2>1, <2>2 DEF Firsts
    <2> QED
      BY <2>3 DEF least
  <1>4. S \subseteq Nat /\ S # {} /\ \A g \in S : g <= f
    BY <1>1, <1>2, <1>3
  <1>5. s \in S /\ \A g \in S : g <= s
    <2> HIDE DEF S
    <2> QED
      BY <1>1, <1>4, GreatestOf
  <1>6. s \in Firsts /\ s <= f /\ \A g \in Firsts : g <= f => g <= s
    BY <1>5
  <1>7. f \in UpTo(s)
    <2> HIDE DEF s
    <2> QED
      BY <1>1, <1>6 DEF UpTo
  <1> DEFINE w == [from |-> s, to |-> Max({ ranges[g] : g \in UpTo(s) })]
  <1>8. w \in Windows /\ w.from = s
    BY <1>6, WindowsAre
  <1> HIDE DEF w, s
  <1> QED
    BY <1>6, <1>7, <1>8, WindowEnds

LEMMA TurnTyped == ASSUME CacheTyped, NEW p \in Readers, BackupTurn(p) PROVE CacheTyped'
  <1> DEFINE around == { w.from : w \in { w \in Windows : w.from <= job[p].cursor /\ job[p].cursor <= w.to } }
             cursor == Min(around \cup {job[p].cursor})
             j == [job[p] EXCEPT !.at = "asked", !.from = cursor, !.back = Page, !.cursor = cursor]
  <1>1. job[p] \in JobType /\ job[p].cursor \in Clock
    BY SomeoneReads DEF JobType
  <1>2. cursor \in Clock
    <2>1. \A w \in Windows : w.from \in Clock
      BY AWindow
    <2>2. around \subseteq Clock
      BY <2>1
    <2> HIDE DEF around
    <2>3. (around \cup {job[p].cursor}) \subseteq Nat /\ (around \cup {job[p].cursor}) # {}
      BY <1>1, <2>2, CacheConstants
    <2>4. cursor \in around \cup {job[p].cursor}
      BY <2>3, LeastOf
    <2> QED
      BY <1>1, <2>2, <2>4
  <1>3. \/ \E complete \in BOOLEAN, start \in BOOLEAN : BackupEnds(p, complete, start)
        \/ job[p].pages < MaxPages /\ job' = [job EXCEPT ![p] = j] /\ UNCHANGED told
    BY DEF BackupTurn
  <1>4. UNCHANGED << posted, version, gone, rows, ranges, fetched, clearing, reads, torn >>
    BY DEF BackupTurn
  <1>5. ASSUME NEW complete \in BOOLEAN, NEW start \in BOOLEAN, BackupEnds(p, complete, start) PROVE CacheTyped'
    BY <1>4, <1>5, BackupTells, IdleAgain, CacheTypes DEF CacheTyped
  <1>6. ASSUME job[p].pages < MaxPages, job' = [job EXCEPT ![p] = j], UNCHANGED told PROVE CacheTyped'
    <2>1. j \in JobType
      BY <1>1, <1>2, JobForms
    <2>2. PagesLeft(j)
      BY <1>1, <1>6 DEF PagesLeft, JobType
    <2> HIDE DEF j
    <2> QED
      BY <1>4, <1>6, <2>1, <2>2, ReaderTyped, CacheTypes DEF CacheTyped
  <1> QED
    BY <1>3, <1>5, <1>6

\* The oldest message a page has brought, or where the backup was.
LEMMA OldestTyped ==
  ASSUME NEW j \in JobType
  PROVE  /\ j.page \in PageContents /\ j.cursor \in Clock
         /\ (IF Ids(j.page) = {} THEN j.cursor ELSE TimeOf[Min(Ids(j.page))]) \in Clock
  <1>1. j.page \in PageContents /\ j.cursor \in Clock
    BY DEF JobType, PageContents
  <1> QED
    BY <1>1, IdsTyped

LEMMA PageEndsTyped == ASSUME CacheTyped, NEW p \in Readers, PageEnds(p) PROVE CacheTyped'
  <1> DEFINE page == Ids(job[p].page)
             oldest == IF page = {} THEN job[p].cursor ELSE TimeOf[Min(page)]
             start == [job[p] EXCEPT !.at = "start", !.cursor = oldest]
             turn == [job[p] EXCEPT !.at = "turn", !.cursor = oldest, !.pages = @ + 1, !.page = NoPage]
  <1>1. job[p] \in JobType /\ oldest \in Clock
    BY SomeoneReads, OldestTyped
  <1>2. UNCHANGED << posted, version, gone, rows, ranges, clearing, reads, torn >> /\ fetched' \in BOOLEAN
    BY CacheTypes DEF PageEnds, CacheTyped
  <1>3. \/ job' = [job EXCEPT ![p] = start] /\ UNCHANGED told
        \/ BackupEnds(p, TRUE, TRUE)
        \/ job' = [job EXCEPT ![p] = Idle] /\ UNCHANGED told
        \/ job' = [job EXCEPT ![p] = turn] /\ UNCHANGED told
    BY DEF PageEnds
  <1>4. job[p].pages < MaxPages
    <2>1. job[p].backup /\ job[p].at \in {"rows", "range"}
      BY DEF PageEnds, Written
    <2> QED
      BY <2>1, SomeoneReads DEF PagesLeft
  <1>5. CASE job' = [job EXCEPT ![p] = start] /\ UNCHANGED told
    <2>1. start \in JobType
      BY <1>1, JobForms
    <2>2. PagesLeft(start)
      BY <1>1 DEF PagesLeft, JobType
    <2> HIDE DEF start
    <2> QED
      BY <1>2, <1>5, <2>1, <2>2, ReaderTyped, CacheTypes DEF CacheTyped
  <1>6. CASE BackupEnds(p, TRUE, TRUE)
    BY <1>2, <1>6, BackupTells, IdleAgain, CacheTypes DEF CacheTyped
  <1>7. CASE job' = [job EXCEPT ![p] = Idle] /\ UNCHANGED told
    BY <1>2, <1>7, IdleAgain, CacheTypes DEF CacheTyped
  <1>8. CASE job' = [job EXCEPT ![p] = turn] /\ UNCHANGED told
    <2>1. turn \in JobType
      BY <1>1, <1>4, JobForms
    <2>2. PagesLeft(turn)
      BY <1>1 DEF PagesLeft, JobType
    <2> HIDE DEF turn
    <2> QED
      BY <1>2, <1>8, <2>1, <2>2, ReaderTyped, CacheTypes DEF CacheTyped
  <1> QED
    BY <1>3, <1>5, <1>6, <1>7, <1>8

LEMMA ReadersTyped == ASSUME CacheTyped, NEW p \in Readers, ReaderStep(p) PROVE CacheTyped'
  <1>1. CASE ReadEnds(p)
    BY <1>1, IdleAgain, CacheTypes DEF ReadEnds, CacheTyped
  <1>2. CASE ReachedStart(p)
    <2>1. job[p].cursor \in Clock /\ 0 \in Clock
      BY SomeoneReads, CacheConstants DEF JobType
    <2>2. ranges' \in [Clock -> Clock \cup {Absent}]
      BY <1>2, <2>1, Extended, CacheTypes DEF ReachedStart, CacheTyped
    <2> QED
      BY <1>2, <2>2, BackupTells, IdleAgain, CacheTypes DEF ReachedStart, CacheTyped
  <1>3. CASE Stops(p)
    BY <1>3, IdleAgain, CacheTypes DEF Stops, CacheTyped
  <1> QED
    BY <1>1, <1>2, <1>3, ReadsStartTyped, BackupTyped, AnswerTyped, WriteRowTyped, WriteRangeTyped,
       TurnTyped, PageEndsTyped DEF ReaderStep

\* What leaves the readers' jobs alone.
OthersStep ==
  \/ Post \/ Invalidate
  \/ \E m \in Messages : Edit(m) \/ Delete(m) \/ Forget(m)
  \/ ClearRows \/ ClearRanges \/ ClearFetched \/ ClearDies

LEMMA OthersTyped == ASSUME CacheTyped, OthersStep PROVE CacheTyped'
  <1> SUFFICES CacheTypeOK' /\ job' = job
    BY DEF CacheTyped, PagesLeft
  <1>1. job' = job
    BY DEF OthersStep, Post, Invalidate, Edit, Delete, Forget, ClearRows, ClearRanges, ClearFetched, ClearDies
  <1>2. CacheTypeOK
    BY DEF CacheTyped
  <1>3. CASE Post
    <2>1. posted' \in 0 .. Size /\ gone' \subseteq 1 .. posted'
      BY <1>2, <1>3, CacheTypes, CacheConstants DEF Post, Size
    <2> QED
      BY <1>2, <1>3, <2>1 DEF Post, CacheTypeOK, Size
  <1>4. CASE Invalidate
    BY <1>2, <1>4 DEF Invalidate, CacheTypeOK
  <1>5. ASSUME NEW m \in Messages, Edit(m) PROVE CacheTypeOK'
    <2>1. version[m] + 1 \in 0 .. MaxVersion
      BY <1>2, <1>5, CacheTypes, CacheConstants DEF Edit
    <2>2. version' \in [Messages -> 0 .. MaxVersion]
      BY <1>2, <1>5, <2>1, CacheTypes DEF Edit
    <2> QED
      BY <1>2, <1>5, <2>2 DEF Edit, CacheTypeOK
  <1>6. ASSUME NEW m \in Messages, Delete(m) PROVE CacheTypeOK'
    <2>1. gone' \subseteq 1 .. posted
      BY <1>2, <1>6, CacheTypes DEF Delete, Live
    <2> QED
      BY <1>2, <1>6, <2>1 DEF Delete, CacheTypeOK
  <1>7. ASSUME NEW m \in Messages, Forget(m) PROVE CacheTypeOK'
    <2>1. Absent \in Absent .. MaxVersion
      BY CacheConstants DEF Absent
    <2>2. rows' \in [Messages -> Absent .. MaxVersion]
      BY <1>2, <1>7, <2>1 DEF Forget, CacheTypeOK
    <2> QED
      BY <1>2, <1>7, <2>2 DEF Forget, CacheTypeOK
  <1>8. CASE ClearRows
    <2>1. Absent \in Absent .. MaxVersion
      BY CacheConstants DEF Absent
    <2>2. rows' \in [Messages -> Absent .. MaxVersion]
      BY <1>8, <2>1 DEF ClearRows
    <2>3. told' \in [Readers -> TellType]
      <3>1. Untold \in TellType
        BY CacheConstants DEF Untold, TellType, Absent
      <3> QED
        BY <1>8, <3>1 DEF ClearRows
    <2>4. reads' \in 0 .. MaxReads /\ torn' \in BOOLEAN
      BY <1>2, <1>8, CacheTypes, CacheConstants DEF ClearRows
    <2> QED
      BY <1>2, <1>8, <2>2, <2>3, <2>4 DEF ClearRows, CacheTypeOK, TellType, Size
  <1>9. CASE ClearRanges
    BY <1>2, <1>9 DEF ClearRanges, CacheTypeOK
  <1>10. CASE ClearFetched
    BY <1>2, <1>10 DEF ClearFetched, CacheTypeOK
  <1>11. CASE ClearDies
    BY <1>2, <1>11 DEF ClearDies, CacheTypeOK
  <1> QED
    BY <1>1, <1>3, <1>4, <1>5, <1>6, <1>7, <1>8, <1>9, <1>10, <1>11 DEF OthersStep

LEMMA CacheTypedStep == CacheTyped /\ [CacheNext]_cacheVars => CacheTyped'
  <1> SUFFICES ASSUME CacheTyped, [CacheNext]_cacheVars PROVE CacheTyped'
    OBVIOUS
  <1>1. CASE UNCHANGED cacheVars
    BY <1>1 DEF cacheVars, CacheTyped, CacheTypeOK, PagesLeft
  <1>2. CASE CacheNext
    BY <1>2, ReadersTyped, OthersTyped DEF CacheNext, OthersStep
  <1> QED
    BY <1>1, <1>2

\* The copy, the stretches it holds, the readers and what they were told have their types.
THEOREM CacheTypeCorrect == CacheSpec => []CacheTypeOK
  <1>1. CacheTyped => CacheTypeOK
    BY DEF CacheTyped
  <1> QED
    BY <1>1, CacheTypedInit, CacheTypedStep, PTL DEF CacheSpec

\* An edit is never undone in the copy by a slower answer that has not seen it, for any number of
\* readers, edits and clears: the upsert of putMessage keeps the newer, by MAX's clock.
THEOREM NoEditUndone == CacheSpec => EditsStay
  <1>1. CacheTyped /\ [CacheNext]_cacheVars =>
          [\A m \in Messages : rows[m] # Absent /\ rows'[m] # Absent => rows[m] <= rows'[m]]_cacheVars
    <2> SUFFICES ASSUME CacheTyped, CacheNext, NEW m \in Messages, rows[m] # Absent, rows'[m] # Absent
                 PROVE  rows[m] <= rows'[m]
      OBVIOUS
    <2>1. rows \in PageContents /\ rows[m] \in Absent .. MaxVersion /\ rows[m] <= rows[m]
      BY CacheTypes DEF CacheTyped, PageContents, Absent
    <2>2. ASSUME NEW p \in Readers, WriteRow(p) PROVE rows[m] <= rows'[m]
      <3> DEFINE k == Min(job[p].left)
      <3>1. job[p].page \in PageContents /\ job[p].left \subseteq Messages
        BY SomeoneReads DEF JobType, PageContents
      <3>2. k \in Messages
        BY <2>2, <3>1, LeastOf, CacheConstants DEF WriteRow
      <3>3. rows'[m] = IF m = k THEN Upsert(rows[m], job[p].page[m]) ELSE rows[m]
        BY <2>1, <2>2, <3>2 DEF WriteRow, PageContents
      <3>4. job[p].page[m] \in Absent .. MaxVersion
        BY <3>1 DEF PageContents
      <3> HIDE DEF k
      <3> QED
        BY <2>1, <3>3, <3>4, CacheConstants DEF Upsert, Absent
    <2>3. ASSUME NEW p \in Readers, ReaderStep(p), ~ WriteRow(p) PROVE rows' = rows
      BY <2>3 DEF ReaderStep, List, ListBefore, ListAfter, Around, Backup, Starts, Answer, WriteRange, ReadEnds,
         BackupTurn, PageEnds, ReachedStart, Stops
    <2>4. ASSUME OthersStep PROVE rows' = rows \/ rows'[m] = rows[m] \/ rows'[m] = Absent
      BY <2>1, <2>4 DEF OthersStep, Post, Invalidate, Edit, Delete, Forget, ClearRows, ClearRanges, ClearFetched,
         ClearDies, PageContents
    <2> QED
      BY <2>1, <2>2, <2>3, <2>4 DEF CacheNext, OthersStep
  <1> QED
    BY <1>1, CacheTypedInit, CacheTypedStep, PTL DEF CacheSpec, EditsStay

-----------------------------------------------------------------------------
(***************************************************************************)
(* The copy.  Of everything MAX has, the copy has read what it holds and    *)
(* what was deleted; the rest is missing.  A stretch misses nothing between *)
(* its ends, and of the messages of the millisecond it begins in at most    *)
(* some before the last, of that it ends in some after the first.  A page   *)
(* has no hole, a short page reaches the chat's start, and a backup misses  *)
(* nothing newer than its cursor.                                           *)
(***************************************************************************)
Done == Held \cup gone
TimesOf(S) == { TimeOf[k] : k \in S }
Amid(m) == NotFirst(m) /\ NotLast(m)

\* Nothing missing is older than c; P messages are posted, D of them done.
FromHere(c, P, D) == \A m \in (1 .. P) \ D : c <= TimeOf[m] /\ (TimeOf[m] = c => NotFirst(m))

JobShape(j, P) ==
  /\ Ids(j.page) \subseteq 1 .. P
  /\ j.left \subseteq Ids(j.page)
  /\ j.base <= P
  /\ j.at # "rows" => j.left = {}
  /\ j.backup => j.forth = 0
  /\ j.at \in {"turn", "start"} => j.backup
  /\ j.backup /\ j.at = "asked" => j.from = j.cursor /\ j.back = Page

HasPage(j) == j.at \in {"rows", "range"}

NoHole(ids, P, G) == \A a, b \in ids, m \in (1 .. P) \ G : a < m /\ m < b => m \in ids
NewestHere(ids, base, cursor, G) ==
  \A m \in (1 .. base) \ G, a \in ids : a < m /\ TimeOf[m] <= cursor => m \in ids
AllHere(ids, base, cursor, G) == \A m \in (1 .. base) \ G : TimeOf[m] <= cursor => m \in ids
NoneBefore(ids, P, G) == \A a \in ids, m \in (1 .. P) \ G : m < a => m \in ids

PageIsWhole(j, P, G) ==
  HasPage(j) =>
    /\ NoHole(Ids(j.page), P, G)
    /\ j.backup =>
         /\ NewestHere(Ids(j.page), j.base, j.cursor, G)
         /\ Cardinality(Ids(j.page)) < Page =>
              AllHere(Ids(j.page), j.base, j.cursor, G) /\ NoneBefore(Ids(j.page), P, G)

ReadSoFar(j, P, D) ==
  /\ HasPage(j) => Ids(j.page) \ j.left \subseteq D
  /\ j.backup /\ j.pages > 0 => j.cursor \in TimesOf(D)
  /\ j.at = "start" => j.cursor \in TimesOf(D) /\ FromHere(j.cursor, P, D)
  /\ HasPage(j) /\ j.backup /\ Ids(j.page) = {} /\ j.pages > 0 => FromHere(j.cursor, P, D)

Reached(j, D) ==
  j.backup =>
    \A m \in (1 .. j.base) \ D :
      \/ Amid(m)
      \/ j.at # "start" /\ TimeOf[m] < j.cursor
      \/ j.at # "start" /\ TimeOf[m] = j.cursor /\ NotLast(m)

ToldTruth(t, D) ==
  t.complete =>
    \A m \in (1 .. t.base) \ D :
      \/ Amid(m)
      \/ /\ ~ t.start
         /\ \/ t.since # Absent /\ TimeOf[m] <= t.since
            \/ t.last > 0 /\ Cardinality({ k \in D : k > m }) >= t.last

RangeIsRead(f, t, P, D) ==
  /\ f <= t
  /\ f = 0 \/ f \in TimesOf(D)
  /\ t \in TimesOf(D)
  /\ \A m \in (1 .. P) \ D :
       /\ ~(f < TimeOf[m] /\ TimeOf[m] < t)
       /\ f < t /\ TimeOf[m] = f => NotLast(m)
       /\ f < t /\ TimeOf[m] = t => NotFirst(m)

\* A clear that is emptying the rows has met no reader.
ClearIsAlone == ~ torn /\ clearing = "rows" => \A p \in Readers : job[p] = Idle

ReaderInv(j, t, P, G, D, whole) ==
  /\ JobShape(j, P) /\ PageIsWhole(j, P, G)
  /\ whole => ReadSoFar(j, P, D) /\ Reached(j, D) /\ ToldTruth(t, D)

CacheInv ==
  /\ CacheTyped
  /\ Held \subseteq 1 .. posted
  /\ ClearIsAlone
  /\ \A p \in Readers : ReaderInv(job[p], told[p], posted, gone, Done, ~ torn)
  /\ Whole => \A f \in HeldFroms : RangeIsRead(f, ranges[f], posted, Done)

\* MAX posts, deletes, and the copy learns of more.
Grown(P, G, D, P2, G2, D2) ==
  /\ P \in Nat /\ P2 \in Nat /\ P <= P2 /\ 1 .. P2 \subseteq Messages
  /\ G \subseteq G2 /\ D \subseteq D2 /\ D \subseteq 1 .. P /\ D2 \subseteq 1 .. P2

LEMMA GrownFacts ==
  ASSUME NEW P, NEW G, NEW D, NEW P2, NEW G2, NEW D2, Grown(P, G, D, P2, G2, D2)
  PROVE  /\ 1 .. P \subseteq 1 .. P2 /\ 1 .. P \subseteq Messages
         /\ \A m \in (1 .. P2) \ D2 : m \in Messages /\ (m \in (1 .. P) \ D \/ \A k \in 1 .. P : k < m /\ TimeOf[k] <= TimeOf[m])
         /\ \A m \in (1 .. P2) \ G2 : m \in Messages /\ (m \in (1 .. P) \ G \/ \A k \in 1 .. P : k < m)
  <1>1. P \in Nat /\ P2 \in Nat /\ P <= P2 /\ 1 .. P2 \subseteq Messages
    BY DEF Grown
  <1>2. \A m \in 1 .. P2 : m \in 1 .. P \/ \A k \in 1 .. P : k < m /\ k <= m
    BY <1>1
  <1>3. 1 .. P \subseteq 1 .. P2 /\ 1 .. P \subseteq Messages
    BY <1>1
  <1>4. \A m \in Messages, k \in Messages : k <= m => TimeOf[k] <= TimeOf[m]
    BY CacheConstants
  <1> QED
    BY <1>1, <1>2, <1>3, <1>4 DEF Grown

LEMMA FromHereGrows ==
  ASSUME NEW P, NEW G, NEW D, NEW P2, NEW G2, NEW D2, Grown(P, G, D, P2, G2, D2),
         NEW c \in TimesOf(D), FromHere(c, P, D)
  PROVE  FromHere(c, P2, D2)
  <1>1. PICK k \in D : c = TimeOf[k]
    BY DEF TimesOf
  <1>2. k \in 1 .. P /\ k \in Messages
    BY GrownFacts DEF Grown
  <1>3. SUFFICES ASSUME NEW m \in (1 .. P2) \ D2 PROVE c <= TimeOf[m] /\ (TimeOf[m] = c => NotFirst(m))
    BY DEF FromHere
  <1>4. CASE m \in (1 .. P) \ D
    BY <1>4 DEF FromHere
  <1>5. CASE k < m /\ TimeOf[k] <= TimeOf[m]
    BY <1>1, <1>2, <1>5 DEF NotFirst
  <1> QED
    BY <1>2, <1>4, <1>5, GrownFacts

LEMMA PageGrows ==
  ASSUME NEW P, NEW G, NEW D, NEW P2, NEW G2, NEW D2, Grown(P, G, D, P2, G2, D2),
         NEW j \in JobType, JobShape(j, P), PageIsWhole(j, P, G)
  PROVE  JobShape(j, P2) /\ PageIsWhole(j, P2, G2)
  <1> DEFINE ids == Ids(j.page)
  <1>1. ids \subseteq 1 .. P /\ j.base <= P /\ j.base \in Nat /\ P \in Nat /\ P2 \in Nat /\ P <= P2
    BY CacheConstants DEF JobShape, JobType, Grown, Size
  <1>2. JobShape(j, P2)
    <2>1. ids \subseteq 1 .. P2 /\ j.base <= P2
      BY <1>1
    <2> QED
      BY <2>1 DEF JobShape
  <1>3. \A m \in (1 .. P2) \ G2 : m \in (1 .. P) \ G \/ \A k \in ids : k < m
    BY <1>1, GrownFacts
  <1>4. \A k \in ids : k \in Nat
    BY <1>1
  <1>5. \A m \in (1 .. P2) \ G2 : m \in Nat
    OBVIOUS
  <1>6. \A m \in (1 .. j.base) \ G2 : m \in (1 .. j.base) \ G
    BY DEF Grown
  <1> HIDE DEF ids
  <1>7. NoHole(ids, P, G) => NoHole(ids, P2, G2)
    BY <1>3, <1>4, <1>5 DEF NoHole
  <1>8. NewestHere(ids, j.base, j.cursor, G) => NewestHere(ids, j.base, j.cursor, G2)
    BY <1>6 DEF NewestHere
  <1>9. AllHere(ids, j.base, j.cursor, G) => AllHere(ids, j.base, j.cursor, G2)
    BY <1>6 DEF AllHere
  <1>10. NoneBefore(ids, P, G) => NoneBefore(ids, P2, G2)
    BY <1>3, <1>4, <1>5 DEF NoneBefore
  <1>11. PageIsWhole(j, P2, G2)
    BY <1>7, <1>8, <1>9, <1>10 DEF PageIsWhole, ids
  <1> QED
    BY <1>2, <1>11

LEMMA ReadGrows ==
  ASSUME NEW P, NEW G, NEW D, NEW P2, NEW G2, NEW D2, Grown(P, G, D, P2, G2, D2),
         NEW j \in JobType, ReadSoFar(j, P, D), Reached(j, D)
  PROVE  ReadSoFar(j, P2, D2) /\ Reached(j, D2)
  <1>1. D \subseteq D2 /\ TimesOf(D) \subseteq TimesOf(D2)
    BY DEF Grown, TimesOf
  <1>2. Reached(j, D2)
    BY <1>1 DEF Reached
  <1>3. ASSUME j.cursor \in TimesOf(D), FromHere(j.cursor, P, D) PROVE FromHere(j.cursor, P2, D2)
    BY <1>3, FromHereGrows
  <1>4. ReadSoFar(j, P2, D2)
    BY <1>1, <1>3 DEF ReadSoFar
  <1> QED
    BY <1>2, <1>4

LEMMA ToldGrows ==
  ASSUME NEW P, NEW G, NEW D, NEW P2, NEW G2, NEW D2, Grown(P, G, D, P2, G2, D2),
         NEW t \in TellType, ToldTruth(t, D)
  PROVE  ToldTruth(t, D2)
  <1>1. D \subseteq D2 /\ D2 \subseteq 1 .. P2 /\ P2 \in Nat
    BY DEF Grown
  <1>2. ASSUME NEW m PROVE Cardinality({ k \in D : k > m }) <= Cardinality({ k \in D2 : k > m })
                           /\ Cardinality({ k \in D : k > m }) \in Nat /\ Cardinality({ k \in D2 : k > m }) \in Nat
    <2>1. { k \in D2 : k > m } \subseteq 1 .. P2 /\ { k \in D : k > m } \subseteq { k \in D2 : k > m }
      BY <1>1
    <2>2. IsFiniteSet(1 .. P2)
      BY <1>1, FS_Interval
    <2> QED
      BY <2>1, <2>2, FS_Subset, FS_CardinalityType
  <1>3. ASSUME NEW m, Cardinality({ k \in D : k > m }) >= t.last PROVE Cardinality({ k \in D2 : k > m }) >= t.last
    BY <1>2, <1>3 DEF TellType
  <1> QED
    BY <1>1, <1>3 DEF ToldTruth

LEMMA RangeGrows ==
  ASSUME NEW P, NEW G, NEW D, NEW P2, NEW G2, NEW D2, Grown(P, G, D, P2, G2, D2),
         NEW f \in Clock, NEW t \in Clock, RangeIsRead(f, t, P, D)
  PROVE  RangeIsRead(f, t, P2, D2)
  <1>1. TimesOf(D) \subseteq TimesOf(D2)
    BY DEF Grown, TimesOf
  <1>2. PICK k \in D : t = TimeOf[k]
    BY DEF RangeIsRead, TimesOf
  <1>3. k \in 1 .. P /\ k \in Messages
    BY GrownFacts DEF Grown
  <1>4. ASSUME NEW m \in (1 .. P2) \ D2
        PROVE  /\ ~(f < TimeOf[m] /\ TimeOf[m] < t)
               /\ f < t /\ TimeOf[m] = f => NotLast(m)
               /\ f < t /\ TimeOf[m] = t => NotFirst(m)
    <2>1. CASE m \in (1 .. P) \ D
      BY <2>1 DEF RangeIsRead
    <2>2. CASE k < m /\ TimeOf[k] <= TimeOf[m]
      <3>1. TimeOf[m] \in Nat /\ f \in Nat /\ t \in Nat
        BY GrownFacts, CacheConstants
      <3>2. t <= TimeOf[m]
        BY <1>2, <2>2
      <3>3. TimeOf[m] = t => NotFirst(m)
        BY <1>2, <1>3, <2>2 DEF NotFirst
      <3> QED
        BY <3>1, <3>2, <3>3
    <2> QED
      BY <1>3, <1>4, <2>1, <2>2, GrownFacts
  <1> QED
    BY <1>1, <1>4 DEF RangeIsRead

LEMMA CopyFacts ==
  ASSUME CacheInv
  PROVE  /\ CacheTyped /\ CacheTypeOK /\ posted \in Nat /\ posted \in 0 .. Size /\ 1 .. posted \subseteq Messages
         /\ gone \subseteq 1 .. posted /\ Held \subseteq 1 .. posted /\ Done \subseteq 1 .. posted
         /\ Grown(posted, gone, Done, posted, gone, Done)
         /\ ranges \in [Clock -> Clock \cup {Absent}]
  <1>1. CacheTyped /\ CacheTypeOK /\ Held \subseteq 1 .. posted
    BY DEF CacheInv, CacheTyped
  <1>2. posted \in Nat /\ posted \in 0 .. Size /\ 1 .. posted \subseteq Messages
        /\ gone \subseteq 1 .. posted /\ ranges \in [Clock -> Clock \cup {Absent}]
    BY <1>1, CacheTypes, CacheConstants
  <1> QED
    BY <1>1, <1>2 DEF Done, Grown

LEMMA ReaderFacts ==
  ASSUME CacheInv, NEW p \in Readers
  PROVE  /\ job[p] \in JobType /\ PagesLeft(job[p]) /\ told[p] \in TellType
         /\ JobShape(job[p], posted) /\ PageIsWhole(job[p], posted, gone)
         /\ ~ torn => ReadSoFar(job[p], posted, Done) /\ Reached(job[p], Done) /\ ToldTruth(told[p], Done)
         /\ ~ torn /\ job[p] # Idle => Whole
  BY SomeoneReads DEF CacheInv, ReaderInv, ClearIsAlone, Whole

LEMMA ReaderInvGrows ==
  ASSUME NEW P, NEW G, NEW D, NEW P2, NEW G2, NEW D2, Grown(P, G, D, P2, G2, D2),
         NEW j \in JobType, NEW t \in TellType, NEW whole \in BOOLEAN, NEW whole2 \in BOOLEAN, whole2 => whole,
         ReaderInv(j, t, P, G, D, whole)
  PROVE  ReaderInv(j, t, P2, G2, D2, whole2)
  BY PageGrows, ReadGrows, ToldGrows DEF ReaderInv

\* What is left to show of a step of a reader: its own job and answer, and the stretches.
LEMMA ReaderKeeps ==
  ASSUME CacheInv, CacheTyped', NEW p \in Readers, NEW j, NEW t,
         job' = [job EXCEPT ![p] = j], told' = [told EXCEPT ![p] = t],
         clearing' = clearing, torn => torn', ~ torn' /\ clearing = "rows" => j = Idle,
         Grown(posted, gone, Done, posted', gone', Done'), Held' \subseteq 1 .. posted',
         ReaderInv(j, t, posted', gone', Done', ~ torn'),
         Whole' => \A f \in HeldFroms' : RangeIsRead(f, ranges'[f], posted', Done')
  PROVE  CacheInv'
  <1>1. /\ \A q \in Readers : job'[q] = IF q = p THEN j ELSE job[q]
        /\ \A q \in Readers : told'[q] = IF q = p THEN t ELSE told[q]
        /\ torn \in BOOLEAN /\ torn' \in BOOLEAN
    <2>1. job \in [Readers -> JobType] /\ told \in [Readers -> TellType] /\ torn \in BOOLEAN
      BY CopyFacts, CacheTypes
    <2>2. torn' \in BOOLEAN
      BY DEF CacheTyped, CacheTypeOK
    <2> QED
      BY <2>1, <2>2
  <1>2. ASSUME NEW q \in Readers, q # p
        PROVE  ReaderInv(job'[q], told'[q], posted', gone', Done', ~ torn')
    <2>1. job[q] \in JobType /\ told[q] \in TellType /\ ReaderInv(job[q], told[q], posted, gone, Done, ~ torn)
      BY SomeoneReads DEF CacheInv
    <2>2. (~ torn) \in BOOLEAN /\ (~ torn') \in BOOLEAN /\ (~ torn' => ~ torn)
      BY <1>1
    <2>3. ReaderInv(job[q], told[q], posted', gone', Done', ~ torn')
      BY <2>1, <2>2, ReaderInvGrows
    <2> QED
      BY <1>1, <1>2, <2>3
  <1>3. \A q \in Readers : ReaderInv(job'[q], told'[q], posted', gone', Done', ~ torn')
    BY <1>1, <1>2
  <1>4. ClearIsAlone'
    BY <1>1 DEF ClearIsAlone, CacheInv
  <1> QED
    BY <1>3, <1>4 DEF CacheInv

LEMMA RangesGrow ==
  ASSUME CacheInv, ranges' = ranges, Whole' => Whole, Grown(posted, gone, Done, posted', gone', Done')
  PROVE  Whole' => \A f \in HeldFroms' : RangeIsRead(f, ranges'[f], posted', Done')
  <1> SUFFICES ASSUME Whole', NEW f \in HeldFroms' PROVE RangeIsRead(f, ranges[f], posted', Done')
    OBVIOUS
  <1>1. f \in HeldFroms /\ f \in Clock /\ ranges[f] \in Clock
    BY CopyFacts, StretchTimes DEF HeldFroms
  <1>2. RangeIsRead(f, ranges[f], posted, Done)
    BY <1>1 DEF CacheInv
  <1> QED
    BY <1>1, <1>2, RangeGrows

\* A step that changes neither the chat nor the copy.
LEMMA QuietlyKeeps ==
  ASSUME CacheInv, CacheTyped', NEW p \in Readers, NEW j, NEW t,
         job' = [job EXCEPT ![p] = j], told' = [told EXCEPT ![p] = t],
         UNCHANGED << posted, gone, rows, ranges, clearing >>, torn => torn',
         ~ torn' /\ clearing = "rows" => j = Idle,
         ReaderInv(j, t, posted, gone, Done, ~ torn')
  PROVE  CacheInv'
  <1>1. Held' = Held /\ Done' = Done
    BY DEF Done, Held
  <1>2. Whole' => Whole
    BY DEF Whole
  <1>3. Grown(posted, gone, Done, posted', gone', Done') /\ Held' \subseteq 1 .. posted'
    BY <1>1, CopyFacts
  <1>4. Whole' => \A f \in HeldFroms' : RangeIsRead(f, ranges'[f], posted', Done')
    BY <1>2, <1>3, RangesGrow
  <1> QED
    BY <1>1, <1>3, <1>4, ReaderKeeps

LEMMA IdsOfNone == Ids(NoPage) = {}
  BY DEF Ids, NoPage

LEMMA IdleFits ==
  ASSUME NEW P \in Nat, NEW G, NEW D, NEW t, NEW whole \in BOOLEAN, whole => ToldTruth(t, D)
  PROVE  ReaderInv(Idle, t, P, G, D, whole)
  <1>1. Idle.page = NoPage /\ Idle.left = {} /\ ~ Idle.backup /\ Idle.base = 0 /\ Idle.at = "idle"
    BY DEF Idle
  <1>2. Ids(Idle.page) = {} /\ Idle.base <= P
    BY <1>1, IdsOfNone
  <1> QED
    BY <1>1, <1>2 DEF ReaderInv, JobShape, PageIsWhole, HasPage, ReadSoFar, Reached

LEMMA CacheInvInit == CacheInit => CacheInv
  <1> SUFFICES ASSUME CacheInit PROVE CacheInv
    OBVIOUS
  <1>1. CacheTyped /\ posted \in Nat
    BY CacheTypedInit, CacheConstants DEF CacheInit
  <1>2. Held = {}
    BY DEF CacheInit, Held
  <1>3. HeldFroms = {}
    BY DEF CacheInit, HeldFroms
  <1>4. ClearIsAlone
    BY DEF CacheInit, ClearIsAlone
  <1>5. ASSUME NEW p \in Readers PROVE ReaderInv(job[p], told[p], posted, gone, Done, ~ torn)
    <2>1. job[p] = Idle /\ told[p] = Untold /\ torn \in BOOLEAN
      BY DEF CacheInit
    <2>2. ToldTruth(Untold, Done)
      BY IdleTyped DEF ToldTruth
    <2> QED
      BY <1>1, <2>1, <2>2, IdleFits
  <1> QED
    BY <1>1, <1>2, <1>3, <1>4, <1>5 DEF CacheInv

-----------------------------------------------------------------------------
(* The steps of a reader. *)

LEMMA NothingTold ==
  ASSUME CacheInv, NEW p \in Readers, UNCHANGED told
  PROVE  told' = [told EXCEPT ![p] = told[p]]
  BY CopyFacts, CacheTypes

LEMMA IdleKeeps ==
  ASSUME CacheInv, CacheTyped', NEW p \in Readers, NEW t,
         job' = [job EXCEPT ![p] = Idle], told' = [told EXCEPT ![p] = t],
         UNCHANGED << posted, gone, rows, ranges, clearing, torn >>,
         ~ torn => ToldTruth(t, Done)
  PROVE  CacheInv'
  <1>1. (~ torn') \in BOOLEAN /\ (torn => torn') /\ posted \in Nat /\ (~ torn' => ~ torn)
    BY CopyFacts, CacheTypes
  <1>2. ReaderInv(Idle, t, posted, gone, Done, ~ torn')
    BY <1>1, IdleFits
  <1> QED
    BY <1>1, <1>2, QuietlyKeeps

LEMMA StartsKeeps ==
  ASSUME CacheInv, CacheTyped', NEW p \in Readers, NEW j, Starts(p, j),
         JobShape(j, posted), ~ HasPage(j), j.pages = 0, j.at # "start", Reached(j, Done)
  PROVE  CacheInv'
  <1>1. ReaderInv(j, told[p], posted, gone, Done, ~ torn')
    <2>1. ~ torn' => ToldTruth(told[p], Done)
      BY ReaderFacts DEF Starts
    <2>2. PageIsWhole(j, posted, gone) /\ ReadSoFar(j, posted, Done)
      BY DEF PageIsWhole, ReadSoFar
    <2> QED
      BY <2>1, <2>2 DEF ReaderInv
  <1>2. told' = [told EXCEPT ![p] = told[p]]
    BY NothingTold DEF Starts
  <1>3. (torn => torn') /\ (~ torn' /\ clearing = "rows" => j = Idle)
    BY DEF Starts
  <1> QED
    BY <1>1, <1>2, <1>3, QuietlyKeeps DEF Starts

LEMMA AskingKeeps ==
  ASSUME CacheInv, CacheTyped', NEW p \in Readers, List(p) \/ ListBefore(p) \/ ListAfter(p) \/ Around(p)
  PROVE  CacheInv'
  <1>1. ASSUME NEW c, NEW back, NEW forth, Starts(p, Asking(c, back, forth)) PROVE CacheInv'
    <2> DEFINE j == Asking(c, back, forth)
    <2>1. j.at = "asked" /\ ~ j.backup /\ j.pages = 0 /\ j.page = NoPage /\ j.left = {} /\ j.base = 0
      BY DEF Asking, Idle
    <2>2. 0 <= posted
      BY CopyFacts
    <2> HIDE DEF j
    <2>3. JobShape(j, posted) /\ ~ HasPage(j) /\ Reached(j, Done)
      BY <2>1, <2>2, IdsOfNone DEF JobShape, HasPage, Reached
    <2>4. Starts(p, j)
      BY <1>1 DEF j
    <2> QED
      BY <2>1, <2>3, <2>4, StartsKeeps
  <1> QED
    BY <1>1 DEF List, ListBefore, ListAfter, Around

LEMMA BackupKeeps == ASSUME CacheInv, CacheTyped', NEW p \in Readers, Backup(p) PROVE CacheInv'
  <1>1. PICK earliest \in Sinces, last \in 0 .. 2 :
          Starts(p, [Idle EXCEPT !.at = "turn", !.backup = TRUE, !.cursor = Now,
                                 !.since = earliest, !.last = last, !.base = posted])
    BY DEF Backup
  <1> DEFINE j == [Idle EXCEPT !.at = "turn", !.backup = TRUE, !.cursor = Now,
                               !.since = earliest, !.last = last, !.base = posted]
  <1>2. j.at = "turn" /\ j.pages = 0 /\ j.page = NoPage /\ j.left = {} /\ j.base = posted /\ j.forth = 0 /\ j.cursor = Now /\ j.backup
    BY DEF Idle
  <1>3. posted \in Nat /\ 1 .. posted \subseteq Messages /\ posted <= posted
    BY CopyFacts
  <1>4. Starts(p, j)
    BY <1>1
  <1> HIDE DEF j
  <1>5. JobShape(j, posted) /\ ~ HasPage(j)
    BY <1>2, <1>3, IdsOfNone DEF JobShape, HasPage
  <1>6. Reached(j, Done)
    <2>1. ASSUME NEW m \in 1 .. posted PROVE TimeOf[m] < Now
      <3>1. posted \in 1 .. posted /\ posted # 0 /\ m <= posted
        BY <1>3
      <3>2. TimeOf[m] <= TimeOf[posted] /\ TimeOf[m] \in Nat /\ TimeOf[posted] \in Nat
        BY <1>3, <3>1, CacheConstants
      <3> QED
        BY <3>1, <3>2 DEF Now
    <2> QED
      BY <1>2, <2>1 DEF Reached
  <1> QED
    BY <1>2, <1>4, <1>5, <1>6, StartsKeeps

\* The newest n of a set of messages are its upper end, the oldest its lower, and all of it if
\* they are fewer than n.
LEMMA NewestAre ==
  ASSUME NEW P \in Nat, NEW S \in SUBSET (1 .. P), NEW n \in Nat
  PROVE  /\ Newest(n, S) \subseteq S /\ Oldest(n, S) \subseteq S
         /\ \A a \in Newest(n, S), m \in S : a < m => m \in Newest(n, S)
         /\ \A a \in Oldest(n, S), m \in S : m < a => m \in Oldest(n, S)
         /\ Oldest(0, S) = {} /\ Newest(0, S) = {}
         /\ Cardinality(Newest(n, S)) < n => Newest(n, S) = S
  <1>0. IsFiniteSet(1 .. P) /\ \A x \in S : x \in 1 .. P /\ x \in Nat /\ x <= P
    BY FS_Interval
  <1>1. IsFiniteSet(S) /\ S \subseteq Nat
    BY <1>0, FS_Subset
  <1>2. ASSUME NEW A \in SUBSET S, NEW B \in SUBSET S, A \subseteq B
        PROVE  Cardinality(A) \in Nat /\ Cardinality(B) \in Nat /\ Cardinality(A) <= Cardinality(B)
    BY <1>1, <1>2, FS_Subset, FS_CardinalityType
  <1> DEFINE Above(m) == { k \in S : k > m }
             Below(m) == { k \in S : k < m }
  <1>3. \A m : Above(m) \in SUBSET S /\ Below(m) \in SUBSET S
    OBVIOUS
  <1>4. ASSUME NEW a \in Newest(n, S), NEW m \in S, a < m PROVE m \in Newest(n, S)
    <2>0. a \in S /\ a \in Nat /\ m \in Nat
      BY <1>1 DEF Newest
    <2>1. Above(m) \subseteq Above(a)
      <3>1. ASSUME NEW k \in S, k > m PROVE k > a
        <4>1. k \in Nat
          BY <1>1
        <4> QED
          BY <1>4, <2>0, <3>1, <4>1
      <3> QED
        BY <3>1
    <2>2. Cardinality(Above(m)) <= Cardinality(Above(a)) /\ Cardinality(Above(m)) \in Nat /\ Cardinality(Above(a)) \in Nat
      BY <1>2, <1>3, <2>1
    <2>3. Cardinality(Above(a)) < n
      BY DEF Newest
    <2>4. Cardinality(Above(m)) < n
      BY <2>2, <2>3
    <2> QED
      BY <2>4 DEF Newest
  <1>5. ASSUME NEW a \in Oldest(n, S), NEW m \in S, m < a PROVE m \in Oldest(n, S)
    <2>0. a \in S /\ a \in Nat /\ m \in Nat
      BY <1>1 DEF Oldest
    <2>1. Below(m) \subseteq Below(a)
      <3>1. ASSUME NEW k \in S, k < m PROVE k < a
        <4>1. k \in Nat
          BY <1>1
        <4> QED
          BY <1>5, <2>0, <3>1, <4>1
      <3> QED
        BY <3>1
    <2>2. Cardinality(Below(m)) <= Cardinality(Below(a)) /\ Cardinality(Below(m)) \in Nat /\ Cardinality(Below(a)) \in Nat
      BY <1>2, <1>3, <2>1
    <2>3. Cardinality(Below(a)) < n
      BY DEF Oldest
    <2>4. Cardinality(Below(m)) < n
      BY <2>2, <2>3
    <2> QED
      BY <2>4 DEF Oldest
  <1>6. Oldest(0, S) = {} /\ Newest(0, S) = {}
    <2>1. \A m : Cardinality(Above(m)) \in Nat /\ Cardinality(Below(m)) \in Nat
      BY <1>2, <1>3
    <2>2. \A m : ~(Cardinality(Above(m)) < 0) /\ ~(Cardinality(Below(m)) < 0)
      BY <2>1
    <2> QED
      BY <2>2 DEF Oldest, Newest
  <1>7. ASSUME Cardinality(Newest(n, S)) < n PROVE Newest(n, S) = S
    <2> DEFINE R == S \ Newest(n, S)
    <2>1. Newest(n, S) \in SUBSET S
      BY DEF Newest
    <2> SUFFICES ASSUME R # {} PROVE FALSE
      BY <2>1
    <2>2. R \subseteq Nat /\ \A x \in R : x <= P
      BY <1>0
    <2>3. Max(R) \in R /\ \A x \in R : x <= Max(R)
      <3> HIDE DEF R
      <3> QED
        BY <2>2, GreatestOf
    <2> DEFINE m == Max(R)
    <2>4. m \in S /\ m \in Nat /\ m \notin Newest(n, S) /\ \A k \in S : k \in Newest(n, S) \/ k <= m
      BY <1>1, <2>3
    <2> HIDE DEF m
    <2>5. Above(m) \subseteq Newest(n, S)
      <3>1. ASSUME NEW k \in S, k > m PROVE k \in Newest(n, S)
        <4>1. k \in Nat
          BY <1>1
        <4> QED
          BY <2>4, <3>1, <4>1
      <3> QED
        BY <3>1
    <2>6. Cardinality(Above(m)) <= Cardinality(Newest(n, S)) /\ Cardinality(Above(m)) \in Nat
          /\ Cardinality(Newest(n, S)) \in Nat
      BY <1>2, <1>3, <2>1, <2>5
    <2>7. Cardinality(Above(m)) < n
      BY <1>7, <2>6
    <2> QED
      BY <2>4, <2>7 DEF Newest
  <1>8. Newest(n, S) \subseteq S /\ Oldest(n, S) \subseteq S
    BY DEF Newest, Oldest
  <1> QED
    BY <1>4, <1>5, <1>6, <1>7, <1>8

\* What a window MAX answers with has no hole.
LEMMA WindowHasNoHole ==
  ASSUME CacheInv, NEW j \in JobType
  PROVE  WindowOf(j) \subseteq Live /\ NoHole(WindowOf(j), posted, gone)
  <1> DEFINE S == { m \in Live : TimeOf[m] <= j.from }
             R == { m \in Live : IF j.back = 0 THEN TimeOf[m] >= j.from ELSE TimeOf[m] > j.from }
  <1>1. posted \in Nat /\ 1 .. posted \subseteq Messages /\ Live = (1 .. posted) \ gone
    BY CopyFacts DEF Live
  <1>2. S \in SUBSET (1 .. posted) /\ R \in SUBSET (1 .. posted) /\ S \subseteq Live /\ R \subseteq Live
    BY <1>1
  <1>3. j.back \in Nat /\ j.forth \in Nat /\ j.from \in Nat
    <2>1. j.back \in 0 .. Page /\ j.forth \in 0 .. Page + 1 /\ j.from \in Clock
      BY DEF JobType
    <2>2. Page \in Nat /\ Clock \subseteq Nat
      BY CacheConstants
    <2>3. j.from \in Nat
      BY <2>1, <2>2
    <2>4. j.back \in Nat
      BY <2>1, <2>2
    <2>5. j.forth \in Nat
      BY <2>1, <2>2
    <2> QED
      BY <2>3, <2>4, <2>5
  <1>4. WindowOf(j) = Newest(j.back, S) \cup Oldest(j.forth, R)
    BY DEF WindowOf
  <1>5. \A m \in Live : m \in Messages /\ m \in Nat /\ TimeOf[m] \in Nat /\ \A k \in Live : m <= k => TimeOf[m] <= TimeOf[k]
    BY <1>1, CacheConstants
  <1>6. \A m \in Live : m \in S <=> TimeOf[m] <= j.from
    OBVIOUS
  <1>7. \A m \in Live : m \in R <=> IF j.back = 0 THEN TimeOf[m] >= j.from ELSE TimeOf[m] > j.from
    OBVIOUS
  <1> HIDE DEF S, R
  <1>8. Newest(j.back, S) \subseteq S /\ Oldest(j.forth, R) \subseteq R
        /\ (\A a \in Newest(j.back, S), m \in S : a < m => m \in Newest(j.back, S))
        /\ (\A a \in Oldest(j.forth, R), m \in R : m < a => m \in Oldest(j.forth, R))
        /\ (j.back = 0 => Newest(j.back, S) = {})
    <2>1. /\ Newest(j.back, S) \subseteq S /\ Newest(0, S) = {}
          /\ \A a \in Newest(j.back, S), m \in S : a < m => m \in Newest(j.back, S)
      BY <1>1, <1>2, <1>3, NewestAre
    <2>2. /\ Oldest(j.forth, R) \subseteq R
          /\ \A a \in Oldest(j.forth, R), m \in R : m < a => m \in Oldest(j.forth, R)
      BY <1>1, <1>2, <1>3, NewestAre
    <2>3. j.back = 0 => Newest(j.back, S) = {}
      BY <2>1
    <2> QED
      BY <2>1, <2>2, <2>3
  <1>9. ASSUME NEW a \in WindowOf(j), NEW b \in WindowOf(j), NEW m \in Live, a < m, m < b
        PROVE  m \in WindowOf(j)
    <2>1. a \in Live /\ b \in Live
      BY <1>2, <1>4, <1>8
    <2>2. TimeOf[a] <= TimeOf[m] /\ TimeOf[m] <= TimeOf[b] /\ TimeOf[m] \in Nat /\ TimeOf[a] \in Nat /\ TimeOf[b] \in Nat
      BY <1>5, <1>9, <2>1
    <2>3. CASE a \in Newest(j.back, S) /\ b \in Newest(j.back, S)
      <3>1. TimeOf[b] <= j.from
        BY <1>6, <1>8, <2>1, <2>3
      <3>2. m \in S
        BY <1>3, <1>6, <2>2, <3>1
      <3> QED
        BY <1>4, <1>8, <1>9, <2>3, <3>2
    <2>4. CASE a \in Newest(j.back, S) /\ b \in Oldest(j.forth, R)
      <3>1. CASE m \in S
        BY <1>4, <1>8, <1>9, <2>4, <3>1
      <3>2. CASE m \notin S
        <4>1. TimeOf[m] > j.from
          BY <1>3, <1>6, <2>2, <3>2
        <4>2. m \in R
          BY <1>3, <1>7, <2>2, <4>1
        <4> QED
          BY <1>4, <1>8, <1>9, <2>4, <4>2
      <3> QED
        BY <3>1, <3>2
    <2>5. CASE a \in Oldest(j.forth, R) /\ b \in Newest(j.back, S)
      <3>1. j.back # 0 /\ TimeOf[a] > j.from /\ TimeOf[b] <= j.from
        BY <1>6, <1>7, <1>8, <2>1, <2>5
      <3> QED
        BY <1>3, <2>2, <3>1
    <2>6. CASE a \in Oldest(j.forth, R) /\ b \in Oldest(j.forth, R)
      <3>1. IF j.back = 0 THEN TimeOf[a] >= j.from ELSE TimeOf[a] > j.from
        BY <1>7, <1>8, <2>1, <2>6
      <3>2. m \in R
        BY <1>3, <1>7, <2>2, <3>1
      <3> QED
        BY <1>4, <1>8, <1>9, <2>6, <3>2
    <2> QED
      BY <1>4, <2>3, <2>4, <2>5, <2>6
  <1>10. WindowOf(j) \subseteq Live
    BY <1>2, <1>4, <1>8
  <1> QED
    BY <1>1, <1>9, <1>10 DEF NoHole

\* What the answer to a backup's request brings is the newest there is up to the cursor.
LEMMA BackupWindow ==
  ASSUME CacheInv, NEW j \in JobType, j.back = Page, j.forth = 0, j.from = j.cursor, j.base <= posted
  PROVE  /\ NewestHere(WindowOf(j), j.base, j.cursor, gone)
         /\ Cardinality(WindowOf(j)) < Page =>
              /\ \A m \in Live : TimeOf[m] <= j.cursor <=> m \in WindowOf(j)
              /\ AllHere(WindowOf(j), j.base, j.cursor, gone)
              /\ NoneBefore(WindowOf(j), posted, gone)
  <1> DEFINE S == { m \in Live : TimeOf[m] <= j.cursor }
             R == { m \in Live : IF j.back = 0 THEN TimeOf[m] >= j.from ELSE TimeOf[m] > j.from }
  <1>1. posted \in Nat /\ 1 .. posted \subseteq Messages /\ Live = (1 .. posted) \ gone /\ Page \in Nat
    BY CopyFacts, CacheConstants DEF Live
  <1>2. S \in SUBSET (1 .. posted) /\ R \in SUBSET (1 .. posted)
    BY <1>1
  <1>3. \A m \in (1 .. j.base) \ gone : m \in Live
    <2>1. j.base \in Nat
      BY CacheConstants DEF JobType, Size
    <2> QED
      BY <1>1, <2>1
  <1>4. WindowOf(j) = Newest(Page, S) \cup Oldest(0, R)
    BY DEF WindowOf
  <1>5. \A m \in Live : m \in S <=> TimeOf[m] <= j.cursor
    OBVIOUS
  <1>6. S \subseteq Live
    OBVIOUS
  <1> HIDE DEF S, R
  <1>7. WindowOf(j) = Newest(Page, S)
    <2>1. Oldest(0, R) = {}
      BY <1>1, <1>2, NewestAre
    <2> QED
      BY <1>4, <2>1
  <1>8. NewestHere(WindowOf(j), j.base, j.cursor, gone)
    <2> SUFFICES ASSUME NEW m \in (1 .. j.base) \ gone, NEW a \in WindowOf(j), a < m, TimeOf[m] <= j.cursor
                 PROVE  m \in WindowOf(j)
      BY DEF NewestHere
    <2>1. m \in S
      BY <1>3, <1>5
    <2> QED
      BY <1>1, <1>2, <1>7, <2>1, NewestAre
  <1>9. ASSUME Cardinality(WindowOf(j)) < Page
        PROVE  /\ \A m \in Live : TimeOf[m] <= j.cursor <=> m \in WindowOf(j)
               /\ AllHere(WindowOf(j), j.base, j.cursor, gone)
               /\ NoneBefore(WindowOf(j), posted, gone)
    <2>1. WindowOf(j) = S
      BY <1>1, <1>2, <1>7, <1>9, NewestAre
    <2>2. AllHere(WindowOf(j), j.base, j.cursor, gone)
      BY <1>3, <1>5, <2>1 DEF AllHere
    <2>3. NoneBefore(WindowOf(j), posted, gone)
      <3> SUFFICES ASSUME NEW a \in S, NEW m \in Live, m < a PROVE m \in S
        BY <1>1, <2>1 DEF NoneBefore
      <3>1. a \in Messages /\ m \in Messages /\ a \in Nat /\ m \in Nat
        BY <1>1, <1>6, CacheConstants
      <3>2. TimeOf[m] <= TimeOf[a] /\ TimeOf[m] \in Nat /\ TimeOf[a] \in Nat
        BY <3>1, CacheConstants
      <3>3. TimeOf[a] <= j.cursor
        BY <1>5, <1>6
      <3>4. j.cursor \in Nat
        BY CacheConstants DEF JobType
      <3> QED
        BY <1>5, <3>2, <3>3, <3>4
    <2> QED
      BY <1>5, <2>1, <2>2, <2>3
  <1> QED
    BY <1>8, <1>9

LEMMA AnswerKeeps == ASSUME CacheInv, CacheTyped', NEW p \in Readers, Answer(p) PROVE CacheInv'
  <1> DEFINE ids == WindowOf(job[p])
             page == [m \in Messages |-> IF m \in ids THEN version[m] ELSE Absent]
             j == [job[p] EXCEPT !.at = "rows", !.page = page, !.left = ids, !.from = 0, !.back = 0, !.forth = 0]
             old == job[p]
  <1>1. /\ old \in JobType /\ JobShape(old, posted) /\ old.at = "asked"
        /\ ~ torn => ReadSoFar(old, posted, Done) /\ Reached(old, Done) /\ ToldTruth(told[p], Done)
    BY ReaderFacts DEF Answer
  <1>2. ids \subseteq Live /\ NoHole(ids, posted, gone)
    BY <1>1, WindowHasNoHole
  <1>3. Live = (1 .. posted) \ gone /\ 1 .. posted \subseteq Messages /\ version \in [Messages -> 0 .. MaxVersion]
    BY CopyFacts, CacheTypes DEF Live
  <1>4. Ids(page) = ids
    <2>1. \A m \in Messages : version[m] # Absent
      BY <1>3, CacheConstants DEF Absent
    <2> QED
      BY <1>2, <1>3, <2>1 DEF Ids
  <1>5. /\ j.at = "rows" /\ j.page = page /\ j.left = ids /\ j.base = old.base /\ j.backup = old.backup
        /\ j.cursor = old.cursor /\ j.pages = old.pages /\ j.forth = 0
    BY <1>1 DEF JobType
  <1>6. job' = [job EXCEPT ![p] = j] /\ UNCHANGED << posted, gone, rows, ranges, clearing, torn, told >>
    BY DEF Answer
  <1> HIDE DEF page, j, ids
  <1>7. JobShape(j, posted)
    BY <1>1, <1>2, <1>3, <1>4, <1>5 DEF JobShape
  <1>8. old.backup => old.back = Page /\ old.forth = 0 /\ old.from = old.cursor /\ old.base <= posted
    BY <1>1 DEF JobShape
  <1>9. PageIsWhole(j, posted, gone)
    BY <1>1, <1>2, <1>4, <1>5, <1>8, BackupWindow DEF PageIsWhole, ids
  <1>10. ASSUME ~ torn PROVE ReadSoFar(j, posted, Done) /\ Reached(j, Done)
    <2>1. Reached(j, Done)
      BY <1>1, <1>5, <1>10 DEF Reached
    <2>2. old.backup /\ old.pages > 0 => old.cursor \in TimesOf(Done)
      BY <1>1, <1>10 DEF ReadSoFar
    <2>3. ASSUME old.backup, ids = {} PROVE FromHere(old.cursor, posted, Done)
      <3>1. Cardinality(ids) < Page
        BY <2>3, FS_EmptySet, CacheConstants
      <3>2. \A m \in Live : ~(TimeOf[m] <= old.cursor)
        BY <1>1, <1>8, <2>3, <3>1, BackupWindow DEF ids
      <3>3. (1 .. posted) \ Done \subseteq Live
        BY <1>3 DEF Done
      <3>4. old.cursor \in Nat /\ \A m \in Live : TimeOf[m] \in Nat
        BY <1>1, <1>3, CacheConstants DEF JobType
      <3> QED
        BY <3>2, <3>3, <3>4 DEF FromHere
    <2>4. ReadSoFar(j, posted, Done)
      BY <1>4, <1>5, <2>2, <2>3 DEF ReadSoFar
    <2> QED
      BY <2>1, <2>4
  <1>11. ReaderInv(j, told[p], posted, gone, Done, ~ torn')
    BY <1>1, <1>6, <1>7, <1>9, <1>10 DEF ReaderInv
  <1>12. told' = [told EXCEPT ![p] = told[p]]
    BY <1>6, NothingTold
  <1>13. ~ torn' /\ clearing = "rows" => j = Idle
    BY <1>1, <1>6 DEF CacheInv, ClearIsAlone, Idle
  <1> QED
    BY <1>6, <1>11, <1>12, <1>13, QuietlyKeeps

LEMMA WriteRowKeeps == ASSUME CacheInv, CacheTyped', NEW p \in Readers, WriteRow(p) PROVE CacheInv'
  <1> DEFINE m == Min(job[p].left)
             j == [job[p] EXCEPT !.left = @ \ {m}]
             old == job[p]
  <1>1. /\ old \in JobType /\ JobShape(old, posted) /\ PageIsWhole(old, posted, gone) /\ old.at = "rows"
        /\ ~ torn => ReadSoFar(old, posted, Done) /\ Reached(old, Done) /\ ToldTruth(told[p], Done)
    BY ReaderFacts DEF WriteRow
  <1>2. /\ posted \in Nat /\ 1 .. posted \subseteq Messages /\ rows \in PageContents /\ old.page \in PageContents
        /\ Held \subseteq 1 .. posted /\ Done \subseteq 1 .. posted
    BY <1>1, CopyFacts, CacheTypes DEF JobType, PageContents
  <1>3. m \in old.left /\ m \in Ids(old.page) /\ m \in 1 .. posted /\ m \in Messages
    <2>1. old.left \subseteq Nat /\ old.left # {}
      BY <1>1, <1>2, CacheConstants DEF JobShape, WriteRow
    <2>2. m \in old.left
      BY <2>1, LeastOf
    <2> QED
      BY <1>1, <1>2, <2>2 DEF JobShape
  <1>4. /\ job' = [job EXCEPT ![p] = j] /\ UNCHANGED << posted, gone, ranges, clearing, torn, told >>
        /\ rows' = [rows EXCEPT ![m] = Upsert(rows[m], old.page[m])]
    BY DEF WriteRow
  <1>5. /\ j.at = "rows" /\ j.page = old.page /\ j.left = old.left \ {m} /\ j.base = old.base /\ j.backup = old.backup
        /\ j.cursor = old.cursor /\ j.pages = old.pages /\ j.forth = old.forth
    BY <1>1 DEF JobType
  <1> HIDE DEF m, j
  <1>6. Held' = Held \cup {m} /\ Done' = Done \cup {m}
    <2>1. old.page[m] \in Absent .. MaxVersion /\ old.page[m] # Absent /\ rows[m] \in Absent .. MaxVersion
      BY <1>2, <1>3 DEF Ids, PageContents
    <2>2. Upsert(rows[m], old.page[m]) # Absent
      BY <2>1, CacheConstants DEF Upsert, Absent
    <2>3. \A k \in Messages : rows'[k] = IF k = m THEN Upsert(rows[m], old.page[m]) ELSE rows[k]
      BY <1>2, <1>4 DEF PageContents
    <2>4. Held' = Held \cup {m}
      BY <1>3, <2>2, <2>3 DEF Held
    <2> QED
      BY <1>4, <2>4 DEF Done
  <1>7. Grown(posted, gone, Done, posted', gone', Done') /\ Held' \subseteq 1 .. posted'
    <2>1. posted' = posted /\ gone' = gone /\ posted <= posted
      BY <1>2, <1>4
    <2>2. Done' \subseteq 1 .. posted /\ Done \subseteq Done' /\ Held' \subseteq 1 .. posted
      BY <1>2, <1>3, <1>6
    <2> QED
      BY <1>2, <2>1, <2>2 DEF Grown
  <1>8. JobShape(j, posted) /\ PageIsWhole(j, posted, gone)
    BY <1>1, <1>5 DEF JobShape, PageIsWhole, HasPage
  <1>9. ASSUME ~ torn PROVE ReadSoFar(j, posted, Done') /\ Reached(j, Done') /\ ToldTruth(told[p], Done')
    <2>1. ReadSoFar(old, posted, Done') /\ Reached(old, Done') /\ ToldTruth(told[p], Done')
      BY <1>1, <1>4, <1>7, <1>9, ReadGrows, ToldGrows, ReaderFacts
    <2>2. Ids(j.page) \ j.left \subseteq Done'
      BY <1>1, <1>5, <1>6, <2>1 DEF ReadSoFar, HasPage
    <2>3. ReadSoFar(j, posted, Done')
      BY <1>1, <1>5, <2>1, <2>2 DEF ReadSoFar, HasPage
    <2>4. Reached(j, Done')
      BY <1>1, <1>5, <2>1 DEF Reached
    <2> QED
      BY <2>1, <2>3, <2>4
  <1>10. ReaderInv(j, told[p], posted', gone', Done', ~ torn')
    BY <1>4, <1>8, <1>9 DEF ReaderInv
  <1>11. told' = [told EXCEPT ![p] = told[p]]
    BY <1>4, NothingTold
  <1>12. Whole' => \A f \in HeldFroms' : RangeIsRead(f, ranges'[f], posted', Done')
    BY <1>4, <1>7, RangesGrow DEF Whole
  <1>13. ~ torn' /\ clearing = "rows" => j = Idle
    BY <1>1, <1>4 DEF CacheInv, ClearIsAlone, Idle
  <1> QED
    BY <1>4, <1>7, <1>10, <1>11, <1>12, <1>13, ReaderKeeps

LEMMA FinishedPage ==
  ASSUME CacheInv, NEW p \in Readers, ~ torn, job[p].left = {}, HasPage(job[p])
  PROVE  Ids(job[p].page) \subseteq Done
  BY ReaderFacts DEF ReadSoFar

\* The stretch of a written page.
LEMMA PageRange ==
  ASSUME CacheInv, NEW p \in Readers, ~ torn, job[p].left = {}, HasPage(job[p]), Ids(job[p].page) # {}
  PROVE  RangeIsRead(TimeOf[Min(Ids(job[p].page))], TimeOf[Max(Ids(job[p].page))], posted, Done)
  <1> DEFINE ids == Ids(job[p].page)
             a == Min(ids)
             b == Max(ids)
  <1>1. job[p] \in JobType /\ JobShape(job[p], posted) /\ PageIsWhole(job[p], posted, gone) /\ job[p].page \in PageContents
    BY ReaderFacts DEF JobType, PageContents
  <1>2. ids \subseteq Done /\ ids \subseteq Messages /\ NoHole(ids, posted, gone)
    BY <1>1, FinishedPage, IdsTyped DEF PageIsWhole
  <1>3. a \in ids /\ b \in ids /\ \A m \in ids : a <= m /\ m <= b
    BY <1>1, IdsTyped
  <1>4. a \in Messages /\ b \in Messages /\ a \in Nat /\ b \in Nat
        /\ 1 .. posted \subseteq Messages /\ (1 .. posted) \ Done \subseteq (1 .. posted) \ gone
    BY <1>2, <1>3, CopyFacts, CacheConstants DEF Done
  <1> HIDE DEF ids, a, b
  <1>5. TimeOf[a] <= TimeOf[b] /\ TimeOf[a] \in Nat /\ TimeOf[b] \in Nat
        /\ TimeOf[a] \in TimesOf(Done) /\ TimeOf[b] \in TimesOf(Done)
    BY <1>2, <1>3, <1>4, CacheConstants DEF TimesOf
  <1>6. ASSUME NEW m \in (1 .. posted) \ Done
        PROVE  m \in Messages /\ m \in Nat /\ TimeOf[m] \in Nat
               /\ ((m < a /\ TimeOf[m] <= TimeOf[a]) \/ (b < m /\ TimeOf[b] <= TimeOf[m]))
    <2>1. m \in Messages /\ m \in Nat /\ TimeOf[m] \in Nat /\ m \notin ids
      BY <1>2, <1>4, CacheConstants
    <2>2. ~(a < m /\ m < b)
      BY <1>2, <1>3, <1>4, <2>1 DEF NoHole
    <2>3. m # a /\ m # b
      BY <1>3, <2>1
    <2>4. m < a \/ b < m
      BY <1>4, <2>1, <2>2, <2>3
    <2>5. (m < a => m <= a) /\ (b < m => b <= m)
      BY <1>4, <2>1
    <2>6. (m < a => TimeOf[m] <= TimeOf[a]) /\ (b < m => TimeOf[b] <= TimeOf[m])
      BY <1>4, <2>1, <2>5, CacheConstants
    <2> QED
      BY <2>1, <2>4, <2>6
  <1>7. ASSUME NEW m \in (1 .. posted) \ Done
        PROVE  /\ ~(TimeOf[a] < TimeOf[m] /\ TimeOf[m] < TimeOf[b])
               /\ TimeOf[a] < TimeOf[b] /\ TimeOf[m] = TimeOf[a] => NotLast(m)
               /\ TimeOf[a] < TimeOf[b] /\ TimeOf[m] = TimeOf[b] => NotFirst(m)
    <2>1. CASE m < a /\ TimeOf[m] <= TimeOf[a]
      <3>1. TimeOf[m] = TimeOf[a] => NotLast(m)
        BY <1>4, <2>1 DEF NotLast
      <3> QED
        BY <1>5, <1>6, <2>1, <3>1
    <2>2. CASE b < m /\ TimeOf[b] <= TimeOf[m]
      <3>1. TimeOf[m] = TimeOf[b] => NotFirst(m)
        BY <1>4, <2>2 DEF NotFirst
      <3> QED
        BY <1>5, <1>6, <2>2, <3>1
    <2> QED
      BY <1>6, <2>1, <2>2
  <1>8. RangeIsRead(TimeOf[a], TimeOf[b], posted, Done)
    BY <1>5, <1>7 DEF RangeIsRead
  <1> QED
    BY <1>8 DEF a, b, ids

\* A stretch written where the copy is whole leaves every stretch whole.
LEMMA ExtendKeeps ==
  ASSUME CacheInv, Whole, NEW from \in Clock, NEW to \in Clock, Extend(from, to),
         RangeIsRead(from, to, posted, Done)
  PROVE  \A f \in HeldFroms' : RangeIsRead(f, ranges'[f], posted, Done)
  <1>1. ranges \in [Clock -> Clock \cup {Absent}]
    BY CopyFacts
  <1>2. /\ ranges'[from] = IF to > ranges[from] THEN to ELSE ranges[from]
        /\ \A f \in Clock : f # from => ranges'[f] = ranges[f]
    BY <1>1, Extended
  <1>3. ASSUME NEW f \in HeldFroms', f # from PROVE RangeIsRead(f, ranges'[f], posted, Done)
    <2>1. f \in HeldFroms /\ ranges'[f] = ranges[f]
      BY <1>2, <1>3 DEF HeldFroms
    <2> QED
      BY <2>1 DEF CacheInv
  <1>4. ASSUME from \in HeldFroms' PROVE RangeIsRead(from, ranges'[from], posted, Done)
    <2>1. CASE to > ranges[from]
      BY <1>2, <2>1
    <2>2. CASE ~(to > ranges[from])
      <3>1. ranges[from] # Absent
        BY <2>2, CacheConstants DEF Absent
      <3>2. from \in HeldFroms /\ ranges'[from] = ranges[from]
        BY <1>2, <2>2, <3>1 DEF HeldFroms
      <3> QED
        BY <3>2 DEF CacheInv
    <2> QED
      BY <2>1, <2>2
  <1> QED
    BY <1>3, <1>4

LEMMA CopyUnmoved ==
  ASSUME CacheInv, UNCHANGED << posted, gone, rows >>
  PROVE  Held' = Held /\ Done' = Done /\ Grown(posted, gone, Done, posted', gone', Done') /\ Held' \subseteq 1 .. posted'
  <1>1. Held' = Held /\ Done' = Done
    BY DEF Held, Done
  <1> QED
    BY <1>1, CopyFacts

LEMMA WriteRangeKeeps == ASSUME CacheInv, CacheTyped', NEW p \in Readers, WriteRange(p) PROVE CacheInv'
  <1> DEFINE j == [job[p] EXCEPT !.at = "range"]
             old == job[p]
             from == TimeOf[Min(Ids(old.page))]
             to == TimeOf[Max(Ids(old.page))]
  <1>1. /\ old \in JobType /\ JobShape(old, posted) /\ PageIsWhole(old, posted, gone) /\ old.at = "rows"
        /\ ~ torn => ReadSoFar(old, posted, Done) /\ Reached(old, Done) /\ ToldTruth(told[p], Done)
        /\ old.left = {} /\ Ids(old.page) # {} /\ old.page \in PageContents
    BY ReaderFacts DEF WriteRange, JobType, PageContents
  <1>2. from \in Clock /\ to \in Clock
    BY <1>1, IdsTyped
  <1>3. /\ job' = [job EXCEPT ![p] = j] /\ UNCHANGED << posted, gone, rows, clearing, torn, told >>
        /\ Extend(from, to)
    BY DEF WriteRange
  <1>4. /\ j.at = "range" /\ j.page = old.page /\ j.left = {} /\ j.base = old.base /\ j.backup = old.backup
        /\ j.cursor = old.cursor /\ j.pages = old.pages /\ j.forth = old.forth
    BY <1>1 DEF JobType
  <1>5. Whole' => Whole /\ ~ torn
    BY <1>3 DEF Whole
  <1>6. Whole => RangeIsRead(from, to, posted, Done)
    BY <1>1, PageRange DEF Whole, HasPage
  <1> HIDE DEF j, from, to
  <1>7. Whole' => \A f \in HeldFroms' : RangeIsRead(f, ranges'[f], posted', Done')
    BY <1>2, <1>3, <1>5, <1>6, ExtendKeeps, CopyUnmoved
  <1>8. ReaderInv(j, told[p], posted, gone, Done, ~ torn)
    <2>1. JobShape(j, posted) /\ PageIsWhole(j, posted, gone)
      BY <1>1, <1>4 DEF JobShape, PageIsWhole, HasPage
    <2>2. ~ torn => ReadSoFar(j, posted, Done) /\ Reached(j, Done)
      BY <1>1, <1>4 DEF ReadSoFar, Reached, HasPage
    <2> QED
      BY <1>1, <2>1, <2>2 DEF ReaderInv
  <1>9. ReaderInv(j, told[p], posted', gone', Done', ~ torn')
    BY <1>3, <1>8, CopyUnmoved
  <1>10. told' = [told EXCEPT ![p] = told[p]]
    BY <1>3, NothingTold
  <1>11. ~ torn' /\ clearing = "rows" => j = Idle
    BY <1>1, <1>3 DEF CacheInv, ClearIsAlone, Idle
  <1> QED
    BY <1>3, <1>7, <1>9, <1>10, <1>11, CopyUnmoved, ReaderKeeps

\* The answers of a backup that ends.
LEMMA EndsKeeps ==
  ASSUME CacheInv, CacheTyped', NEW p \in Readers, NEW complete \in BOOLEAN, NEW start \in BOOLEAN,
         BackupEnds(p, complete, start), UNCHANGED << posted, gone, rows, ranges, clearing, torn >>,
         ~ torn /\ complete =>
           \A m \in (1 .. job[p].base) \ Done :
             \/ Amid(m)
             \/ /\ ~ start
                /\ \/ job[p].since # Absent /\ TimeOf[m] <= job[p].since
                   \/ job[p].last > 0 /\ Cardinality({ k \in Done : k > m }) >= job[p].last
  PROVE  CacheInv'
  <1> DEFINE t == [complete |-> complete, start |-> start, since |-> job[p].since,
                   last |-> job[p].last, base |-> job[p].base]
  <1>1. job' = [job EXCEPT ![p] = Idle] /\ told' = [told EXCEPT ![p] = t]
    BY BackupTells DEF CacheInv
  <1>2. ~ torn => ToldTruth(t, Done)
    BY DEF ToldTruth
  <1> HIDE DEF t
  <1> QED
    BY <1>1, <1>2, IdleKeeps

LEMMA ReachedStartKeeps == ASSUME CacheInv, CacheTyped', NEW p \in Readers, ReachedStart(p) PROVE CacheInv'
  <1> DEFINE old == job[p]
             t == [complete |-> TRUE, start |-> TRUE, since |-> old.since, last |-> old.last, base |-> old.base]
  <1>1. /\ old \in JobType /\ old.at = "start" /\ old.cursor \in Clock /\ 0 \in Clock
        /\ ~ torn => ReadSoFar(old, posted, Done) /\ Reached(old, Done)
        /\ UNCHANGED << posted, gone, rows, clearing, torn >> /\ Extend(0, old.cursor)
    BY ReaderFacts, CacheConstants DEF ReachedStart, JobType
  <1>2. job' = [job EXCEPT ![p] = Idle] /\ told' = [told EXCEPT ![p] = t]
    BY BackupTells DEF CacheInv, ReachedStart
  <1>3. old.backup
    <2>1. JobShape(old, posted)
      BY ReaderFacts
    <2> QED
      BY <1>1, <2>1 DEF JobShape
  <1>4. ~ torn => ToldTruth(t, Done)
    BY <1>1, <1>3 DEF Reached, ToldTruth
  <1>5. ReaderInv(Idle, t, posted', gone', Done', ~ torn')
    <2>1. (~ torn') \in BOOLEAN /\ posted \in Nat
      BY <1>1, CopyFacts, CacheTypes
    <2> QED
      BY <1>1, <1>4, <2>1, IdleFits, CopyUnmoved
  <1>6. ASSUME ~ torn PROVE RangeIsRead(0, old.cursor, posted, Done)
    <2>1. old.cursor \in TimesOf(Done) /\ FromHere(old.cursor, posted, Done) /\ old.cursor \in Nat
      BY <1>1, <1>6, CacheConstants DEF ReadSoFar
    <2>2. \A m \in (1 .. posted) \ Done : TimeOf[m] \in Nat \ {0}
      BY CopyFacts, CacheConstants
    <2> QED
      BY <2>1, <2>2 DEF RangeIsRead, FromHere
  <1>7. Whole' => \A f \in HeldFroms' : RangeIsRead(f, ranges'[f], posted', Done')
    BY <1>1, <1>6, ExtendKeeps, CopyUnmoved DEF Whole
  <1> HIDE DEF t
  <1> QED
    BY <1>1, <1>2, <1>5, <1>7, CopyUnmoved, ReaderKeeps

\* A message a window misses is of a millisecond in which one stretch ends and another begins.
LEMMA InWindow ==
  ASSUME CacheInv, Whole, NEW w \in Windows, NEW m \in (1 .. posted) \ Done
  PROVE  /\ w.from < TimeOf[m] /\ TimeOf[m] < w.to => Amid(m) /\ TimeOf[m] \in TimesOf(Done)
         /\ w.from < w.to /\ TimeOf[m] = w.from => NotLast(m)
         /\ w.from < w.to /\ TimeOf[m] = w.to => NotFirst(m)
         /\ w.from \in Clock /\ w.to \in Clock /\ w.from <= w.to
         /\ w.from = 0 \/ w.from \in TimesOf(Done)
         /\ w.to \in TimesOf(Done)
  <1>1. ranges \in [Clock -> Clock \cup {Absent}] /\ \A f \in HeldFroms : RangeIsRead(f, ranges[f], posted, Done)
    BY CopyFacts DEF CacheInv
  <1>2. \A f \in HeldFroms : f <= ranges[f]
    BY <1>1 DEF RangeIsRead
  <1>3. m \in Messages /\ TimeOf[m] \in Nat
    BY CopyFacts, CacheConstants
  <1>4. w.from \in Clock /\ w.to \in Clock /\ w.from <= w.to /\ w.from \in HeldFroms
    BY <1>1, <1>2, AWindow, WindowEnds, WindowEdges
  <1>5. ASSUME w.from < TimeOf[m], TimeOf[m] < w.to PROVE Amid(m) /\ TimeOf[m] \in TimesOf(Done)
    <2>1. ~ \E g \in HeldFroms : g < TimeOf[m] /\ TimeOf[m] < ranges[g]
      BY <1>1 DEF RangeIsRead
    <2>2. TimeOf[m] \in HeldFroms /\ TimeOf[m] < ranges[TimeOf[m]] /\ \E g \in HeldFroms : g < TimeOf[m] /\ ranges[g] = TimeOf[m]
      BY <1>1, <1>3, <1>5, <2>1, InsideWindow
    <2>3. PICK g \in HeldFroms : g < TimeOf[m] /\ ranges[g] = TimeOf[m]
      BY <2>2
    <2>4. NotLast(m)
      BY <1>1, <2>2 DEF RangeIsRead
    <2>5. RangeIsRead(g, ranges[g], posted, Done)
      BY <1>1
    <2>6. NotFirst(m) /\ TimeOf[m] \in TimesOf(Done)
      BY <2>3, <2>5 DEF RangeIsRead
    <2> QED
      BY <2>4, <2>6 DEF Amid
  <1>6. ASSUME w.from < w.to PROVE (TimeOf[m] = w.from => NotLast(m)) /\ (TimeOf[m] = w.to => NotFirst(m))
    <2>1. w.from < ranges[w.from] /\ \E g \in HeldFroms : g < w.to /\ ranges[g] = w.to
      BY <1>1, <1>2, <1>6, WindowEdges
    <2>2. PICK g \in HeldFroms : g < w.to /\ ranges[g] = w.to
      BY <2>1
    <2>3. RangeIsRead(g, ranges[g], posted, Done) /\ RangeIsRead(w.from, ranges[w.from], posted, Done)
      BY <1>1, <1>4
    <2> QED
      BY <2>1, <2>2, <2>3 DEF RangeIsRead
  <1>7. w.from = 0 \/ w.from \in TimesOf(Done)
    BY <1>1, <1>4 DEF RangeIsRead
  <1>8. w.to \in TimesOf(Done)
    <2>1. PICK e \in UpTo(w.from) : ranges[e] = w.to
      BY <1>1, WindowEnds
    <2>2. e \in HeldFroms
      BY <1>1, <2>1, AWindow, StretchTimes
    <2> QED
      BY <1>1, <2>1, <2>2 DEF RangeIsRead
  <1> QED
    BY <1>4, <1>5, <1>6, <1>7, <1>8

\* Down to the cursor a backup misses nothing but what an end and a beginning left out.
Downto(base, cursor, D) ==
  \A m \in (1 .. base) \ D : Amid(m) \/ TimeOf[m] < cursor \/ (TimeOf[m] = cursor /\ NotLast(m))

LEMMA SteppedOver ==
  ASSUME CacheInv, Whole, NEW base \in 0 .. posted, NEW cursor \in Clock, Downto(base, cursor, Done),
         NEW w \in Windows, w.from <= cursor, cursor <= w.to
  PROVE  Downto(base, w.from, Done)
  <1>1. SUFFICES ASSUME NEW m \in (1 .. base) \ Done
                 PROVE  Amid(m) \/ TimeOf[m] < w.from \/ (TimeOf[m] = w.from /\ NotLast(m))
    BY DEF Downto
  <1>2. m \in (1 .. posted) \ Done /\ m \in Messages
    BY CopyFacts
  <1>3. TimeOf[m] \in Nat /\ cursor \in Nat
    BY <1>2, CacheConstants
  <1>4. w.from \in Nat /\ w.to \in Nat
    BY <1>2, InWindow, CacheConstants
  <1>5. Amid(m) \/ TimeOf[m] < cursor \/ (TimeOf[m] = cursor /\ NotLast(m))
    BY DEF Downto
  <1>6. /\ w.from < TimeOf[m] /\ TimeOf[m] < w.to => Amid(m)
        /\ w.from < w.to /\ TimeOf[m] = w.from => NotLast(m)
        /\ w.from < w.to /\ TimeOf[m] = w.to => NotFirst(m)
    BY <1>2, InWindow
  <1>7. NotFirst(m) /\ NotLast(m) => Amid(m)
    BY DEF Amid
  <1>8. CASE w.from = w.to
    <2>1. cursor = w.from
      BY <1>3, <1>4, <1>8
    <2> QED
      BY <1>5, <2>1
  <1>9. CASE w.from < w.to
    BY <1>3, <1>4, <1>5, <1>6, <1>7, <1>9
  <1>10. w.from <= w.to
    BY <1>3, <1>4
  <1> QED
    BY <1>4, <1>8, <1>9, <1>10

LEMMA TurnKeeps == ASSUME CacheInv, CacheTyped', NEW p \in Readers, BackupTurn(p) PROVE CacheInv'
  <1> DEFINE old == job[p]
             around == { w.from : w \in { w \in Windows : w.from <= old.cursor /\ old.cursor <= w.to } }
             cursor == Min(around \cup {old.cursor})
             j == [old EXCEPT !.at = "asked", !.from = cursor, !.back = Page, !.cursor = cursor]
  <1>1. /\ old \in JobType /\ JobShape(old, posted) /\ old.at = "turn" /\ old.cursor \in Clock /\ old.base \in 0 .. posted
        /\ ~ torn => ReadSoFar(old, posted, Done) /\ Reached(old, Done) /\ ToldTruth(told[p], Done)
        /\ ~ torn => Whole
        /\ old.last \in Nat /\ old.since \in Clock \cup {Absent}
    <2>0. old.at = "turn"
      BY DEF BackupTurn
    <2>4. old # Idle
      BY <2>0 DEF Idle
    <2>1. /\ old \in JobType /\ JobShape(old, posted)
          /\ ~ torn => ReadSoFar(old, posted, Done) /\ Reached(old, Done) /\ ToldTruth(told[p], Done)
          /\ ~ torn /\ old # Idle => Whole
      BY ReaderFacts
    <2>2. old.cursor \in Clock /\ old.base \in Nat /\ old.base <= posted /\ old.last \in Nat
          /\ old.since \in Clock \cup {Absent}
      BY <2>1, CacheConstants DEF JobType, JobShape, Size
    <2>3. old.base \in 0 .. posted
      BY <2>2, CopyFacts
    <2> QED
      BY <2>0, <2>4, <2>1, <2>2, <2>3
  <1>2. \A w \in Windows : w.from \in Clock
    BY AWindow
  <1>3. around \subseteq Clock
    BY <1>2
  <1>4. cursor \in around \cup {old.cursor} /\ cursor \in Clock
    <2>1. (around \cup {old.cursor}) \subseteq Nat /\ (around \cup {old.cursor}) # {}
      BY <1>1, <1>3, CacheConstants
    <2> HIDE DEF around
    <2>2. cursor \in around \cup {old.cursor}
      BY <2>1, LeastOf
    <2> QED
      BY <1>1, <1>3, <2>2
  <1>5. ASSUME NEW c \in around PROVE \E w \in Windows : w.from = c /\ w.from <= old.cursor /\ old.cursor <= w.to
    BY <1>5
  <1>6. UNCHANGED << posted, gone, rows, ranges, clearing, torn >>
    BY DEF BackupTurn
  <1>7. \/ 0 \in around /\ BackupEnds(p, TRUE, TRUE)
        \/ Enough(old, cursor) /\ BackupEnds(p, TRUE, FALSE)
        \/ BackupEnds(p, FALSE, FALSE)
        \/ 0 \notin around /\ job' = [job EXCEPT ![p] = j] /\ UNCHANGED told
    BY DEF BackupTurn
  <1>8. /\ j.at = "asked" /\ j.page = old.page /\ j.left = old.left /\ j.base = old.base /\ j.backup = old.backup
        /\ j.cursor = cursor /\ j.pages = old.pages /\ j.forth = old.forth /\ j.from = cursor /\ j.back = Page
    BY <1>1 DEF JobType
  <1> HIDE DEF around, cursor, j
  <1>9. old.backup
    BY <1>1 DEF JobShape
  <1>10. ASSUME ~ torn PROVE Downto(old.base, old.cursor, Done)
    BY <1>1, <1>9, <1>10 DEF Reached, Downto
  <1>11. ASSUME ~ torn, NEW c \in around PROVE Downto(old.base, c, Done)
    <2>1. PICK w \in Windows : w.from = c /\ w.from <= old.cursor /\ old.cursor <= w.to
      BY <1>5, <1>11
    <2> QED
      BY <1>1, <1>10, <1>11, <2>1, SteppedOver
  <1>12. ASSUME ~ torn PROVE Downto(old.base, cursor, Done)
    BY <1>4, <1>10, <1>11, <1>12
  <1>13. \A m \in (1 .. old.base) \ Done : m \in (1 .. posted) \ Done /\ m \in Messages /\ m \in Nat /\ TimeOf[m] \in Nat /\ TimeOf[m] # 0
    <2>1. \A m \in (1 .. old.base) \ Done : m \in (1 .. posted) \ Done
      BY <1>1, CopyFacts
    <2> QED
      BY <2>1, CopyFacts, CacheConstants
  <1>14. CASE 0 \in around /\ BackupEnds(p, TRUE, TRUE)
    <2>1. ASSUME ~ torn, NEW m \in (1 .. old.base) \ Done PROVE Amid(m)
      <3>1. Amid(m) \/ TimeOf[m] < 0 \/ TimeOf[m] = 0
        BY <1>11, <1>14, <2>1 DEF Downto
      <3> QED
        BY <1>13, <3>1
    <2> QED
      BY <1>6, <1>14, <2>1, EndsKeeps
  <1>15. CASE Enough(old, cursor) /\ BackupEnds(p, TRUE, FALSE)
    <2>1. ASSUME ~ torn, NEW m \in (1 .. old.base) \ Done, ~ Amid(m)
          PROVE  \/ old.since # Absent /\ TimeOf[m] <= old.since
                 \/ old.last > 0 /\ Cardinality({ k \in Done : k > m }) >= old.last
      <3>1. TimeOf[m] < cursor \/ (TimeOf[m] = cursor /\ ~ NotFirst(m))
        BY <1>12, <2>1 DEF Downto, Amid
      <3>2. TimeOf[m] \in Nat /\ cursor \in Nat /\ m \in Messages /\ m \in Nat /\ m \notin Done
        BY <1>4, <1>13, <2>1, CacheConstants
      <3>3. CASE old.since # Absent /\ cursor <= old.since
        <4>1. old.since \in Nat
          BY <1>1, <3>3, CacheConstants
        <4> QED
          BY <3>1, <3>2, <3>3, <4>1
      <3>4. CASE old.last > 0 /\ Cardinality({ k \in Held : TimeOf[k] >= cursor }) >= old.last
        <4> DEFINE A == { k \in Held : TimeOf[k] >= cursor }
                   B == { k \in Done : k > m }
        <4>1. ASSUME NEW k \in Held, TimeOf[k] >= cursor PROVE k \in Done /\ k > m
          <5>1. k \in Done /\ k \in Messages /\ k \in Nat /\ TimeOf[k] \in Nat /\ k # m
            BY <3>2, CopyFacts, CacheConstants DEF Done
          <5>2. k < m => TimeOf[k] <= TimeOf[m]
            <6>1. k < m => k <= m
              BY <3>2, <5>1
            <6> QED
              BY <3>2, <5>1, <6>1, CacheConstants
          <5>3. k < m => TimeOf[k] = TimeOf[m] /\ TimeOf[m] = cursor
            BY <3>1, <3>2, <4>1, <5>1, <5>2
          <5>4. ~(k < m)
            BY <3>1, <3>2, <5>1, <5>3 DEF NotFirst
          <5> QED
            BY <3>2, <5>1, <5>4
        <4>2. A \subseteq B /\ B \subseteq 1 .. posted
          BY <4>1, CopyFacts
        <4>3. IsFiniteSet(1 .. posted)
          BY CopyFacts, FS_Interval
        <4>4. Cardinality(A) <= Cardinality(B) /\ Cardinality(A) \in Nat /\ Cardinality(B) \in Nat
          BY <4>2, <4>3, FS_Subset, FS_CardinalityType
        <4>5. Cardinality(A) >= old.last
          BY <3>4
        <4> HIDE DEF A
        <4>6. Cardinality(B) >= old.last
          BY <1>1, <4>4, <4>5
        <4> QED
          BY <3>4, <4>6
      <3> QED
        BY <1>15, <3>3, <3>4 DEF Enough
    <2> QED
      BY <1>6, <1>15, <2>1, EndsKeeps
  <1>16. CASE BackupEnds(p, FALSE, FALSE)
    BY <1>6, <1>16, EndsKeeps
  <1>17. CASE 0 \notin around /\ job' = [job EXCEPT ![p] = j] /\ UNCHANGED told
    <2>1. JobShape(j, posted) /\ PageIsWhole(j, posted, gone)
      BY <1>1, <1>8, <1>9 DEF JobShape, PageIsWhole, HasPage
    <2>2. ASSUME ~ torn PROVE Reached(j, Done)
      BY <1>8, <1>12, <2>2 DEF Reached, Downto
    <2>3. ASSUME ~ torn, old.pages > 0 PROVE cursor \in TimesOf(Done)
      <3>1. CASE cursor = old.cursor
        BY <1>1, <1>9, <2>3, <3>1 DEF ReadSoFar
      <3>2. CASE cursor \in around
        <4>1. PICK w \in Windows : w.from = cursor
          BY <1>5, <3>2
        <4>2. w.from \in HeldFroms
          BY AWindow, CopyFacts, StretchTimes
        <4>3. cursor # 0
          BY <1>17, <3>2
        <4> QED
          BY <1>1, <2>3, <4>1, <4>2, <4>3 DEF CacheInv, RangeIsRead
      <3> QED
        BY <1>4, <3>1, <3>2
    <2>4. ASSUME ~ torn PROVE ReadSoFar(j, posted, Done)
      BY <1>8, <2>3, <2>4 DEF ReadSoFar, HasPage
    <2>5. ReaderInv(j, told[p], posted, gone, Done, ~ torn')
      BY <1>1, <1>6, <2>1, <2>2, <2>4 DEF ReaderInv
    <2>6. told' = [told EXCEPT ![p] = told[p]]
      BY <1>17, NothingTold
    <2>7. ~ torn' /\ clearing = "rows" => j = Idle
      BY <1>1, <1>6 DEF Whole
    <2> QED
      BY <1>6, <1>17, <2>5, <2>6, <2>7, QuietlyKeeps
  <1> QED
    BY <1>7, <1>14, <1>15, <1>16, <1>17

LEMMA PageEndsKeeps == ASSUME CacheInv, CacheTyped', NEW p \in Readers, PageEnds(p) PROVE CacheInv'
  <1> DEFINE old == job[p]
             page == Ids(old.page)
             oldest == IF page = {} THEN old.cursor ELSE TimeOf[Min(page)]
             start == [old EXCEPT !.at = "start", !.cursor = oldest]
             turn == [old EXCEPT !.at = "turn", !.cursor = oldest, !.pages = @ + 1, !.page = NoPage]
             short == Cardinality(page) < Page
  <1>1. /\ old \in JobType /\ JobShape(old, posted) /\ PageIsWhole(old, posted, gone) /\ old.page \in PageContents
        /\ ~ torn => ReadSoFar(old, posted, Done) /\ Reached(old, Done) /\ ToldTruth(told[p], Done)
    BY ReaderFacts DEF JobType, PageContents
  <1>2. old.backup /\ HasPage(old) /\ old.at # "start" /\ old # Idle
    <2>1. old.backup /\ old.at \in {"rows", "range"}
      BY DEF PageEnds, Written
    <2>2. old # Idle
      BY <2>1 DEF Idle
    <2> QED
      BY <2>1, <2>2 DEF HasPage
  <1>3. old.left = {}
    BY <1>1 DEF PageEnds, Written, JobShape
  <1>4. UNCHANGED << posted, gone, rows, ranges, clearing, torn >>
    BY DEF PageEnds
  <1>5. \/ short /\ (page # {} \/ old.pages > 0) /\ job' = [job EXCEPT ![p] = start] /\ UNCHANGED told
        \/ short /\ BackupEnds(p, TRUE, TRUE)
        \/ job' = [job EXCEPT ![p] = Idle] /\ UNCHANGED told
        \/ ~ short /\ oldest < old.cursor /\ job' = [job EXCEPT ![p] = turn] /\ UNCHANGED told
    BY DEF PageEnds
  <1>6. /\ start.at = "start" /\ start.cursor = oldest /\ start.page = old.page /\ start.left = old.left
        /\ start.base = old.base /\ start.backup /\ start.pages = old.pages /\ start.forth = old.forth
    BY <1>1, <1>2 DEF JobType
  <1>7. /\ turn.at = "turn" /\ turn.cursor = oldest /\ turn.page = NoPage /\ turn.left = old.left
        /\ turn.base = old.base /\ turn.backup /\ turn.forth = old.forth
    BY <1>1, <1>2 DEF JobType
  <1>8. old.base \in 0 .. posted /\ old.cursor \in Nat /\ posted \in Nat /\ 1 .. posted \subseteq Messages
    <2>1. old.base \in 0 .. Size /\ old.base <= posted /\ old.cursor \in Clock
      BY <1>1 DEF JobType, JobShape, Size
    <2>2. posted \in Nat /\ 1 .. posted \subseteq Messages /\ Size \in Nat /\ Clock \subseteq Nat
      BY CopyFacts, CacheConstants
    <2>3. old.base \in 0 .. posted
      BY <2>1, <2>2
    <2> QED
      BY <2>1, <2>2, <2>3
  <1>9. \A m \in (1 .. old.base) \ Done : m \in (1 .. old.base) \ gone /\ m \in (1 .. posted) \ Done
    BY <1>8 DEF Done
  <1>10. \A m \in (1 .. posted) \ Done : m \in (1 .. posted) \ gone /\ m \in Messages /\ m \in Nat /\ TimeOf[m] \in Nat
    BY <1>8, CacheConstants DEF Done
  <1>11. /\ PageIsWhole(old, posted, gone) => NewestHere(page, old.base, old.cursor, gone)
         /\ short => AllHere(page, old.base, old.cursor, gone) /\ NoneBefore(page, posted, gone)
    BY <1>1, <1>2 DEF PageIsWhole
  <1>12. ~ torn => page \subseteq Done
    BY <1>2, <1>3, FinishedPage
  <1>13. page # {} => Min(page) \in page /\ Min(page) \in Messages /\ Min(page) \in Nat /\ TimeOf[Min(page)] \in Nat
    BY <1>1, IdsTyped, CacheConstants
  <1>14. page \subseteq 1 .. posted /\ IsFiniteSet(page)
    <2>1. page \subseteq 1 .. posted
      BY <1>1 DEF JobShape
    <2>2. 1 \in Int /\ posted \in Int
      BY <1>8
    <2>3. IsFiniteSet(1 .. posted)
      BY <2>2, FS_Interval
    <2> QED
      BY <2>1, <2>3, FS_Subset
  <1> DEFINE a == Min(page)
  <1>15. oldest = (IF page = {} THEN old.cursor ELSE TimeOf[a])
    OBVIOUS
  <1>16. (page # {} => a \in page /\ a \in Messages /\ a \in Nat /\ TimeOf[a] \in Nat) /\ (short <=> Cardinality(page) < Page)
    BY <1>13
  <1> HIDE DEF a, oldest, page, short, start, turn
  \* What is missing is below the oldest, or of its millisecond and before it.
  <1>17. ASSUME NEW m \in (1 .. posted) \ Done, page # {}
         PROVE  /\ m < a => TimeOf[m] <= TimeOf[a]
                /\ m < a /\ TimeOf[m] = TimeOf[a] => NotLast(m)
                /\ a < m => TimeOf[a] <= TimeOf[m]
                /\ a < m /\ TimeOf[m] = TimeOf[a] => NotFirst(m)
                /\ ~ torn => m < a \/ a < m
    <2>1. m \in Messages /\ m \in Nat /\ a \in Messages /\ a \in Nat /\ a \in page
      BY <1>10, <1>16, <1>17
    <2>2. (m < a => m <= a) /\ (a < m => a <= m) /\ (m # a => m < a \/ a < m)
      BY <2>1
    <2>3. ~ torn => m # a
      BY <1>12, <2>1
    <2>4. (m < a => TimeOf[m] <= TimeOf[a]) /\ (a < m => TimeOf[a] <= TimeOf[m])
      BY <2>1, <2>2, CacheConstants
    <2>5. (m < a /\ TimeOf[m] = TimeOf[a] => NotLast(m)) /\ (a < m /\ TimeOf[m] = TimeOf[a] => NotFirst(m))
      BY <2>1 DEF NotLast, NotFirst
    <2> QED
      BY <2>2, <2>3, <2>4, <2>5
  <1>18. ASSUME short, ~ torn, NEW m \in (1 .. old.base) \ Done PROVE Amid(m)
    <2>1. m \notin page /\ m \in (1 .. old.base) \ gone
      BY <1>9, <1>12, <1>18
    <2>2. ~(TimeOf[m] <= old.cursor)
      BY <1>11, <1>18, <2>1 DEF AllHere
    <2>3. TimeOf[m] \in Nat
      BY <1>9, <1>10
    <2>4. Amid(m) \/ TimeOf[m] < old.cursor \/ TimeOf[m] = old.cursor
      BY <1>1, <1>2, <1>18 DEF Reached
    <2> QED
      BY <1>8, <2>2, <2>3, <2>4
  <1>19. ASSUME ~ torn, page # {} PROVE oldest \in TimesOf(Done)
    BY <1>12, <1>15, <1>16, <1>19 DEF TimesOf
  <1>20. (~ torn' => ~ torn) /\ (~ torn => Whole)
    BY <1>2, <1>4, ReaderFacts
  <1>21. CASE short /\ (page # {} \/ old.pages > 0) /\ job' = [job EXCEPT ![p] = start] /\ UNCHANGED told
    <2>1. JobShape(start, posted) /\ PageIsWhole(start, posted, gone)
      BY <1>1, <1>2, <1>3, <1>6 DEF JobShape, PageIsWhole, HasPage
    <2>2. ASSUME ~ torn PROVE Reached(start, Done)
      BY <1>6, <1>18, <1>21, <2>2 DEF Reached
    <2>3. ASSUME ~ torn, page # {} PROVE FromHere(oldest, posted, Done)
      <3> SUFFICES ASSUME NEW m \in (1 .. posted) \ Done
                   PROVE  TimeOf[a] <= TimeOf[m] /\ (TimeOf[m] = TimeOf[a] => NotFirst(m))
        BY <1>15, <2>3 DEF FromHere
      <3>1. m \notin page /\ a \in page /\ m \in (1 .. posted) \ gone
        BY <1>10, <1>12, <1>16, <2>3
      <3>2. ~(m < a)
        BY <1>11, <1>21, <3>1 DEF NoneBefore
      <3> QED
        BY <1>17, <2>3, <3>2
    <2>4. ASSUME ~ torn, page = {} PROVE oldest \in TimesOf(Done) /\ FromHere(oldest, posted, Done)
      BY <1>1, <1>2, <1>15, <1>21, <2>4 DEF ReadSoFar, page
    <2>5. ASSUME ~ torn PROVE ReadSoFar(start, posted, Done)
      BY <1>6, <1>19, <2>3, <2>4, <2>5 DEF ReadSoFar, HasPage
    <2>6. ReaderInv(start, told[p], posted, gone, Done, ~ torn')
      BY <1>1, <1>20, <2>1, <2>2, <2>5 DEF ReaderInv
    <2>7. told' = [told EXCEPT ![p] = told[p]]
      BY <1>21, NothingTold
    <2>8. ~ torn' /\ clearing = "rows" => start = Idle
      BY <1>4, <1>20 DEF Whole
    <2> QED
      BY <1>4, <1>21, <2>6, <2>7, <2>8, QuietlyKeeps
  <1>22. CASE short /\ BackupEnds(p, TRUE, TRUE)
    BY <1>4, <1>18, <1>22, EndsKeeps
  <1>23. CASE job' = [job EXCEPT ![p] = Idle] /\ UNCHANGED told
    <2>1. told' = [told EXCEPT ![p] = told[p]]
      BY <1>23, NothingTold
    <2> QED
      BY <1>1, <1>4, <1>23, <2>1, IdleKeeps
  <1>24. CASE ~ short /\ oldest < old.cursor /\ job' = [job EXCEPT ![p] = turn] /\ UNCHANGED told
    <2>1. page # {}
      <3> SUFFICES ASSUME page = {} PROVE FALSE
        OBVIOUS
      <3> QED
        BY <1>16, <1>24, FS_EmptySet, CacheConstants
    <2>2. JobShape(turn, posted) /\ PageIsWhole(turn, posted, gone)
      BY <1>1, <1>2, <1>3, <1>7, IdsOfNone DEF JobShape, PageIsWhole, HasPage
    <2>3. ASSUME ~ torn PROVE Reached(turn, Done)
      <3> SUFFICES ASSUME NEW m \in (1 .. old.base) \ Done
                   PROVE  Amid(m) \/ TimeOf[m] < oldest \/ (TimeOf[m] = oldest /\ NotLast(m))
        BY <1>7 DEF Reached
      <3>1. m \in (1 .. posted) \ Done /\ m \in (1 .. old.base) \ gone /\ TimeOf[m] \in Nat /\ m \notin page
        BY <1>9, <1>10, <1>12, <2>3
      <3>2. Amid(m) \/ TimeOf[m] <= old.cursor
        <4>1. Amid(m) \/ TimeOf[m] < old.cursor \/ TimeOf[m] = old.cursor
          BY <1>1, <1>2, <2>3 DEF Reached
        <4> QED
          BY <1>8, <3>1, <4>1
      <3>3. TimeOf[m] <= old.cursor => ~(a < m)
        BY <1>1, <1>11, <1>16, <2>1, <3>1 DEF NewestHere
      <3>4. m < a => TimeOf[m] <= TimeOf[a] /\ (TimeOf[m] = TimeOf[a] => NotLast(m))
        BY <1>17, <2>1, <3>1
      <3>5. m < a \/ a < m
        BY <1>17, <2>1, <2>3, <3>1
      <3> QED
        BY <1>15, <1>16, <2>1, <3>1, <3>2, <3>3, <3>4, <3>5
    <2>4. ASSUME ~ torn PROVE ReadSoFar(turn, posted, Done)
      BY <1>7, <1>19, <2>1, <2>4 DEF ReadSoFar, HasPage
    <2>5. ReaderInv(turn, told[p], posted, gone, Done, ~ torn')
      BY <1>1, <1>20, <2>2, <2>3, <2>4 DEF ReaderInv
    <2>6. told' = [told EXCEPT ![p] = told[p]]
      BY <1>24, NothingTold
    <2>7. ~ torn' /\ clearing = "rows" => turn = Idle
      BY <1>4, <1>20 DEF Whole
    <2> QED
      BY <1>4, <1>24, <2>5, <2>6, <2>7, QuietlyKeeps
  <1> QED
    BY <1>5, <1>21, <1>22, <1>23, <1>24

LEMMA ReadersKeep == ASSUME CacheInv, CacheTyped', NEW p \in Readers, ReaderStep(p) PROVE CacheInv'
  <1>1. CASE ReadEnds(p)
    <2>1. told' = [told EXCEPT ![p] = told[p]]
      BY <1>1, NothingTold DEF ReadEnds
    <2> QED
      BY <1>1, <2>1, IdleKeeps, ReaderFacts DEF ReadEnds
  <1>2. CASE Stops(p)
    <2>1. told' = [told EXCEPT ![p] = told[p]]
      BY <1>2, NothingTold DEF Stops
    <2> QED
      BY <1>2, <2>1, IdleKeeps, ReaderFacts DEF Stops
  <1> QED
    BY <1>1, <1>2, AskingKeeps, BackupKeeps, AnswerKeeps, WriteRowKeeps, WriteRangeKeeps,
       TurnKeeps, PageEndsKeeps, ReachedStartKeeps DEF ReaderStep

-----------------------------------------------------------------------------
(* MAX, the owner's own changes, and a clear. *)

LEMMA OthersKeep ==
  ASSUME CacheInv, CacheTyped', UNCHANGED << job, told, ranges >>, torn => torn', ClearIsAlone', Whole' => Whole,
         Grown(posted, gone, Done, posted', gone', Done'), Held' \subseteq 1 .. posted'
  PROVE  CacheInv'
  <1>1. ASSUME NEW q \in Readers PROVE ReaderInv(job'[q], told'[q], posted', gone', Done', ~ torn')
    <2>1. job[q] \in JobType /\ told[q] \in TellType /\ ReaderInv(job[q], told[q], posted, gone, Done, ~ torn)
      BY SomeoneReads DEF CacheInv
    <2>2. (~ torn) \in BOOLEAN /\ (~ torn') \in BOOLEAN /\ (~ torn' => ~ torn)
      BY CopyFacts, CacheTypes DEF CacheTyped, CacheTypeOK
    <2>3. ReaderInv(job[q], told[q], posted', gone', Done', ~ torn')
      BY <2>1, <2>2, ReaderInvGrows
    <2> QED
      BY <2>3
  <1>2. Whole' => \A f \in HeldFroms' : RangeIsRead(f, ranges'[f], posted', Done')
    BY RangesGrow
  <1> QED
    BY <1>1, <1>2 DEF CacheInv

LEMMA ChatKeeps ==
  ASSUME CacheInv, CacheTyped', Post \/ Invalidate \/ \E m \in Messages : Edit(m) \/ Delete(m) \/ Forget(m)
  PROVE  CacheInv'
  <1>1. UNCHANGED << job, told, ranges, clearing, torn >>
    BY DEF Post, Invalidate, Edit, Delete, Forget
  <1>2. ClearIsAlone' /\ (Whole' => Whole) /\ (torn => torn')
    BY <1>1 DEF ClearIsAlone, Whole, CacheInv
  <1>3. posted \in Nat /\ 1 .. posted \subseteq Messages /\ Held \subseteq 1 .. posted /\ Done \subseteq 1 .. posted
        /\ gone \subseteq 1 .. posted /\ rows \in PageContents
    BY CopyFacts, CacheTypes
  <1>4. SUFFICES Grown(posted, gone, Done, posted', gone', Done') /\ Held' \subseteq 1 .. posted'
    BY <1>1, <1>2, OthersKeep
  <1>5. CASE Post
    <2>1. Held' = Held /\ Done' = Done /\ gone' = gone /\ posted' = posted + 1
      BY <1>5 DEF Post, Held, Done
    <2>2. posted' \in Nat /\ posted <= posted' /\ 1 .. posted \subseteq 1 .. posted'
      BY <1>3, <2>1
    <2>3. 1 .. posted' \subseteq Messages
      BY <1>3, <1>5, <2>1, CacheConstants DEF Post, Size
    <2> QED
      BY <1>3, <2>1, <2>2, <2>3 DEF Grown
  <1>6. CASE Invalidate \/ \E m \in Messages : Edit(m)
    BY <1>6, CopyUnmoved DEF Invalidate, Edit
  <1>7. ASSUME NEW m \in Messages, Delete(m) PROVE Grown(posted, gone, Done, posted', gone', Done') /\ Held' \subseteq 1 .. posted'
    <2>1. Held' = Held /\ posted' = posted /\ gone' = gone \cup {m} /\ Done' = Done \cup {m} /\ m \in 1 .. posted
      BY <1>7 DEF Delete, Held, Done, Live
    <2>2. posted <= posted
      BY <1>3
    <2> QED
      BY <1>3, <2>1, <2>2 DEF Grown
  <1>8. ASSUME NEW m \in Messages, Forget(m) PROVE Grown(posted, gone, Done, posted', gone', Done') /\ Held' \subseteq 1 .. posted'
    <2>1. \A k \in Messages : rows'[k] = IF k = m THEN Absent ELSE rows[k]
      BY <1>3, <1>8 DEF Forget, PageContents
    <2>2. Held' = Held \ {m} /\ posted' = posted /\ gone' = gone /\ m \in gone
      BY <1>8, <2>1 DEF Held, Forget
    <2>3. Done' = Done
      BY <2>2 DEF Done
    <2>4. posted <= posted /\ Held' \subseteq 1 .. posted
      BY <1>3, <2>2
    <2> QED
      BY <1>3, <2>2, <2>3, <2>4 DEF Grown
  <1> QED
    BY <1>5, <1>6, <1>7, <1>8

LEMMA ClearRowsKeeps == ASSUME CacheInv, CacheTyped', ClearRows PROVE CacheInv'
  <1>1. Held' = {} /\ job' = job /\ clearing' = "rows" /\ UNCHANGED << posted, gone >>
    BY DEF ClearRows, Held
  <1>2. ~ torn' => ~ torn /\ \A q \in Readers : job[q] = Idle
    BY DEF ClearRows
  <1>3. ASSUME NEW q \in Readers PROVE ReaderInv(job'[q], told'[q], posted', gone', Done', ~ torn')
    <2>1. JobShape(job[q], posted) /\ PageIsWhole(job[q], posted, gone) /\ posted \in Nat
      BY ReaderFacts, CopyFacts
    <2>2. told'[q] = Untold
      BY DEF ClearRows
    <2>3. CASE torn'
      BY <1>1, <2>1, <2>3 DEF ReaderInv
    <2>4. CASE ~ torn'
      <3>1. ToldTruth(Untold, Done')
        BY IdleTyped DEF ToldTruth
      <3>2. ReaderInv(Idle, Untold, posted, gone, Done', TRUE)
        BY <2>1, <3>1, IdleFits
      <3>3. job'[q] = Idle /\ posted' = posted /\ gone' = gone
        BY <1>1, <1>2, <2>4
      <3> QED
        BY <2>2, <2>4, <3>2, <3>3 DEF ReaderInv
    <2> QED
      BY <2>3, <2>4
  <1>4. ClearIsAlone'
    BY <1>1, <1>2 DEF ClearIsAlone
  <1>5. ~ Whole'
    BY <1>1 DEF Whole
  <1> QED
    BY <1>1, <1>3, <1>4, <1>5 DEF CacheInv

LEMMA ClearsOnKeep == ASSUME CacheInv, CacheTyped', ClearRanges \/ ClearFetched \/ ClearDies PROVE CacheInv'
  <1>1. UNCHANGED << posted, gone, rows, job, told >> /\ (torn => torn') /\ clearing' # "rows"
    <2>1. CASE ClearRanges
      BY <2>1 DEF ClearRanges
    <2>2. CASE ClearFetched
      BY <2>2 DEF ClearFetched
    <2>3. CASE ClearDies
      BY <2>3 DEF ClearDies
    <2> QED
      BY <2>1, <2>2, <2>3
  <1>2. CASE ClearRanges
    <2>1. HeldFroms' = {} /\ torn' = torn
      BY <1>2 DEF ClearRanges, HeldFroms
    <2>2. \A q \in Readers : ReaderInv(job'[q], told'[q], posted', gone', Done', ~ torn')
      BY <1>1, <2>1, CopyUnmoved DEF CacheInv
    <2> QED
      BY <1>1, <2>1, <2>2, CopyUnmoved DEF CacheInv, ClearIsAlone
  <1>3. CASE ClearFetched \/ ClearDies
    <2>1. ranges' = ranges /\ (Whole' => Whole)
      <3>1. CASE ClearFetched
        BY <3>1 DEF ClearFetched, Whole
      <3>2. CASE ClearDies
        BY <3>2 DEF ClearDies, Whole
      <3> QED
        BY <1>3, <3>1, <3>2
    <2>2. ClearIsAlone'
      BY <1>1 DEF ClearIsAlone
    <2> QED
      BY <1>1, <2>1, <2>2, CopyUnmoved, OthersKeep
  <1> QED
    BY <1>2, <1>3

LEMMA CacheInvStep == CacheInv /\ [CacheNext]_cacheVars => CacheInv'
  <1> SUFFICES ASSUME CacheInv, [CacheNext]_cacheVars PROVE CacheInv'
    OBVIOUS
  <1>1. CacheTyped'
    BY CacheTypedStep DEF CacheInv
  <1>2. CASE UNCHANGED cacheVars
    <2>1. UNCHANGED << posted, gone, rows, ranges, job, told, torn, clearing >>
      BY <1>2 DEF cacheVars
    <2>2. ClearIsAlone' /\ (Whole' => Whole) /\ (torn => torn')
      BY <2>1 DEF ClearIsAlone, Whole, CacheInv
    <2> QED
      BY <1>1, <2>1, <2>2, CopyUnmoved, OthersKeep
  <1>3. CASE CacheNext
    BY <1>1, <1>3, ReadersKeep, ChatKeeps, ClearRowsKeeps, ClearsOnKeep DEF CacheNext
  <1> QED
    BY <1>2, <1>3

LEMMA CacheInvHolds == CacheSpec => []CacheInv
  BY CacheInvInit, CacheInvStep, PTL DEF CacheSpec

LEMMA RowsFollow == CacheInv => RowsAreWhole
  <1> SUFFICES ASSUME CacheInv, Whole, NEW f \in Clock, NEW m \in Live,
                      ranges[f] # Absent, f < TimeOf[m], TimeOf[m] < ranges[f]
               PROVE  m \in Held
    BY DEF RowsAreWhole
  <1>1. f \in HeldFroms
    BY DEF HeldFroms
  <1>2. m \in Done
    BY <1>1 DEF CacheInv, RangeIsRead, Live
  <1> QED
    BY <1>2 DEF Live, Done

LEMMA BackupFollows == CacheInv => BackupTellsTruth
  <1> SUFFICES ASSUME CacheInv, ~ torn, NEW p \in Readers, told[p].complete, NEW m \in (1 .. told[p].base) \ gone
               PROVE  \/ m \in Held
                      \/ NotFirst(m) /\ NotLast(m)
                      \/ /\ ~ told[p].start
                         /\ \/ told[p].since # Absent /\ TimeOf[m] <= told[p].since
                            \/ told[p].last > 0 /\ Cardinality({ k \in Held \cup gone : k > m }) >= told[p].last
    BY DEF BackupTellsTruth
  <1>1. ToldTruth(told[p], Done)
    BY ReaderFacts
  <1> QED
    BY <1>1 DEF ToldTruth, Done, Amid

LEMMA GapsFollow == CacheInv => GapsAreTold
  <1> SUFFICES ASSUME CacheInv, Whole, NEW earliest \in Clock, NEW f \in Clock, ranges[f] >= earliest, NEW m \in Live \ Held,
                      TimeOf[m] >= earliest, \A k \in Held \cup gone : TimeOf[k] # TimeOf[m]
               PROVE  \E gap \in Unread(earliest) : gap.from <= TimeOf[m] /\ TimeOf[m] <= gap.to
    BY DEF GapsAreTold
  <1> DEFINE x == TimeOf[m]
             windows == { w \in Windows : w.to >= earliest }
             last == TimeOf[posted]
             ends == {earliest} \cup { w.to : w \in windows }
             before(to) == Max({ end \in ends : end < to })
             gaps == { [from |-> before(to), to |-> to] :
                         to \in { w.from : w \in windows } \cap { to \in Clock : to > earliest } }
             tail == IF last > Max(ends) THEN { [from |-> Max(ends), to |-> last] } ELSE {}
  <1>1. Unread(earliest) = IF windows = {} THEN {} ELSE gaps \cup tail
    BY DEF Unread
  <1>2. m \in (1 .. posted) \ Done /\ x \notin TimesOf(Done)
    BY DEF Live, Done, TimesOf
  <1>3. m \in Messages /\ x \in Nat /\ x # 0 /\ earliest \in Nat /\ posted \in Messages /\ last \in Nat /\ x <= last
    <2>1. posted \in Nat /\ 1 .. posted \subseteq Messages
      BY CopyFacts
    <2>2. m \in Messages /\ posted \in Messages /\ m <= posted
      BY <1>2, <2>1
    <2> QED
      BY <2>2, CacheConstants
  <1>4. ASSUME NEW w \in Windows
        PROVE  /\ w.from \in Clock /\ w.to \in Clock /\ w.from \in Nat /\ w.to \in Nat /\ w.from <= w.to
               /\ w.to < x \/ x < w.from
    <2>1. /\ w.from < x /\ x < w.to => x \in TimesOf(Done)
          /\ w.from \in Clock /\ w.to \in Clock /\ w.from <= w.to
          /\ w.from = 0 \/ w.from \in TimesOf(Done)
          /\ w.to \in TimesOf(Done)
      BY <1>2, InWindow
    <2>2. w.from \in Nat /\ w.to \in Nat /\ w.from # x /\ w.to # x
      BY <1>2, <1>3, <2>1, CacheConstants
    <2> QED
      BY <1>2, <1>3, <2>1, <2>2
  <1>5. \E w \in windows : TRUE
    <2>1. ranges[f] # Absent
      BY <1>3 DEF Absent
    <2>2. f \in HeldFroms /\ ranges[f] \in Nat
      BY <2>1, CopyFacts, StretchTimes DEF HeldFroms
    <2>3. PICK w \in Windows : w.from <= f /\ ranges[f] <= w.to
      BY <2>2, CopyFacts, InAWindow
    <2>4. w.to >= earliest
      BY <1>3, <1>4, <2>2, <2>3
    <2> QED
      BY <2>3, <2>4
  <1>6. ends \subseteq Nat /\ earliest \in ends /\ \A e \in ends : e = earliest \/ \E w \in windows : e = w.to
    BY <1>3, <1>4
  <1>7. \A w \in windows : w \in Windows /\ w.to >= earliest /\ w.to \in ends
    OBVIOUS
  <1>8. CASE \E w \in Windows : x < w.from
    <2> DEFINE A == { w.from : w \in { w \in Windows : x < w.from } }
               F == Min(A)
    <2>1. A \subseteq Nat /\ A # {}
      BY <1>4, <1>8
    <2>2. F \in A /\ \A a \in A : F <= a
      <3> HIDE DEF A
      <3> QED
        BY <2>1, LeastOf
    <2>3. PICK v \in Windows : x < v.from /\ v.from = F
      BY <2>2
    <2>4. \A w \in Windows : x < w.from => F <= w.from
      BY <2>2
    <2> HIDE DEF A, F
    <2>5. F \in Clock /\ F \in Nat /\ F > earliest /\ v \in windows
      BY <1>3, <1>4, <2>3
    <2> DEFINE E == { end \in ends : end < F }
    <2>6. \A e \in E : e <= x
      <3> SUFFICES ASSUME NEW e \in ends, e < F PROVE e <= x
        OBVIOUS
      <3>1. CASE e = earliest
        BY <1>3, <3>1
      <3>2. CASE \E w \in windows : e = w.to
        <4>1. PICK w \in windows : e = w.to
          BY <3>2
        <4> QED
          BY <1>3, <1>4, <1>7, <2>4, <2>5, <4>1
      <3> QED
        BY <1>6, <3>1, <3>2
    <2>7. E \subseteq Nat /\ earliest \in E
      BY <1>6, <2>5
    <2>8. Max(E) \in E
      <3> HIDE DEF E
      <3> QED
        BY <1>3, <2>6, <2>7, GreatestOf
    <2>9. [from |-> Max(E), to |-> F] \in gaps
      BY <2>3, <2>5
    <2>10. Max(E) <= x /\ x <= F
      <3>1. x <= F
        BY <1>3, <2>3, <2>5
      <3> HIDE DEF E
      <3>2. Max(E) <= x
        BY <2>6, <2>8
      <3> QED
        BY <3>1, <3>2
    <2>11. [from |-> Max(E), to |-> F] \in Unread(earliest)
      BY <1>1, <1>5, <2>9
    <2> HIDE DEF E
    <2> QED
      BY <2>10, <2>11
  <1>9. CASE ~ \E w \in Windows : x < w.from
    <2>1. PICK w \in windows : TRUE
      BY <1>5
    <2>2. \A v \in Windows : v.to < x
      BY <1>4, <1>9
    <2>3. earliest < x
      BY <1>3, <1>4, <1>7, <2>1, <2>2
    <2>4. \A e \in ends : e < x /\ e <= x
      BY <1>3, <1>6, <1>7, <2>2, <2>3
    <2>5. Max(ends) \in ends
      <3> HIDE DEF ends
      <3> QED
        BY <1>3, <1>6, <2>4, GreatestOf
    <2>6. Max(ends) < x /\ Max(ends) \in Nat
      BY <1>6, <2>4, <2>5
    <2>7. [from |-> Max(ends), to |-> last] \in tail
      <3>1. last > Max(ends)
        <4> HIDE DEF ends, last
        <4> QED
          BY <1>3, <2>6
      <3> QED
        BY <3>1
    <2>8. [from |-> Max(ends), to |-> last] \in Unread(earliest)
      BY <1>1, <1>5, <2>7
    <2> HIDE DEF ends, last
    <2> QED
      BY <1>3, <2>6, <2>8
  <1> QED
    BY <1>8, <1>9

\* What the copy claims is so, for any number of readers, messages, pages, edits, deletions and
\* clears that meet nobody: what the ranges call read is whole (readRanges), what they leave out
\* is told (unreadStretches), and a backup that was complete missed nothing but what is between
\* two others of its millisecond (heldWindows).
THEOREM CopyIsTrue == CacheSpec => []CopyTellsTruth
  <1>1. CacheInv => CopyTellsTruth
    BY RowsFollow, GapsFollow, BackupFollows DEF CopyTellsTruth
  <1> QED
    BY <1>1, CacheInvHolds, PTL

----------------------------------------------------------------------------
(* The list of chats, page by page (NameLookup).                            *)

RankIn(M, table, c) == Cardinality({ d \in M : table[d].at > table[c].at })
Slice(M, table, n, k) == { c \in M : n <= RankIn(M, table, c) /\ RankIn(M, table, c) < n + k }
FirstOf(M, table, n) == { c \in M : RankIn(M, table, c) < n }
Window(M, table, n) == { c \in M : n <= RankIn(M, table, c) /\ RankIn(M, table, c) < n + PageRows }

\* Rows that differ in their times are counted by their ranks: a window of the list has no more of them
\* than the page has rows, and what lies behind it was not counted.
LEMMA RankFacts ==
  ASSUME NEW M \in SUBSET ConvIds, NEW table, \A c \in M : table[c].at \in Nat,
         \A c, d \in M : table[c].at = table[d].at => c = d
  PROVE  /\ Cardinality(M) \in Nat
         /\ \A c \in M : RankIn(M, table, c) \in Nat /\ RankIn(M, table, c) + 1 <= Cardinality(M)
         /\ \A c, d \in M : RankIn(M, table, c) = RankIn(M, table, d) => c = d
  <1> DEFINE Newer(c) == { d \in M : table[d].at > table[c].at }
  <1>1. IsFiniteSet(M)
    <2>1. IsFiniteSet(ConvIds)
      BY LookupAssumption, FS_Interval DEF ConvIds
    <2> QED
      BY <2>1, FS_Subset
  <1>2. Cardinality(M) \in Nat
    BY <1>1, FS_CardinalityType
  <1>3. ASSUME NEW c \in M
        PROVE  IsFiniteSet(Newer(c)) /\ Cardinality(Newer(c)) \in Nat /\ Cardinality(Newer(c)) + 1 <= Cardinality(M)
    <2>1. Newer(c) \in SUBSET M /\ c \notin Newer(c)
      OBVIOUS
    <2>2. /\ IsFiniteSet(Newer(c)) /\ Cardinality(Newer(c)) <= Cardinality(M)
          /\ Cardinality(M) = Cardinality(Newer(c)) => M = Newer(c)
      BY <1>1, <2>1, FS_Subset
    <2>3. Cardinality(Newer(c)) \in Nat
      BY <2>2, FS_CardinalityType
    <2>4. Cardinality(Newer(c)) # Cardinality(M)
      BY <2>1, <2>2
    <2> HIDE DEF Newer
    <2> QED
      BY <1>2, <2>2, <2>3, <2>4
  <1>4. ASSUME NEW c \in M, NEW d \in M, table[c].at > table[d].at PROVE Cardinality(Newer(c)) # Cardinality(Newer(d))
    <2>1. Newer(c) \in SUBSET Newer(d) /\ c \in Newer(d) /\ c \notin Newer(c)
      BY <1>4
    <2>2. Cardinality(Newer(d)) = Cardinality(Newer(c)) => Newer(d) = Newer(c)
      BY <1>3, <2>1, FS_Subset
    <2> QED
      BY <2>1, <2>2
  <1>5. \A c, d \in M : c # d => table[c].at > table[d].at \/ table[d].at > table[c].at
    OBVIOUS
  <1>6. \A c \in M : RankIn(M, table, c) = Cardinality(Newer(c))
    BY DEF RankIn
  <1> HIDE DEF Newer
  <1> QED
    BY <1>2, <1>3, <1>4, <1>5, <1>6

LEMMA WindowFits ==
  ASSUME NEW M \in SUBSET ConvIds, NEW table, \A c \in M : table[c].at \in Nat,
         \A c, d \in M : table[c].at = table[d].at => c = d,
         NEW n \in Nat, NEW k \in Nat
  PROVE  /\ IsFiniteSet(Slice(M, table, n, k)) /\ Cardinality(Slice(M, table, n, k)) \in Nat
         /\ Cardinality(Slice(M, table, n, k)) <= k
  <1> DEFINE W == { c \in M : n <= RankIn(M, table, c) /\ RankIn(M, table, c) < n + k }
             f == [c \in W |-> RankIn(M, table, c) - n + 1]
  <1>1. /\ \A c \in M : RankIn(M, table, c) \in Nat
        /\ \A c, d \in M : RankIn(M, table, c) = RankIn(M, table, d) => c = d
    BY RankFacts
  <1>2. \A c \in W : RankIn(M, table, c) - n + 1 \in 1 .. k
    BY <1>1
  <1>3. f \in [W -> 1 .. k]
    BY <1>2
  <1>4. \A c, d \in W : f[c] = f[d] => c = d
    BY <1>1
  <1>5. f \in Injection(W, 1 .. k)
    BY <1>3, <1>4 DEF Injection, IsInjective
  <1>6. IsFiniteSet(1 .. k) /\ Cardinality(1 .. k) = k
    <2>1. IsFiniteSet(1 .. k) /\ Cardinality(1 .. k) = IF 1 > k THEN 0 ELSE k - 1 + 1
      BY FS_Interval
    <2> QED
      BY <2>1
  <1> HIDE DEF f, W
  <1>7. IsFiniteSet(W) /\ Cardinality(W) <= Cardinality(1 .. k)
    BY <1>5, <1>6, FS_Injection
  <1>8. IsFiniteSet(W) /\ Cardinality(W) \in Nat /\ Cardinality(W) <= k
    BY <1>6, <1>7, FS_CardinalityType
  <1>9. W = Slice(M, table, n, k)
    BY DEF W, Slice
  <1> QED
    BY <1>8, <1>9

\* What the pages up to n table have shown, and the page after them.
LEMMA NextWindow ==
  ASSUME NEW M \in SUBSET ConvIds, NEW table, \A c \in M : table[c].at \in Nat,
         \A c, d \in M : table[c].at = table[d].at => c = d, NEW n \in Nat
  PROVE  /\ FirstOf(M, table, 0) = {}
         /\ FirstOf(M, table, n) \cup Window(M, table, n) = FirstOf(M, table, n + PageRows)
         /\ FirstOf(M, table, n) \cap Window(M, table, n) = {}
         /\ n + Cardinality(Window(M, table, n)) < Cardinality(M) => FirstOf(M, table, n + PageRows) # M
         /\ ~(n + Cardinality(Window(M, table, n)) < Cardinality(M)) => FirstOf(M, table, n + PageRows) = M
  <1>0. PageRows \in Nat
    BY LookupAssumption
  <1>1. /\ Cardinality(M) \in Nat
        /\ \A c \in M : RankIn(M, table, c) \in Nat /\ RankIn(M, table, c) + 1 <= Cardinality(M)
    BY RankFacts
  <1>2. FirstOf(M, table, 0) = {}
    BY <1>1 DEF FirstOf
  <1>3. FirstOf(M, table, n) \cup Window(M, table, n) = FirstOf(M, table, n + PageRows)
    BY <1>0, <1>1 DEF FirstOf, Window
  <1>4. FirstOf(M, table, n) \cap Window(M, table, n) = {}
    BY <1>1 DEF FirstOf, Window
  <1>5. IsFiniteSet(Window(M, table, n)) /\ Cardinality(Window(M, table, n)) \in Nat /\ Cardinality(Window(M, table, n)) <= PageRows
    <2>1. Window(M, table, n) = Slice(M, table, n, PageRows)
      BY DEF Window, Slice
    <2> QED
      BY <1>0, <2>1, WindowFits
  <1>6. IsFiniteSet(FirstOf(M, table, n)) /\ Cardinality(FirstOf(M, table, n)) \in Nat /\ Cardinality(FirstOf(M, table, n)) <= n
    <2>1. FirstOf(M, table, n) = Slice(M, table, 0, n)
      BY <1>1 DEF FirstOf, Slice
    <2> QED
      BY <2>1, WindowFits, 0 \in Nat
  <1>7. ASSUME FirstOf(M, table, n + PageRows) = M PROVE ~(n + Cardinality(Window(M, table, n)) < Cardinality(M))
    <2>1. FirstOf(M, table, n) \cup Window(M, table, n) = M
      BY <1>3, <1>7
    <2>2. Cardinality(M) = Cardinality(FirstOf(M, table, n)) + Cardinality(Window(M, table, n)) - Cardinality({})
      BY <1>4, <1>5, <1>6, <2>1, FS_Union
    <2>3. Cardinality({}) = 0
      BY FS_EmptySet
    <2> QED
      BY <1>1, <1>5, <1>6, <2>2, <2>3
  <1>8. ASSUME FirstOf(M, table, n + PageRows) # M PROVE n + Cardinality(Window(M, table, n)) < Cardinality(M)
    <2>1. PICK c \in M : ~(RankIn(M, table, c) < n + PageRows)
      BY <1>8 DEF FirstOf
    <2> QED
      BY <1>0, <1>1, <1>5, <2>1
  <1> QED
    BY <1>2, <1>3, <1>4, <1>7, <1>8

\* The times a chat is known by are its own, and MAX's is the last of them.
TimesKnown(c) == ({ lastAt[c], listed[c].at } \cup { looker[p].got[c] : p \in Lookers }) \ {0}
TimesTold ==
  /\ \A c \in ConvIds : \A t \in TimesKnown(c) : t <= lastAt[c]
  /\ \A c, d \in ConvIds : TimesKnown(c) \cap TimesKnown(d) # {} => c = d

\* One command at a time turns the pages.
OnePager ==
  /\ \A p, q \in Lookers : looker[p].for = "page" /\ looker[q].for = "page" => p = q
  /\ \A p \in Lookers : looker[p].for = "page" => looker[p].what = pages.filter
  /\ \A p \in Lookers : looker[p].does = "counts" => looker[p].for = "page"

PagesCounted ==
  /\ pages.next <= lookups + 1
  /\ (\E p \in Lookers : looker[p].for = "page") => pages.next <= lookups
  /\ pages.next = 1 => pages.seen = {} /\ ~pages.twice /\ ~pages.more /\ ~pages.over

PagesFit(turned, M, table) ==
  /\ turned.seen = FirstOf(M, table, (turned.next - 1) * PageRows)
  /\ ~turned.twice
  /\ turned.over => turned.seen = M
  /\ turned.more => turned.seen # M

PagesShown ==
  pages.still =>
    /\ PagesFit(pages, Matching(pages.filter), listed)
    /\ \A p \in Lookers : looker[p].does = "counts" =>
         looker[p].shown = Window(Matching(pages.filter), listed, (pages.next - 1) * PageRows)

LookupInv == LookupTypeOK /\ TimesTold /\ OnePager /\ PagesCounted /\ PagesShown

LookerRecord ==
  [does : {"rest", "asks", "merges", "writes", "reads", "counts", "acts"}, for : {"none", "other", "page", "name"},
   what : {"all"} \cup Filters \cup Words, due : SUBSET ConvIds, full : BOOLEAN, got : [ConvIds -> 0 .. Convs + MaxArrivals],
   with : SUBSET ConvIds, left : SUBSET ConvIds, after : SUBSET ConvIds, shown : SUBSET ConvIds, chat : 0 .. Convs]
PagesRecord ==
  [filter : {"all"} \cup Filters, next : 1 .. MaxLookups + 1, seen : SUBSET ConvIds,
   twice : BOOLEAN, still : BOOLEAN, more : BOOLEAN, over : BOOLEAN]
RowRecord == [title : BOOLEAN, at : 0 .. Convs + MaxArrivals]

LEMMA LookupParts ==
  LookupTypeOK <=>
    /\ lastAt \in [ConvIds -> 1 .. Convs + MaxArrivals] /\ listed \in [ConvIds -> RowRecord]
    /\ since \in [marker : BOOLEAN, changed : SUBSET ConvIds]
    /\ looker \in [Lookers -> LookerRecord] /\ pages \in PagesRecord /\ lookups \in 0 .. MaxLookups
  BY DEF LookupTypeOK, LookerRecord, PagesRecord, RowRecord

LEMMA LookupNumbers ==
  /\ Convs \in Nat /\ MaxLookups \in Nat /\ MaxArrivals \in Nat /\ Convs + MaxArrivals \in Nat
  /\ PageRows \in Nat \ {0} /\ 0 \in 0 .. Convs + MaxArrivals /\ 0 \in 0 .. Convs
  /\ \A c \in ConvIds : c \in 1 .. Convs + MaxArrivals /\ c \in Nat /\ c # 0
  BY LookupAssumption DEF ConvIds

LEMMA UnaskedTyped ==
  /\ Unasked \in LookerRecord /\ NoRow \in RowRecord
  /\ Unasked.does = "rest" /\ Unasked.for = "none" /\ \A c \in ConvIds : Unasked.got[c] = 0
  <1>1. [c \in ConvIds |-> 0] \in [ConvIds -> 0 .. Convs + MaxArrivals]
    BY LookupNumbers
  <1> QED
    BY <1>1, LookupNumbers DEF Unasked, LookerRecord, NoRow, RowRecord

LEMMA FirstTyped ==
  ASSUME NEW filter \in {"all"} \cup Filters
  PROVE  [FirstPage EXCEPT !.filter = filter] \in PagesRecord
  <1>1. 1 \in 1 .. MaxLookups + 1
    BY LookupNumbers
  <1>2. FirstPage \in PagesRecord
    BY <1>1 DEF FirstPage, PagesRecord
  <1> QED
    BY <1>2 DEF PagesRecord

\* What the steps of a command write into its record.
Answered(r, does, with, got) == [[[r EXCEPT !.does = does] EXCEPT !.with = with] EXCEPT !.got = got]
Merged(r, does, left) == [r EXCEPT !.does = does, !.left = left, !.due = {}, !.full = FALSE, !.after = {}]
RowWritten(r, does, left) == [[r EXCEPT !.left = left] EXCEPT !.does = does]
Reading(r, does, shown) == [[r EXCEPT !.does = does] EXCEPT !.shown = shown]

LEMMA AnswersEdit ==
  ASSUME NEW r \in LookerRecord, NEW does \in {"merges", "reads", "writes", "counts", "acts"}, NEW with \in SUBSET ConvIds,
         NEW got \in [ConvIds -> 0 .. Convs + MaxArrivals]
  PROVE  LET s == Answered(r, does, with, got) IN
         s \in LookerRecord /\ s.does = does /\ s.for = r.for /\ s.what = r.what /\ s.got = got
  BY DEF LookerRecord, Answered

LEMMA MergesEdit ==
  ASSUME NEW r \in LookerRecord, NEW does \in {"merges", "reads", "writes", "counts", "acts"}, NEW left \in SUBSET ConvIds
  PROVE  LET s == Merged(r, does, left) IN
         s \in LookerRecord /\ s.does = does /\ s.for = r.for /\ s.what = r.what /\ s.got = r.got
  BY DEF LookerRecord, Merged

LEMMA WritesEdit ==
  ASSUME NEW r \in LookerRecord, NEW does \in {"merges", "reads", "writes", "counts", "acts"}, NEW left \in SUBSET ConvIds
  PROVE  LET s == RowWritten(r, does, left) IN
         s \in LookerRecord /\ s.does = does /\ s.for = r.for /\ s.what = r.what /\ s.got = r.got
  BY DEF LookerRecord, RowWritten

LEMMA ReadsEdit ==
  ASSUME NEW r \in LookerRecord, NEW does \in {"merges", "reads", "writes", "counts", "acts"}, NEW shown \in SUBSET ConvIds
  PROVE  LET s == Reading(r, does, shown) IN
         s \in LookerRecord /\ s.does = does /\ s.for = r.for /\ s.what = r.what /\ s.got = r.got /\ s.shown = shown
  BY DEF LookerRecord, Reading

LEMMA LookupTypeInit == LookupInit => LookupTypeOK
  <1> SUFFICES ASSUME LookupInit PROVE LookupTypeOK
    OBVIOUS
  <1>1. lastAt \in [ConvIds -> 1 .. Convs + MaxArrivals]
    BY LookupNumbers DEF LookupInit
  <1>2. looker \in [Lookers -> LookerRecord] /\ listed \in [ConvIds -> RowRecord]
    BY UnaskedTyped DEF LookupInit
  <1>3. pages \in PagesRecord
    BY LookupNumbers DEF LookupInit, FirstPage, PagesRecord
  <1>4. lookups \in 0 .. MaxLookups
    BY LookupNumbers DEF LookupInit
  <1> QED
    BY <1>1, <1>2, <1>3, <1>4, LookupParts DEF LookupInit

\* A command that starts has a record of its own, and the others keep theirs.
LEMMA LookupStartsTyped ==
  ASSUME LookupTypeOK, NEW p \in Lookers, NEW does \in {"asks", "reads"}, NEW for \in {"other", "name", "page"},
         NEW what \in {"all"} \cup Filters \cup Words, StartsLookup(p, does, for, what)
  PROVE  /\ looker' \in [Lookers -> LookerRecord] /\ lookups' \in 0 .. MaxLookups /\ lookups' = lookups + 1
         /\ \A q \in Lookers : q # p => looker'[q] = looker[q]
         /\ looker'[p].does = does /\ looker'[p].for = for /\ looker'[p].what = what
         /\ looker'[p].got = Unasked.got
  <1>1. looker \in [Lookers -> LookerRecord] /\ lookups \in 0 .. MaxLookups /\ since.changed \in SUBSET ConvIds /\ since.marker \in BOOLEAN
    BY LookupParts
  <1> DEFINE new == [Unasked EXCEPT !.does = does, !.for = for, !.what = what,
                                    !.due = IF does = "asks" THEN since.changed ELSE {},
                                    !.full = (does = "asks" /\ ~ since.marker)]
  <1>2. new \in LookerRecord /\ new.does = does /\ new.for = for /\ new.what = what /\ new.got = Unasked.got
    <2>1. (does = "asks" /\ ~ since.marker) \in BOOLEAN /\ (IF does = "asks" THEN since.changed ELSE {}) \in SUBSET ConvIds
      BY <1>1
    <2> QED
      BY <2>1, UnaskedTyped DEF LookerRecord, Unasked
  <1>3. looker' = [looker EXCEPT ![p] = new] /\ lookups' = lookups + 1 /\ lookups < MaxLookups
    BY DEF StartsLookup
  <1> HIDE DEF new
  <1> QED
    BY <1>1, <1>2, <1>3, LookupNumbers

\* MAX's clock, and the times before it.
LEMMA LookupClock ==
  ASSUME LookupTypeOK, NEW c \in ConvIds
  PROVE  LET clock == Max({ lastAt[d] : d \in ConvIds }) IN
         clock \in Nat /\ \A d \in ConvIds : lastAt[d] <= clock
  <1> DEFINE S == { lastAt[d] : d \in ConvIds }
  <1>1. S \subseteq Nat /\ lastAt[c] \in S /\ \A x \in S : x <= Convs + MaxArrivals
    BY LookupParts, LookupNumbers
  <1>2. \A d \in ConvIds : lastAt[d] \in S
    OBVIOUS
  <1> HIDE DEF S
  <1>3. Max(S) \in S /\ \A x \in S : x <= Max(S)
    BY <1>1, LookupNumbers, GreatestOf
  <1>4. Max(S) \in Nat /\ \A d \in ConvIds : lastAt[d] <= Max(S)
    BY <1>1, <1>2, <1>3
  <1> QED
    BY <1>4 DEF S

\* A message changes what commands under way may be answered, and nothing else of them.
LEMMA ArrivalKeeps ==
  ASSUME LookupTypeOK, NEW c \in ConvIds, MessageArrives(c)
  PROVE  /\ looker' \in [Lookers -> LookerRecord]
         /\ \A q \in Lookers : /\ looker'[q].does = looker[q].does /\ looker'[q].for = looker[q].for
                               /\ looker'[q].what = looker[q].what /\ looker'[q].got = looker[q].got
                               /\ looker'[q].shown = looker[q].shown
  <1> DEFINE new(q) == [looker[q] EXCEPT !.due = IF looker[q].does = "asks" THEN @ \cup {c} ELSE @,
                                         !.after = IF looker[q].does = "merges" THEN @ \cup {c} ELSE @]
  <1>1. looker \in [Lookers -> LookerRecord]
    BY LookupParts
  <1>2. looker' = [q \in Lookers |-> new(q)]
    BY DEF MessageArrives
  <1>3. ASSUME NEW q \in Lookers
        PROVE  /\ new(q) \in LookerRecord /\ new(q).does = looker[q].does /\ new(q).for = looker[q].for
               /\ new(q).what = looker[q].what /\ new(q).got = looker[q].got /\ new(q).shown = looker[q].shown
    BY <1>1 DEF LookerRecord
  <1> HIDE DEF new
  <1> QED
    BY <1>2, <1>3

\* A login that answers, with times MAX has now.
LEMMA LookupAnswerKeeps ==
  ASSUME LookupTypeOK, NEW p \in Lookers, LoginAnswers(p)
  PROVE  /\ looker' \in [Lookers -> LookerRecord]
         /\ \A q \in Lookers : q # p => looker'[q] = looker[q]
         /\ looker'[p].does = "merges" /\ looker'[p].for = looker[p].for /\ looker'[p].what = looker[p].what
         /\ \A c \in ConvIds : looker'[p].got[c] \in {0, lastAt[c]}
  <1>1. looker \in [Lookers -> LookerRecord] /\ lastAt \in [ConvIds -> 1 .. Convs + MaxArrivals]
    BY LookupParts
  <1> DEFINE due == looker[p].due
             got == [c \in ConvIds |-> IF c \in due THEN lastAt[c] ELSE 0]
  <1>2. got \in [ConvIds -> 0 .. Convs + MaxArrivals] /\ \A c \in ConvIds : got[c] \in {0, lastAt[c]}
    BY <1>1, LookupNumbers
  <1>3. PICK with \in {due, {}} :
          looker' = [looker EXCEPT ![p].does = "merges", ![p].with = with, ![p].got = got]
    BY DEF LoginAnswers
  <1>4. with \in SUBSET ConvIds
    BY <1>1 DEF LookerRecord
  <1> DEFINE s == Answered(looker[p], "merges", with, got)
  <1> HIDE DEF due, got
  <1>5. looker' = [looker EXCEPT ![p] = s]
    BY <1>1, <1>3 DEF Answered
  <1>6. s \in LookerRecord /\ s.does = "merges" /\ s.for = looker[p].for /\ s.what = looker[p].what /\ s.got = got
    BY <1>1, <1>2, <1>4, AnswersEdit
  <1> HIDE DEF s
  <1>7. looker' \in [Lookers -> LookerRecord] /\ looker'[p] = s /\ \A q \in Lookers : q # p => looker'[q] = looker[q]
    BY <1>1, <1>5, <1>6
  <1> QED
    BY <1>2, <1>6, <1>7

\* The table a login brings are written, and the command goes on.
LEMMA MergeKeeps ==
  ASSUME LookupTypeOK, NEW p \in Lookers, MergesLogin(p)
  PROVE  /\ looker' \in [Lookers -> LookerRecord] /\ since' \in [marker : BOOLEAN, changed : SUBSET ConvIds]
         /\ \A q \in Lookers : q # p => looker'[q] = looker[q]
         /\ \/ looker'[p] = Unasked
            \/ /\ looker'[p].does \in {"reads", "writes"} /\ looker'[p].for = looker[p].for
               /\ looker'[p].what = looker[p].what /\ looker'[p].got = looker[p].got
         /\ listed' \in [ConvIds -> RowRecord]
         /\ \A c \in ConvIds : listed'[c].at \in {listed[c].at, looker[p].got[c]}
         /\ Lists(listed') \/ UNCHANGED << listed, pages >>
  <1>1. looker \in [Lookers -> LookerRecord] /\ listed \in [ConvIds -> RowRecord]
        /\ since \in [marker : BOOLEAN, changed : SUBSET ConvIds]
    BY LookupParts
  <1> DEFINE got == looker[p].got
             table == [c \in ConvIds |-> IF got[c] # 0 THEN [title |-> c \in GroupConvs, at |-> got[c]] ELSE listed[c]]
             left == { c \in ConvIds : got[c] # 0 }
             does == IF left = {} THEN "reads" ELSE "writes"
             goes == Merged(looker[p], does, left)
  <1>2. got \in [ConvIds -> 0 .. Convs + MaxArrivals] /\ left \in SUBSET ConvIds /\ looker[p].after \in SUBSET ConvIds
    BY <1>1 DEF LookerRecord
  <1>3. table \in [ConvIds -> RowRecord] /\ \A c \in ConvIds : table[c].at \in {listed[c].at, got[c]}
    <2>1. ASSUME NEW c \in ConvIds
          PROVE  [title |-> c \in GroupConvs, at |-> got[c]] \in RowRecord /\ listed[c] \in RowRecord
      <3>1. (c \in GroupConvs) \in BOOLEAN
        OBVIOUS
      <3> QED
        BY <1>1, <1>2, <3>1 DEF RowRecord
    <2> QED
      BY <2>1
  <1>4. goes \in LookerRecord /\ goes.does \in {"reads", "writes"} /\ goes.for = looker[p].for
        /\ goes.what = looker[p].what /\ goes.got = got
    <2>1. does \in {"reads", "writes"}
      OBVIOUS
    <2> HIDE DEF does, left
    <2>2. looker[p] \in LookerRecord
      BY <1>1
    <2> QED
      BY <1>2, <2>1, <2>2, MergesEdit DEF got
  <1>5. /\ looker' = [looker EXCEPT ![p] = IF looker[p].for = "other" THEN Unasked ELSE goes]
        /\ \/ Lists(table) /\ since' = [marker |-> TRUE, changed |-> looker[p].after]
           \/ UNCHANGED << listed, pages, since >>
    BY DEF MergesLogin, Merged
  <1>6. Lists(table) => listed' = table
    BY DEF Lists
  <1> HIDE DEF got, table, left, goes
  <1>7. looker' \in [Lookers -> LookerRecord] /\ looker'[p] \in {Unasked, goes} /\ \A q \in Lookers : q # p => looker'[q] = looker[q]
    BY <1>1, <1>4, <1>5, UnaskedTyped
  <1>8. since' \in [marker : BOOLEAN, changed : SUBSET ConvIds]
    <2>1. [marker |-> TRUE, changed |-> looker[p].after] \in [marker : BOOLEAN, changed : SUBSET ConvIds]
      BY <1>2
    <2> QED
      BY <1>1, <1>5, <2>1
  <1>9. /\ listed' \in [ConvIds -> RowRecord] /\ \A c \in ConvIds : listed'[c].at \in {listed[c].at, got[c]}
        /\ Lists(listed') \/ UNCHANGED << listed, pages >>
    BY <1>1, <1>3, <1>5, <1>6
  <1> QED
    BY <1>4, <1>7, <1>8, <1>9 DEF got

LEMMA WriteKeeps ==
  ASSUME LookupTypeOK, NEW p \in Lookers, WritesRow(p)
  PROVE  /\ looker' \in [Lookers -> LookerRecord]
         /\ \A q \in Lookers : q # p => looker'[q] = looker[q]
         /\ looker'[p].does \in {"reads", "writes"} /\ looker'[p].for = looker[p].for
         /\ looker'[p].what = looker[p].what /\ looker'[p].got = looker[p].got
         /\ listed' \in [ConvIds -> RowRecord]
         /\ \A c \in ConvIds : listed'[c].at \in {listed[c].at, looker[p].got[c]}
         /\ Lists(listed')
  <1>1. looker \in [Lookers -> LookerRecord] /\ listed \in [ConvIds -> RowRecord]
    BY LookupParts
  <1> DEFINE task == looker[p]
             c == CHOOSE d \in task.left : \A e \in task.left : task.got[e] <= task.got[d]
             row == [title |-> c \in GroupConvs \cup task.with, at |-> task.got[c]]
  <1>2. /\ Lists([listed EXCEPT ![c] = row])
        /\ looker' = [looker EXCEPT ![p].left = @ \ {c}, ![p].does = IF task.left = {c} THEN "reads" ELSE "writes"]
    BY DEF WritesRow
  <1>3. listed' = [listed EXCEPT ![c] = row] /\ Lists(listed')
    BY <1>2 DEF Lists
  <1>4. row.at = task.got[c] /\ row.title \in BOOLEAN
    OBVIOUS
  <1>5. task.got \in [ConvIds -> 0 .. Convs + MaxArrivals]
    BY <1>1 DEF LookerRecord
  <1>6. c \in ConvIds => row \in RowRecord
    <2> HIDE DEF c
    <2>1. (c \in GroupConvs \cup task.with) \in BOOLEAN
      OBVIOUS
    <2> QED
      BY <1>5, <2>1 DEF RowRecord
  <1>7. /\ looker' \in [Lookers -> LookerRecord] /\ \A q \in Lookers : q # p => looker'[q] = looker[q]
        /\ looker'[p].does \in {"reads", "writes"} /\ looker'[p].for = looker[p].for
        /\ looker'[p].what = looker[p].what /\ looker'[p].got = looker[p].got
    <2> DEFINE does == IF task.left = {c} THEN "reads" ELSE "writes"
               s == RowWritten(task, does, task.left \ {c})
    <2>1. does \in {"reads", "writes"} /\ task.left \ {c} \in SUBSET ConvIds /\ task \in LookerRecord
      BY <1>1 DEF LookerRecord
    <2> HIDE DEF c
    <2>2. looker' = [looker EXCEPT ![p] = s]
      BY <1>1, <1>2 DEF RowWritten
    <2>3. s \in LookerRecord /\ s.does = does /\ s.for = task.for /\ s.what = task.what /\ s.got = task.got
      <3> HIDE DEF does, task
      <3> QED
        BY <2>1, WritesEdit
    <2> HIDE DEF s, does
    <2> QED
      BY <1>1, <2>1, <2>2, <2>3
  <1> HIDE DEF c, row, task
  <1>8. listed' \in [ConvIds -> RowRecord] /\ \A d \in ConvIds : listed'[d].at \in {listed[d].at, task.got[d]}
    BY <1>1, <1>3, <1>4, <1>6
  <1> QED
    BY <1>3, <1>7, <1>8 DEF task

LEMMA LookupTypeNext ==
  ASSUME LookupInv, [LookupNext]_lookupVars
  PROVE  LookupTypeOK'
  <1> USE DEF LookupInv
  <1>0. /\ lastAt \in [ConvIds -> 1 .. Convs + MaxArrivals] /\ listed \in [ConvIds -> RowRecord]
        /\ since \in [marker : BOOLEAN, changed : SUBSET ConvIds]
        /\ looker \in [Lookers -> LookerRecord] /\ pages \in PagesRecord /\ lookups \in 0 .. MaxLookups
    BY LookupParts
  <1> DEFINE Typed ==
        /\ lastAt' \in [ConvIds -> 1 .. Convs + MaxArrivals] /\ listed' \in [ConvIds -> RowRecord]
        /\ since' \in [marker : BOOLEAN, changed : SUBSET ConvIds]
        /\ looker' \in [Lookers -> LookerRecord] /\ pages' \in PagesRecord /\ lookups' \in 0 .. MaxLookups
  <1>1. ASSUME Typed PROVE LookupTypeOK'
    BY <1>1 DEF LookupTypeOK, LookerRecord, PagesRecord, RowRecord
  <1>2. ASSUME NEW table, Lists(table) PROVE pages' \in PagesRecord
    BY <1>0, <1>2 DEF Lists, PagesRecord
  <1>3. CASE ClearsList
    <2>1. [c \in ConvIds |-> NoRow] \in [ConvIds -> RowRecord]
      BY UnaskedTyped
    <2>2. pages' \in PagesRecord /\ listed' \in [ConvIds -> RowRecord]
      BY <1>2, <1>3, <2>1 DEF ClearsList, Lists
    <2>3. lookups' \in 0 .. MaxLookups
      BY <1>0, <1>3, LookupNumbers DEF ClearsList
    <2> QED
      BY <1>0, <1>1, <1>3, <2>2, <2>3 DEF ClearsList
  <1>4. ASSUME NEW c \in ConvIds, MessageArrives(c) PROVE LookupTypeOK'
    <2>1. looker' \in [Lookers -> LookerRecord]
      BY <1>4, ArrivalKeeps
    <2>2. PICK clock \in Nat : clock < Convs + MaxArrivals /\ lastAt' = [lastAt EXCEPT ![c] = clock + 1]
      BY <1>4, LookupClock DEF MessageArrives
    <2>3. lastAt' \in [ConvIds -> 1 .. Convs + MaxArrivals]
      BY <1>0, <2>2, LookupNumbers
    <2>4. since' \in [marker : BOOLEAN, changed : SUBSET ConvIds]
      BY <1>0, <1>4 DEF MessageArrives
    <2> QED
      BY <1>0, <1>1, <1>4, <2>1, <2>3, <2>4 DEF MessageArrives
  <1>5. ASSUME NEW p \in Lookers, NEW word \in Words, AsksName(p, word) PROVE LookupTypeOK'
    BY <1>0, <1>1, <1>5, LookupStartsTyped DEF AsksName
  <1>6. ASSUME NEW p \in Lookers, AsksOther(p) PROVE LookupTypeOK'
    BY <1>0, <1>1, <1>6, LookupStartsTyped DEF AsksOther
  <1>7. ASSUME NEW p \in Lookers, NEW filter \in Filters, NEW offline \in BOOLEAN, AsksPage(p, filter, offline)
        PROVE  LookupTypeOK'
    <2>1. looker' \in [Lookers -> LookerRecord] /\ lookups' \in 0 .. MaxLookups
      BY <1>7, LookupStartsTyped DEF AsksPage
    <2>2. pages' \in PagesRecord
      BY <1>0, <1>7, FirstTyped DEF AsksPage
    <2> QED
      BY <1>0, <1>1, <1>7, <2>1, <2>2 DEF AsksPage
  <1>8. ASSUME NEW p \in Lookers, LoginAnswers(p) PROVE LookupTypeOK'
    BY <1>0, <1>1, <1>8, LookupAnswerKeeps DEF LoginAnswers
  <1>9. ASSUME NEW p \in Lookers, MergesLogin(p) PROVE LookupTypeOK'
    <2>1. pages' \in PagesRecord
      BY <1>0, <1>2, <1>9, MergeKeeps
    <2>2. UNCHANGED << lastAt, lookups >>
      BY <1>9 DEF MergesLogin
    <2> QED
      BY <1>0, <1>1, <1>9, <2>1, <2>2, MergeKeeps
  <1>10. ASSUME NEW p \in Lookers, WritesRow(p) PROVE LookupTypeOK'
    <2>1. pages' \in PagesRecord
      BY <1>2, <1>10, WriteKeeps
    <2>2. UNCHANGED << lastAt, since, lookups >>
      BY <1>10 DEF WritesRow
    <2> QED
      BY <1>0, <1>1, <1>10, <2>1, <2>2, WriteKeeps
  <1>11. ASSUME NEW p \in Lookers, ReadsPage(p) PROVE LookupTypeOK'
    <2>1. PageOf(looker[p].what, Offset) \in SUBSET ConvIds
      BY DEF PageOf, Matching, ListedOf
    <2>2. looker' \in [Lookers -> LookerRecord]
      <3> DEFINE shown == PageOf(looker[p].what, Offset)
                 s == Reading(looker[p], "counts", shown)
      <3>1. looker' = [looker EXCEPT ![p].does = "counts", ![p].shown = shown]
        BY <1>11 DEF ReadsPage
      <3> HIDE DEF shown
      <3>2. looker' = [looker EXCEPT ![p] = s]
        BY <1>0, <3>1 DEF Reading
      <3>3. shown \in SUBSET ConvIds /\ looker[p] \in LookerRecord
        BY <1>0, <2>1 DEF shown
      <3>4. s \in LookerRecord
        BY <3>3, ReadsEdit
      <3> QED
        BY <1>0, <3>2, <3>4
    <2>3. pages' \in PagesRecord
      BY <1>0, <1>11 DEF ReadsPage, PagesRecord
    <2> QED
      BY <1>0, <1>1, <1>11, <2>2, <2>3 DEF ReadsPage
  <1>12. ASSUME NEW p \in Lookers, Counts(p) PROVE LookupTypeOK'
    <2>1. looker' \in [Lookers -> LookerRecord]
      BY <1>0, <1>12, UnaskedTyped DEF Counts
    <2>2. pages.next + 1 \in 1 .. MaxLookups + 1
      BY <1>0, <1>12, LookupNumbers DEF Counts, OnePager, PagesCounted, PagesRecord
    <2>3. looker[p].shown \in SUBSET ConvIds
      BY <1>0 DEF LookerRecord
    <2>4. pages' \in PagesRecord
      <3> DEFINE more == Offset + Cardinality(looker[p].shown) < Count(looker[p].what)
      <3>1. more \in BOOLEAN /\ (pages.twice \/ pages.seen \cap looker[p].shown # {}) \in BOOLEAN
        BY <1>0 DEF PagesRecord
      <3>2. pages' = [pages EXCEPT !.seen = @ \cup looker[p].shown, !.twice = @ \/ pages.seen \cap looker[p].shown # {},
                                   !.next = @ + 1, !.more = more, !.over = ~ more]
        BY <1>12 DEF Counts
      <3> HIDE DEF more
      <3> QED
        BY <1>0, <2>2, <2>3, <3>1, <3>2 DEF PagesRecord
    <2> QED
      BY <1>0, <1>1, <1>12, <2>1, <2>4 DEF Counts
  <1>13. ASSUME NEW p \in Lookers, PicksChat(p) PROVE LookupTypeOK'
    <2> DEFINE matches == { c \in ListedOf(listed) : listed[c].title /\ c \in TitleWords[looker[p].what] }
               picked == [Unasked EXCEPT !.does = "acts", !.for = "name", !.what = looker[p].what,
                                         !.chat = CHOOSE c \in matches : TRUE]
    <2>1. Cardinality(matches) = 1 => picked \in LookerRecord
      <3>1. ASSUME Cardinality(matches) = 1 PROVE (CHOOSE c \in matches : TRUE) \in ConvIds
        <4>1. Cardinality({}) = 0
          BY FS_EmptySet
        <4>2. matches # {}
          <5> HIDE DEF matches
          <5> QED
            BY <3>1, <4>1
        <4> QED
          BY <4>2 DEF ListedOf
      <3> DEFINE chat == CHOOSE c \in matches : TRUE
      <3>2. Cardinality(matches) = 1 => chat \in 0 .. Convs
        BY <3>1, LookupNumbers DEF ConvIds
      <3>3. looker[p].what \in {"all"} \cup Filters \cup Words /\ Unasked \in LookerRecord
        BY <1>0, UnaskedTyped DEF LookerRecord
      <3> HIDE DEF chat, matches
      <3> QED
        <4>1. LET s == [[[Unasked EXCEPT !.does = "acts"] EXCEPT !.for = "name"] EXCEPT !.what = looker[p].what] IN
              Cardinality(matches) = 1 => [s EXCEPT !.chat = chat] \in LookerRecord
          BY <3>2, <3>3 DEF LookerRecord
        <4> QED
          BY <4>1 DEF chat
    <2>2. looker' = [looker EXCEPT ![p] = IF Cardinality(matches) = 1 THEN picked ELSE Unasked]
      BY <1>13 DEF PicksChat
    <2> HIDE DEF matches, picked
    <2>3. looker' \in [Lookers -> LookerRecord]
      BY <1>0, <2>1, <2>2, UnaskedTyped
    <2> QED
      BY <1>0, <1>1, <1>13, <2>3 DEF PicksChat
  <1>14. ASSUME NEW p \in Lookers, EndsLookup(p) PROVE LookupTypeOK'
    <2>1. looker' \in [Lookers -> LookerRecord]
      BY <1>0, <1>14, UnaskedTyped DEF EndsLookup
    <2> QED
      BY <1>0, <1>1, <1>14, <2>1 DEF EndsLookup
  <1>15. CASE UNCHANGED lookupVars
    BY <1>0, <1>1, <1>15 DEF lookupVars
  <1> QED
    BY <1>3, <1>4, <1>5, <1>6, <1>7, <1>8, <1>9, <1>10, <1>11, <1>12, <1>13, <1>14, <1>15 DEF LookupNext

\* What a step leaves of the times: those it had, or a new one for one chat.
LEMMA TimesShrink ==
  ASSUME LookupTypeOK, TimesTold, lastAt' = lastAt,
         \A c \in ConvIds : listed'[c].at \in TimesKnown(c) \cup {0},
         \A q \in Lookers, c \in ConvIds : looker'[q].got[c] \in TimesKnown(c) \cup {0}
  PROVE  TimesTold'
  <1>1. lastAt \in [ConvIds -> 1 .. Convs + MaxArrivals]
    BY LookupParts
  <1>2. ASSUME NEW c \in ConvIds PROVE TimesKnown(c)' \subseteq TimesKnown(c)
    <2>1. lastAt[c] \in TimesKnown(c)
      BY <1>1, LookupNumbers DEF TimesKnown
    <2> QED
      BY <2>1 DEF TimesKnown
  <1> QED
    BY <1>2 DEF TimesTold

LEMMA TimesToldInit == LookupInit => TimesTold
  <1> SUFFICES ASSUME LookupInit PROVE TimesTold
    OBVIOUS
  <1>1. ASSUME NEW c \in ConvIds PROVE TimesKnown(c) = {c} /\ lastAt[c] = c
    BY <1>1, UnaskedTyped, LookupNumbers DEF LookupInit, TimesKnown, NoRow
  <1>2. \A c \in ConvIds : c <= c
    BY LookupNumbers
  <1> QED
    BY <1>1, <1>2 DEF TimesTold

LEMMA TimesToldNext ==
  ASSUME LookupInv, [LookupNext]_lookupVars
  PROVE  TimesTold'
  <1> USE DEF LookupInv
  <1>0. looker \in [Lookers -> LookerRecord] /\ listed \in [ConvIds -> RowRecord]
        /\ lastAt \in [ConvIds -> 1 .. Convs + MaxArrivals]
    BY LookupParts
  <1>1. /\ \A c \in ConvIds : listed[c].at \in TimesKnown(c) \cup {0} /\ lastAt[c] \in TimesKnown(c) \cup {0}
        /\ \A q \in Lookers, c \in ConvIds : looker[q].got[c] \in TimesKnown(c) \cup {0} /\ Unasked.got[c] \in TimesKnown(c) \cup {0}
    BY UnaskedTyped DEF TimesKnown
  <1>2. ASSUME lastAt' = lastAt, \A c \in ConvIds : listed'[c].at \in TimesKnown(c) \cup {0},
               NEW p \in Lookers, \A q \in Lookers : q # p => looker'[q] = looker[q],
               \A c \in ConvIds : looker'[p].got[c] \in TimesKnown(c) \cup {0}
        PROVE  TimesTold'
    <2>1. \A q \in Lookers, c \in ConvIds : looker'[q].got[c] \in TimesKnown(c) \cup {0}
      BY <1>1, <1>2
    <2> QED
      BY <1>2, <2>1, TimesShrink
  <1>3. CASE ClearsList
    <2>1. \A c \in ConvIds : listed'[c].at = 0
      BY <1>3 DEF ClearsList, Lists, NoRow
    <2> QED
      BY <1>1, <1>3, <2>1, TimesShrink DEF ClearsList
  <1>4. ASSUME NEW c \in ConvIds, MessageArrives(c) PROVE TimesTold'
    <2>1. PICK clock \in Nat : /\ lastAt' = [lastAt EXCEPT ![c] = clock + 1] /\ listed' = listed
                               /\ \A d \in ConvIds : lastAt[d] <= clock
      BY <1>4, LookupClock DEF MessageArrives
    <2>2. \A q \in Lookers : looker'[q].got = looker[q].got
      BY <1>4, ArrivalKeeps
    <2>3. TimesKnown(c)' \subseteq TimesKnown(c) \cup {clock + 1} /\ lastAt'[c] = clock + 1
      BY <1>0, <2>1, <2>2 DEF TimesKnown
    <2>4. \A d \in ConvIds : d # c => TimesKnown(d)' = TimesKnown(d) /\ lastAt'[d] = lastAt[d]
      BY <1>0, <2>1, <2>2 DEF TimesKnown
    <2>5. \A d \in ConvIds : \A t \in TimesKnown(d) : t \in Nat /\ t <= lastAt[d] /\ t <= clock
      <3>1. \A d \in ConvIds : \A t \in TimesKnown(d) : t \in Nat
        BY <1>0, LookupNumbers DEF TimesKnown, LookerRecord, RowRecord
      <3>2. \A d \in ConvIds : lastAt[d] \in Nat /\ lastAt[d] <= clock
        BY <1>0, <2>1, LookupNumbers
      <3> QED
        BY <3>1, <3>2 DEF TimesTold
    <2>6. \A d \in ConvIds : clock + 1 \notin TimesKnown(d)
      BY <2>5
    <2>7. \A d \in ConvIds : \A t \in TimesKnown(d)' : t <= lastAt'[d]
      <3>1. \A t \in TimesKnown(c)' : t <= lastAt'[c]
        BY <2>3, <2>5
      <3>2. \A d \in ConvIds : d # c => \A t \in TimesKnown(d)' : t <= lastAt'[d]
        BY <2>4, <2>5
      <3> QED
        BY <3>1, <3>2
    <2>8. \A d, e \in ConvIds : TimesKnown(d)' \cap TimesKnown(e)' # {} => d = e
      <3>1. \A d, e \in ConvIds : TimesKnown(d) \cap TimesKnown(e) # {} => d = e
        BY DEF TimesTold
      <3> HIDE DEF LookupInv
      <3>2. \A d \in ConvIds : TimesKnown(d)' \subseteq TimesKnown(d) \cup {clock + 1} /\ (d # c => TimesKnown(d)' = TimesKnown(d))
        BY <2>3, <2>4
      <3> QED
        BY <2>6, <3>1, <3>2
    <2> QED
      BY <2>7, <2>8 DEF TimesTold
  <1>5. ASSUME NEW p \in Lookers, NEW does \in {"asks", "reads"}, NEW for \in {"other", "name", "page"},
               NEW what \in {"all"} \cup Filters \cup Words, StartsLookup(p, does, for, what),
               UNCHANGED << lastAt, listed >>
        PROVE  TimesTold'
    BY <1>1, <1>2, <1>5, LookupStartsTyped
  <1>6. ASSUME NEW p \in Lookers, LoginAnswers(p) PROVE TimesTold'
    <2>1. \A c \in ConvIds : looker'[p].got[c] \in TimesKnown(c) \cup {0}
      BY <1>1, <1>6, LookupAnswerKeeps
    <2>2. \A q \in Lookers : q # p => looker'[q] = looker[q]
      BY <1>6, LookupAnswerKeeps
    <2>3. UNCHANGED << lastAt, listed >>
      BY <1>6 DEF LoginAnswers
    <2> QED
      BY <1>1, <1>2, <2>1, <2>2, <2>3
  <1>7. ASSUME NEW p \in Lookers, MergesLogin(p) \/ WritesRow(p) PROVE TimesTold'
    <2>1. \A c \in ConvIds : listed'[c].at \in TimesKnown(c) \cup {0}
      <3>1. \A c \in ConvIds : listed'[c].at \in {listed[c].at, looker[p].got[c]}
        BY <1>7, MergeKeeps, WriteKeeps
      <3> QED
        BY <1>1, <3>1
    <2>2. \A q \in Lookers : q # p => looker'[q] = looker[q]
      BY <1>7, MergeKeeps, WriteKeeps
    <2>3. looker'[p].got \in {looker[p].got, Unasked.got}
      BY <1>7, MergeKeeps, WriteKeeps
    <2>4. lastAt' = lastAt
      BY <1>7 DEF MergesLogin, WritesRow
    <2> QED
      BY <1>1, <1>2, <2>1, <2>2, <2>3, <2>4
  <1>8. ASSUME NEW p \in Lookers, ReadsPage(p) \/ Counts(p) \/ PicksChat(p) \/ EndsLookup(p) PROVE TimesTold'
    <2>1. looker'[p].got \in {looker[p].got, Unasked.got}
      <3>1. CASE ReadsPage(p)
        BY <1>0, <3>1 DEF ReadsPage, LookerRecord
      <3>2. CASE Counts(p) \/ EndsLookup(p)
        BY <1>0, <3>2 DEF Counts, EndsLookup
      <3>3. CASE PicksChat(p)
        BY <1>0, <3>3 DEF PicksChat, Unasked
      <3> QED
        BY <1>8, <3>1, <3>2, <3>3
    <2>2. \A q \in Lookers : q # p => looker'[q] = looker[q]
      BY <1>0, <1>8 DEF ReadsPage, Counts, PicksChat, EndsLookup
    <2>3. UNCHANGED << lastAt, listed >>
      BY <1>8 DEF ReadsPage, Counts, PicksChat, EndsLookup
    <2> QED
      BY <1>1, <1>2, <2>1, <2>2, <2>3
  <1>9. CASE UNCHANGED lookupVars
    BY <1>1, <1>9, TimesShrink DEF lookupVars
  <1>10. ASSUME NEW p \in Lookers, NEW word \in Words, AsksName(p, word) PROVE TimesTold'
    BY <1>5, <1>10 DEF AsksName
  <1>11. ASSUME NEW p \in Lookers, AsksOther(p) PROVE TimesTold'
    BY <1>5, <1>11 DEF AsksOther
  <1>12. ASSUME NEW p \in Lookers, NEW filter \in Filters, NEW offline \in BOOLEAN, AsksPage(p, filter, offline)
         PROVE  TimesTold'
    BY <1>5, <1>12 DEF AsksPage
  <1> QED
    BY <1>3, <1>4, <1>6, <1>7, <1>8, <1>9, <1>10, <1>11, <1>12 DEF LookupNext

\* The rows of a listing differ in their times.
LEMMA MatchingFacts ==
  ASSUME LookupTypeOK, TimesTold, NEW filter
  PROVE  /\ Matching(filter) \in SUBSET ConvIds
         /\ \A c \in Matching(filter) : listed[c].at \in Nat
         /\ \A c, d \in Matching(filter) : listed[c].at = listed[d].at => c = d
  <1>1. listed \in [ConvIds -> RowRecord]
    BY LookupParts
  <1>2. \A c \in Matching(filter) : c \in ConvIds /\ listed[c].at # 0
    BY DEF Matching, ListedOf
  <1>3. \A c \in Matching(filter) : listed[c].at \in Nat /\ listed[c].at \in TimesKnown(c)
    BY <1>1, <1>2, LookupNumbers DEF RowRecord, TimesKnown
  <1>4. \A c, d \in ConvIds : TimesKnown(c) \cap TimesKnown(d) # {} => c = d
    BY DEF TimesTold
  <1>5. \A c, d \in Matching(filter) : listed[c].at = listed[d].at => c = d
    <2> TAKE c, d \in Matching(filter)
    <2> HAVE listed[c].at = listed[d].at
    <2>1. listed[c].at \in TimesKnown(c) \cap TimesKnown(d)
      BY <1>3
    <2> QED
      BY <1>2, <1>4, <2>1
  <1> QED
    BY <1>2, <1>3, <1>5

\* What a step other than a page's leaves of a command.
Tame(q) ==
  /\ looker'[q].for = "page" => looker[q].for = "page" /\ looker'[q].what = looker[q].what
  /\ looker'[q].does = "counts" =>
       looker[q].does = "counts" /\ looker'[q].for = looker[q].for /\ looker'[q].shown = looker[q].shown

LEMMA PagesStand ==
  ASSUME LookupInv, \A q \in Lookers : Tame(q), Lists(listed') \/ UNCHANGED << listed, pages >>,
         lookups' \in {lookups, lookups + 1}
  PROVE  OnePager' /\ PagesCounted' /\ PagesShown'
  <1>0. pages \in PagesRecord /\ lookups \in Nat
    BY LookupParts, LookupNumbers DEF LookupInv
  <1>1. /\ pages'.filter = pages.filter /\ pages'.next = pages.next /\ pages'.seen = pages.seen
        /\ pages'.twice = pages.twice /\ pages'.more = pages.more /\ pages'.over = pages.over
        /\ pages'.still => pages.still /\ listed' = listed
    <2>1. CASE UNCHANGED << listed, pages >>
      BY <2>1
    <2>2. CASE pages' = [pages EXCEPT !.still = @ /\ listed' = listed]
      BY <1>0, <2>2 DEF PagesRecord
    <2> QED
      BY <2>1, <2>2 DEF Lists
  <1>2. OnePager'
    BY <1>1 DEF OnePager, Tame, LookupInv
  <1>3. PagesCounted'
    BY <1>0, <1>1 DEF PagesCounted, Tame, LookupInv, PagesRecord
  <1>4. PagesShown'
    <2> SUFFICES ASSUME pages'.still PROVE PagesShown'
      BY DEF PagesShown
    <2>1. pages.still /\ listed' = listed
      BY <1>1
    <2>2. Matching(pages.filter)' = Matching(pages.filter)
      BY <1>1, <2>1 DEF Matching, ListedOf
    <2>3. /\ PagesFit(pages, Matching(pages.filter), listed)
          /\ \A p \in Lookers : looker[p].does = "counts" =>
               looker[p].shown = Window(Matching(pages.filter), listed, (pages.next - 1) * PageRows)
      BY <2>1 DEF PagesShown, LookupInv
    <2>4. PagesFit(pages', Matching(pages.filter)', listed')
      BY <1>1, <2>1, <2>2, <2>3 DEF PagesFit
    <2>5. \A p \in Lookers : looker'[p].does = "counts" =>
            looker'[p].shown = Window(Matching(pages.filter)', listed', (pages'.next - 1) * PageRows)
      BY <1>1, <2>1, <2>2, <2>3 DEF Tame
    <2> QED
      BY <2>4, <2>5 DEF PagesShown
  <1> QED
    BY <1>2, <1>3, <1>4

LEMMA AsksPageKeeps ==
  ASSUME LookupInv, NEW p \in Lookers, NEW filter \in Filters, NEW offline \in BOOLEAN, AsksPage(p, filter, offline)
  PROVE  OnePager' /\ PagesCounted' /\ PagesShown'
  <1>0. pages \in PagesRecord /\ lookups \in Nat /\ LookupTypeOK
    BY LookupParts, LookupNumbers DEF LookupInv
  <1>1. /\ \A q \in Lookers : q # p => looker'[q] = looker[q]
        /\ looker'[p].does \in {"asks", "reads"} /\ looker'[p].for = "page" /\ looker'[p].what = filter
        /\ lookups' = lookups + 1
    BY <1>0, LookupStartsTyped DEF AsksPage
  <1>2. /\ \A q \in Lookers : looker[q].for # "page" /\ looker[q].does # "counts"
        /\ listed' = listed
    BY DEF AsksPage, LookupInv, OnePager
  <1>3. pages'.filter = filter /\ OnePager'
    <2>1. pages'.filter = filter
      BY <1>0 DEF AsksPage, FirstPage
    <2> QED
      BY <1>1, <1>2, <2>1 DEF OnePager
  <1>4. CASE pages' = [FirstPage EXCEPT !.filter = filter]
    <2>1. /\ pages'.next = 1 /\ pages'.seen = {} /\ ~pages'.twice /\ ~pages'.more /\ ~pages'.over /\ ~pages'.still
      BY <1>4 DEF FirstPage
    <2> QED
      BY <1>0, <1>1, <1>3, <2>1 DEF PagesCounted, PagesShown
  <1>5. CASE pages' = pages
    <2>1. PagesCounted'
      BY <1>0, <1>1, <1>5 DEF PagesCounted, LookupInv, PagesRecord
    <2>2. PagesShown'
      <3>1. Matching(pages.filter)' = Matching(pages.filter)
        BY <1>2, <1>5 DEF Matching, ListedOf
      <3>2. \A q \in Lookers : looker'[q].does # "counts"
        BY <1>1, <1>2
      <3> QED
        BY <1>2, <1>5, <3>1, <3>2 DEF PagesShown, PagesFit, LookupInv
    <2> QED
      BY <1>3, <2>1, <2>2
  <1> QED
    BY <1>4, <1>5 DEF AsksPage

LEMMA ReadsPageKeeps ==
  ASSUME LookupInv, NEW p \in Lookers, ReadsPage(p)
  PROVE  OnePager' /\ PagesCounted' /\ PagesShown'
  <1>0. pages \in PagesRecord /\ lookups \in Nat /\ LookupTypeOK /\ looker \in [Lookers -> LookerRecord]
    BY LookupParts, LookupNumbers DEF LookupInv
  <1>1. /\ \A q \in Lookers : q # p => looker'[q] = looker[q]
        /\ looker'[p].for = "page" /\ looker[p].for = "page" /\ looker'[p].what = looker[p].what
        /\ looker'[p].shown = PageOf(pages.filter, Offset)
        /\ listed' = listed /\ lookups' = lookups
    <2>1. looker[p].what = pages.filter
      BY DEF ReadsPage, LookupInv, OnePager
    <2> QED
      BY <1>0, <2>1 DEF ReadsPage, LookerRecord
  <1>2. /\ pages'.filter = pages.filter /\ pages'.next = pages.next /\ pages'.seen = pages.seen
        /\ pages'.twice = pages.twice /\ pages'.more = pages.more /\ pages'.over = pages.over
        /\ pages'.still => pages.still \/ pages.next = 1
    BY <1>0 DEF ReadsPage, PagesRecord
  <1>3. OnePager'
    BY <1>1, <1>2 DEF OnePager, LookupInv
  <1>4. PagesCounted'
    BY <1>1, <1>2 DEF PagesCounted, LookupInv
  <1>5. PagesShown'
    <2> SUFFICES ASSUME pages'.still PROVE PagesShown'
      BY DEF PagesShown
    <2>1. Matching(pages.filter)' = Matching(pages.filter)
      BY <1>1, <1>2 DEF Matching, ListedOf
    <2>2. PageOf(pages.filter, Offset) = Window(Matching(pages.filter), listed, (pages.next - 1) * PageRows)
      BY DEF PageOf, Window, RankIn, Offset
    <2>3. \A q \in Lookers : looker'[q].does = "counts" => q = p
      BY <1>1 DEF LookupInv, OnePager
    <2>4. PagesFit(pages, Matching(pages.filter), listed)
      <3>1. CASE pages.next = 1
        <4>1. FirstOf(Matching(pages.filter), listed, 0) = {}
          BY MatchingFacts, NextWindow DEF LookupInv
        <4>2. (1 - 1) * PageRows = 0
          BY LookupNumbers
        <4> QED
          BY <3>1, <4>1, <4>2 DEF PagesFit, LookupInv, PagesCounted
      <3>2. CASE pages.still
        BY <3>2 DEF PagesShown, LookupInv
      <3> QED
        BY <1>2, <3>1, <3>2
    <2>5. PagesFit(pages', Matching(pages.filter)', listed')
      BY <1>1, <1>2, <2>1, <2>4 DEF PagesFit
    <2>6. \A q \in Lookers : looker'[q].does = "counts" =>
            looker'[q].shown = Window(Matching(pages.filter)', listed', (pages'.next - 1) * PageRows)
      BY <1>1, <1>2, <2>1, <2>2, <2>3
    <2> QED
      BY <2>5, <2>6 DEF PagesShown
  <1> QED
    BY <1>3, <1>4, <1>5

LEMMA CountsKeeps ==
  ASSUME LookupInv, NEW p \in Lookers, Counts(p)
  PROVE  OnePager' /\ PagesCounted' /\ PagesShown'
  <1>0. pages \in PagesRecord /\ lookups \in Nat /\ LookupTypeOK /\ looker \in [Lookers -> LookerRecord]
        /\ pages.next \in Nat \ {0} /\ pages.twice \in BOOLEAN
    BY LookupParts, LookupNumbers DEF LookupInv, PagesRecord
  <1> DEFINE shown == looker[p].shown
             more == Offset + Cardinality(shown) < Count(pages.filter)
  <1>1. /\ \A q \in Lookers : q # p => looker'[q] = looker[q]
        /\ looker'[p] = Unasked /\ listed' = listed /\ lookups' = lookups
        /\ looker[p].for = "page" /\ looker[p].what = pages.filter /\ looker[p].does = "counts"
    BY <1>0 DEF Counts, LookupInv, OnePager
  <1>2. pages' = [pages EXCEPT !.seen = @ \cup shown, !.twice = @ \/ pages.seen \cap shown # {},
                               !.next = @ + 1, !.more = more, !.over = ~ more]
    BY <1>1 DEF Counts
  <1>3. /\ pages'.filter = pages.filter /\ pages'.next = pages.next + 1 /\ pages'.seen = pages.seen \cup shown
        /\ pages'.twice = (pages.twice \/ pages.seen \cap shown # {}) /\ pages'.more = more /\ pages'.over = ~ more
        /\ pages'.still = pages.still
    <2> HIDE DEF shown, more
    <2> QED
      BY <1>0, <1>2 DEF PagesRecord
  <1>4. \A q \in Lookers : looker'[q].for # "page" /\ looker'[q].does # "counts"
    BY <1>1, UnaskedTyped DEF LookupInv, OnePager
  <1>5. OnePager'
    BY <1>4 DEF OnePager
  <1>6. PagesCounted'
    <2>1. pages.next <= lookups
      BY <1>1 DEF LookupInv, PagesCounted
    <2> QED
      BY <1>0, <1>1, <1>3, <1>4, <2>1 DEF PagesCounted
  <1>7. PagesShown'
    <2> SUFFICES ASSUME pages.still PROVE PagesFit(pages', Matching(pages.filter)', listed')
      BY <1>3, <1>4 DEF PagesShown
    <2> DEFINE M == Matching(pages.filter)
               n == (pages.next - 1) * PageRows
    <2>1. Matching(pages.filter)' = M
      BY <1>1, <1>3 DEF Matching, ListedOf
    <2>2. n \in Nat /\ (pages.next + 1 - 1) * PageRows = n + PageRows
      <3>1. PICK k \in Nat : pages.next = k + 1
        BY <1>0
      <3>2. k * PageRows \in Nat /\ (k + 1) * PageRows = k * PageRows + PageRows
        BY LookupNumbers
      <3>3. k + 1 - 1 = k /\ k + 1 + 1 - 1 = k + 1
        OBVIOUS
      <3> QED
        BY <3>1, <3>2, <3>3
    <2>3. PagesFit(pages, M, listed) /\ shown = Window(M, listed, n)
      BY <1>1 DEF PagesShown, LookupInv
    <2>4. more = (n + Cardinality(shown) < Cardinality(M))
      BY DEF Offset, Count
    <2>5. /\ FirstOf(M, listed, n) \cup Window(M, listed, n) = FirstOf(M, listed, n + PageRows)
          /\ FirstOf(M, listed, n) \cap Window(M, listed, n) = {}
          /\ n + Cardinality(Window(M, listed, n)) < Cardinality(M) => FirstOf(M, listed, n + PageRows) # M
          /\ ~(n + Cardinality(Window(M, listed, n)) < Cardinality(M)) => FirstOf(M, listed, n + PageRows) = M
      BY <2>2, MatchingFacts, NextWindow DEF LookupInv
    <2> HIDE DEF M, n, shown, more
    <2>6. pages.seen = FirstOf(M, listed, n) /\ ~pages.twice
      BY <2>3 DEF PagesFit, n
    <2>7. pages'.seen = FirstOf(M, listed, n + PageRows) /\ ~pages'.twice
      BY <1>3, <2>3, <2>5, <2>6
    <2>8. (pages'.over => pages'.seen = M) /\ (pages'.more => pages'.seen # M)
      BY <1>3, <2>3, <2>4, <2>5, <2>7
    <2>9. (pages'.next - 1) * PageRows = n + PageRows
      <3>1. pages'.next - 1 = pages.next + 1 - 1
        BY <1>0, <1>3
      <3> QED
        BY <2>2, <3>1
    <2> QED
      BY <1>1, <2>1, <2>7, <2>8, <2>9 DEF PagesFit
  <1> QED
    BY <1>5, <1>6, <1>7

LEMMA PagesNext ==
  ASSUME LookupInv, [LookupNext]_lookupVars
  PROVE  OnePager' /\ PagesCounted' /\ PagesShown'
  <1>0. LookupTypeOK /\ looker \in [Lookers -> LookerRecord] /\ "counts" # "rest" /\ Unasked.for # "page" /\ Unasked.does # "counts"
    BY LookupParts, UnaskedTyped DEF LookupInv
  <1>1. CASE ClearsList
    <2>1. Lists(listed') /\ looker' = looker /\ lookups' = lookups + 1
      BY <1>1 DEF ClearsList, Lists
    <2> QED
      BY <2>1, PagesStand DEF Tame
  <1>2. ASSUME NEW c \in ConvIds, MessageArrives(c) PROVE OnePager' /\ PagesCounted' /\ PagesShown'
    <2>1. \A q \in Lookers : Tame(q)
      BY <1>0, <1>2, ArrivalKeeps DEF Tame
    <2>2. UNCHANGED << listed, pages, lookups >>
      BY <1>2 DEF MessageArrives
    <2> QED
      BY <2>1, <2>2, PagesStand
  <1>3. ASSUME NEW p \in Lookers, \A q \in Lookers : q # p => looker'[q] = looker[q], Tame(p) PROVE \A q \in Lookers : Tame(q)
    BY <1>3 DEF Tame
  <1>4. ASSUME NEW p \in Lookers, AsksOther(p) PROVE OnePager' /\ PagesCounted' /\ PagesShown'
    <2>1. Tame(p) /\ \A q \in Lookers : q # p => looker'[q] = looker[q]
      BY <1>0, <1>4, LookupStartsTyped DEF AsksOther, Tame
    <2>2. lookups' = lookups + 1 /\ UNCHANGED << listed, pages >>
      BY <1>4 DEF AsksOther, StartsLookup
    <2> QED
      BY <1>3, <2>1, <2>2, PagesStand
  <1>5. ASSUME NEW p \in Lookers, NEW word \in Words, AsksName(p, word) PROVE OnePager' /\ PagesCounted' /\ PagesShown'
    <2>1. Tame(p) /\ \A q \in Lookers : q # p => looker'[q] = looker[q]
      BY <1>0, <1>5, LookupStartsTyped DEF AsksName, Tame
    <2>2. lookups' = lookups + 1 /\ UNCHANGED << listed, pages >>
      BY <1>5 DEF AsksName, StartsLookup
    <2> QED
      BY <1>3, <2>1, <2>2, PagesStand
  <1>6. ASSUME NEW p \in Lookers, LoginAnswers(p) PROVE OnePager' /\ PagesCounted' /\ PagesShown'
    <2>1. Tame(p) /\ \A q \in Lookers : q # p => looker'[q] = looker[q]
      BY <1>0, <1>6, LookupAnswerKeeps DEF Tame
    <2>2. UNCHANGED << listed, pages, lookups >>
      BY <1>6 DEF LoginAnswers
    <2> QED
      BY <1>3, <2>1, <2>2, PagesStand
  <1>7. ASSUME NEW p \in Lookers, MergesLogin(p) PROVE OnePager' /\ PagesCounted' /\ PagesShown'
    <2>1. Tame(p) /\ \A q \in Lookers : q # p => looker'[q] = looker[q]
      BY <1>0, <1>7, MergeKeeps DEF Tame
    <2>2. Lists(listed') \/ UNCHANGED << listed, pages >>
      BY <1>0, <1>7, MergeKeeps
    <2>3. lookups' = lookups
      BY <1>7 DEF MergesLogin
    <2> QED
      BY <1>3, <2>1, <2>2, <2>3, PagesStand
  <1>8. ASSUME NEW p \in Lookers, WritesRow(p) PROVE OnePager' /\ PagesCounted' /\ PagesShown'
    <2>1. Tame(p) /\ \A q \in Lookers : q # p => looker'[q] = looker[q]
      BY <1>0, <1>8, WriteKeeps DEF Tame
    <2>2. Lists(listed')
      BY <1>0, <1>8, WriteKeeps
    <2>3. lookups' = lookups
      BY <1>8 DEF WritesRow
    <2> QED
      BY <1>3, <2>1, <2>2, <2>3, PagesStand
  <1>9. ASSUME NEW p \in Lookers, PicksChat(p) \/ EndsLookup(p) PROVE OnePager' /\ PagesCounted' /\ PagesShown'
    <2>1. looker'[p].for # "page" /\ looker'[p].does # "counts"
      <3>1. CASE PicksChat(p)
        BY <1>0, <3>1 DEF PicksChat, Unasked
      <3>2. CASE EndsLookup(p)
        BY <1>0, <3>2 DEF EndsLookup
      <3> QED
        BY <1>9, <3>1, <3>2
    <2>2. \A q \in Lookers : q # p => looker'[q] = looker[q]
      BY <1>0, <1>9 DEF PicksChat, EndsLookup
    <2>3. UNCHANGED << listed, pages, lookups >>
      BY <1>9 DEF PicksChat, EndsLookup
    <2>4. Tame(p)
      BY <2>1 DEF Tame
    <2> QED
      BY <1>3, <2>2, <2>3, <2>4, PagesStand
  <1>10. CASE UNCHANGED lookupVars
    BY <1>10, PagesStand DEF lookupVars, Tame
  <1> QED
    BY <1>1, <1>2, <1>4, <1>5, <1>6, <1>7, <1>8, <1>9, <1>10, AsksPageKeeps, ReadsPageKeeps, CountsKeeps DEF LookupNext

LEMMA LookupInvHolds == LookupSpec => []LookupInv
  <1>1. LookupInit => LookupInv
    <2> SUFFICES ASSUME LookupInit PROVE LookupInv
      OBVIOUS
    <2>1. OnePager
      BY UnaskedTyped DEF LookupInit, OnePager
    <2>2. PagesCounted /\ PagesShown
      BY UnaskedTyped DEF LookupInit, PagesCounted, PagesShown, FirstPage
    <2> QED
      BY <2>1, <2>2, LookupTypeInit, TimesToldInit DEF LookupInv
  <1>2. LookupInv /\ [LookupNext]_lookupVars => LookupInv'
    BY LookupTypeNext, TimesToldNext, PagesNext DEF LookupInv
  <1> QED
    BY <1>1, <1>2, PTL DEF LookupSpec

\* The rows, the commands and the pages keep their types (src/src/client.ts, chats.list and chats.resolve).
THEOREM LookupTypeCorrect == LookupSpec => []LookupTypeOK
  BY LookupInvHolds, PTL DEF LookupInv

\* Page after page an owner is shown every chat of the list once, and told rightly whether there is more, as
\* long as no row changed since the first page (chats.list of src/src/client.ts, src/src/commands/paging.ts).
THEOREM PagesShowTheList == LookupSpec => []PagesAreTheList
  <1>1. LookupInv => PagesAreTheList
    <2> SUFFICES ASSUME LookupInv, pages.still
                 PROVE  LET all == Matching(pages.filter) IN
                        /\ ~ pages.twice
                        /\ pages.over => pages.seen = all
                        /\ pages.more => pages.seen \subseteq all /\ pages.seen # all
      BY DEF PagesAreTheList
    <2>1. PagesFit(pages, Matching(pages.filter), listed)
      BY DEF LookupInv, PagesShown
    <2> QED
      BY <2>1 DEF PagesFit, FirstOf
  <1> QED
    BY <1>1, LookupInvHolds, PTL
=============================================================================

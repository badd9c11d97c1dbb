----------------------------- MODULE HostProofs -----------------------------
(***************************************************************************)
(* What lies between an agent or an owner and the account: the writes they *)
(* let through, the record a command leaves, and what a watcher hears.     *)
(* What McpHost, Permits, Settings, RunRecords and PushRelay promise, for  *)
(* every value of their constants.                                         *)
(***************************************************************************)
EXTENDS McpHost, Permits, Settings, RunRecords, PushRelay, SequenceTheorems, FiniteSetTheorems, TLAPS

----------------------------------------------------------------------------

\* McpHost: what each call, form and client is at any time.
AskRecords ==
  [kind : {"none", "read", "transcribe", "write"}, wording : Wordings \cup {Nobody},
   when : Whens \cup {AtOnce}, answer : {"missing", "decline", "accept"}, form : Nat, due : Nat]
FormRecords == [seal : Seals, due : Nat, made : 0 .. MaxClock]
ActRecords == [form : Nat \ {0}, what : Seals, due : Nat]

\* A call is one that asks, or one that agrees to a form there was.
AskOfKind(c) ==
  \/ asked[c] = NotAsked
  \/ asked[c] \in Demands
  \/ /\ asked[c].kind = "write" /\ asked[c].wording \in Wordings /\ asked[c].when \in Whens
     /\ asked[c].answer = "accept" /\ asked[c].form \in 1 .. Len(forms)

McpTyped ==
  /\ bounded \in BOOLEAN /\ aged \in BOOLEAN /\ idle \in BOOLEAN
  /\ queue \in Seq(Calls) /\ turn \in Calls \cup {Nobody}
  /\ rescue \in {"none", "deadline", "release"}
  /\ body \in [Calls -> {"none", "aging", "opening", "runs", "aside", "acting", "ended"}]
  /\ opened \in 0 .. MaxClients /\ held \in 0 .. opened /\ client \in [Calls -> 0 .. opened]
  /\ alive \subseteq 1 .. opened
  /\ shutting \in {"no", "closed", "done"}
  /\ named \in Rooms /\ clock \in 0 .. MaxClock

FormsTyped ==
  /\ asked \in [Calls -> AskRecords]
  /\ \A c \in Calls : AskOfKind(c)
  /\ forms \in Seq(FormRecords) /\ acts \in Seq(ActRecords)
  /\ issued \subseteq 1 .. Len(forms)
  /\ \A i \in 1 .. Len(acts) : acts[i].form \in 1 .. Len(forms)

\* A form shows the time its delay came to when it was made.
Reckoned(when, minute) == IF when.by = "in" THEN minute + when.n ELSE when.n
FormsInTime ==
  \A f \in 1 .. Len(forms) : forms[f].made <= clock /\ forms[f].due = Reckoned(forms[f].seal.when, forms[f].made)

\* A call that acts carries what its form showed, but for the chat, which is the form's.
InTime(due, form) == form.due <= due /\ due <= form.due + (IF form.seal.when.by = "in" THEN ValidFor ELSE 0)
Carries(ask, form) == form.seal.wording = ask.wording /\ form.seal.when = ask.when /\ InTime(ask.due, form)

\* A form that was spent is the one write's, on its way or done.
SpentOnce ==
  /\ \A i \in 1 .. Len(acts) : AsShown(acts[i], forms[acts[i].form]) /\ acts[i].form \notin issued
  /\ \A i, j \in 1 .. Len(acts) : acts[i].form = acts[j].form => i = j
  /\ \A c \in Calls : body[c] = "acting" =>
       /\ asked[c].answer = "accept" /\ asked[c].form \notin issued
       /\ Carries(asked[c], forms[asked[c].form])
       /\ \A i \in 1 .. Len(acts) : acts[i].form # asked[c].form
       /\ \A d \in Calls : body[d] = "acting" /\ asked[d].form = asked[c].form => c = d

\* Without a deadline the body of the turn is the only one, and the client held the only one alive.
Live == {"aging", "opening", "runs", "aside", "acting"}
TurnHolds ==
  ~bounded =>
    /\ rescue # "deadline" /\ (rescue = "release" => turn # Nobody)
    /\ \A c \in Calls : body[c] \in Live => turn = c /\ rescue = "none"
    /\ \A c \in Calls : body[c] \in {"aging", "opening"} => held = 0
    /\ \A c \in Calls : Uses(c) => client[c] = held /\ held # 0
    /\ alive = {held} \ {0}
    /\ idle => turn = Nobody
    /\ shutting = "done" => turn = Nobody /\ held = 0 /\ queue = << >>

McpInv == McpTyped /\ FormsTyped /\ FormsInTime /\ SpentOnce /\ TurnHolds

LEMMA McpInvInit == McpInit => McpInv
  <1> SUFFICES ASSUME McpInit PROVE McpInv
    OBVIOUS
  <1>1. McpTyped
    <2>1. << >> \in Seq(Calls) /\ 0 \in 0 .. MaxClock /\ 0 \in 0 .. MaxClients /\ 0 \in 0 .. 0 /\ {} \subseteq 1 .. 0
      BY McpAssumption, EmptySeq
    <2>2. /\ bounded \in BOOLEAN /\ aged = FALSE /\ idle = FALSE /\ queue = << >> /\ turn = Nobody /\ rescue = "none"
          /\ body = [c \in Calls |-> "none"] /\ client = [c \in Calls |-> 0] /\ opened = 0 /\ held = 0 /\ alive = {}
          /\ shutting = "no" /\ named \in Rooms /\ clock = 0
      BY DEF McpInit
    <2>3. client \in [Calls -> 0 .. opened] /\ body \in [Calls -> {"none", "aging", "opening", "runs", "aside", "acting", "ended"}]
      BY <2>1, <2>2
    <2> QED
      BY <2>1, <2>2, <2>3 DEF McpTyped
  <1>2. << >> \in Seq(FormRecords) /\ << >> \in Seq(ActRecords) /\ Len(<< >>) = 0
    BY EmptySeq
  <1>3. NotAsked \in AskRecords
    BY DEF NotAsked, AskRecords
  <1>4. FormsTyped /\ FormsInTime
    BY <1>2, <1>3 DEF McpInit, FormsTyped, FormsInTime, AskOfKind
  <1>5. SpentOnce
    BY <1>2 DEF McpInit, SpentOnce
  <1>6. TurnHolds
    BY DEF McpInit, TurnHolds, Live, Uses
  <1> QED
    BY <1>1, <1>4, <1>5, <1>6 DEF McpInv

\* Whoever is released or ends: a client no longer held, or one call's body.
LEMMA ReleaseTyped ==
  ASSUME McpTyped, Release
  PROVE  held' \in 0 .. opened /\ aged' \in BOOLEAN /\ idle' \in BOOLEAN /\ alive' \subseteq 1 .. opened
  <1>1. held' = 0 /\ aged' = FALSE /\ idle' = FALSE /\ alive' = alive \ {held}
    BY DEF Release
  <1>2. 0 \in 0 .. opened /\ alive \subseteq 1 .. opened
    BY McpAssumption DEF McpTyped
  <1> QED
    BY <1>1, <1>2

LEMMA EndTyped ==
  ASSUME McpTyped, NEW c \in Calls, BodyEnds(c)
  PROVE  /\ body' \in [Calls -> {"none", "aging", "opening", "runs", "aside", "acting", "ended"}]
         /\ client' \in [Calls -> 0 .. opened]
         /\ body'[c] = "ended" /\ \A d \in Calls \ {c} : body'[d] = body[d] /\ client'[d] = client[d]
  BY McpAssumption DEF McpTyped, BodyEnds

LEMMA McpTypedStep ==
  ASSUME McpInv, [McpNext]_mcpVars
  PROVE  McpTyped'
  <1> USE McpAssumption
  <1>1. McpTyped
    BY DEF McpInv
  <1>2. ASSUME NEW c \in Calls, Use(c) PROVE McpTyped'
    BY <1>1, <1>2 DEF Use, McpTyped, confirmVars
  <1>3. ASSUME NEW c \in Calls, Turn(c) PROVE McpTyped'
    <2>1. queue' \in Seq(Calls)
      BY <1>1, <1>3, HeadTailProperties DEF Turn, McpTyped
    <2>2. CASE shutting = "closed"
      <3>1. /\ BodyEnds(c) /\ UNCHANGED << bounded, rescue, opened, shutting, named, clock, turn, held, aged, idle, alive >>
        BY <1>3, <2>2 DEF Turn, confirmVars
      <3> QED
        BY <1>1, <2>1, <3>1, EndTyped DEF McpTyped
    <2>3. CASE shutting = "no"
      <3>1. /\ turn' = c /\ UNCHANGED << bounded, rescue, opened, shutting, named, clock >>
            /\ \/ held # 0 /\ aged /\ Release /\ body' = [body EXCEPT ![c] = "aging"] /\ client' = [client EXCEPT ![c] = held]
               \/ /\ held # 0 /\ idle' = FALSE /\ UNCHANGED << held, aged, alive >>
                  /\ body' = [body EXCEPT ![c] = "runs"] /\ client' = [client EXCEPT ![c] = held]
               \/ idle' = FALSE /\ body' = [body EXCEPT ![c] = "opening"] /\ UNCHANGED << client, held, aged, alive >>
        BY <1>3, <2>3 DEF Turn, TurnCame, confirmVars
      <3>2. /\ body' \in [Calls -> {"none", "aging", "opening", "runs", "aside", "acting", "ended"}]
            /\ client' \in [Calls -> 0 .. opened]
        BY <1>1, <3>1 DEF McpTyped
      <3>3. held' \in 0 .. opened /\ aged' \in BOOLEAN /\ idle' \in BOOLEAN /\ alive' \subseteq 1 .. opened
        <4>1. CASE Release
          BY <1>1, <4>1, ReleaseTyped
        <4>2. CASE idle' = FALSE /\ UNCHANGED << held, aged, alive >>
          BY <1>1, <4>2 DEF McpTyped
        <4> QED
          BY <3>1, <4>1, <4>2
      <3> QED
        BY <1>1, <2>1, <3>1, <3>2, <3>3 DEF McpTyped
    <2> QED
      BY <1>3, <2>2, <2>3 DEF Turn
  <1>4. ASSUME NEW c \in Calls, Aged(c) PROVE McpTyped'
    BY <1>1, <1>4 DEF Aged, McpTyped, sessionVars, confirmVars
  <1>5. ASSUME NEW c \in Calls, CacheOpened(c) PROVE McpTyped'
    <2>1. opened + 1 \in 0 .. MaxClients /\ opened + 1 \in 0 .. opened + 1 /\ 0 .. opened \subseteq 0 .. opened + 1
          /\ 1 .. opened \subseteq 1 .. opened + 1 /\ opened + 1 \in 1 .. opened + 1
      BY <1>1, <1>5 DEF CacheOpened, McpTyped
    <2> QED
      BY <1>1, <1>5, <2>1 DEF CacheOpened, McpTyped, confirmVars
  <1>6. ASSUME NEW c \in Calls, Answered(c), UNCHANGED << named, clock >> PROVE McpTyped'
    <2>1. /\ BodyEnds(c) /\ UNCHANGED << bounded, queue, held, aged, opened, alive, shutting, named, clock >>
          /\ turn' \in {turn, Nobody} /\ rescue' \in {rescue, "none"} /\ idle' \in {idle, held # 0}
      BY <1>6 DEF Answered
    <2>2. idle' \in BOOLEAN
      BY <1>1, <2>1 DEF McpTyped
    <2>3. /\ body' \in [Calls -> {"none", "aging", "opening", "runs", "aside", "acting", "ended"}]
          /\ client' \in [Calls -> 0 .. opened]
      BY <1>1, <2>1, EndTyped
    <2> QED
      BY <1>1, <2>1, <2>2, <2>3 DEF McpTyped
  <1>7. ASSUME NEW c \in Calls, Fails(c) PROVE McpTyped'
    <2>1. /\ BodyEnds(c) /\ UNCHANGED << bounded, queue, turn, opened, shutting, named, clock >> /\ rescue' \in {rescue, "release"}
          /\ Release \/ UNCHANGED << held, aged, idle, alive >>
      BY <1>7 DEF Fails, confirmVars
    <2>2. held' \in 0 .. opened /\ aged' \in BOOLEAN /\ idle' \in BOOLEAN /\ alive' \subseteq 1 .. opened
      <3>1. CASE Release
        BY <1>1, <3>1, ReleaseTyped
      <3>2. CASE UNCHANGED << held, aged, idle, alive >>
        BY <1>1, <3>2 DEF McpTyped
      <3> QED
        BY <2>1, <3>1, <3>2
    <2>3. /\ body' \in [Calls -> {"none", "aging", "opening", "runs", "aside", "acting", "ended"}]
          /\ client' \in [Calls -> 0 .. opened]
      BY <1>1, <2>1, EndTyped
    <2> QED
      BY <1>1, <2>1, <2>2, <2>3 DEF McpTyped
  <1>8. ASSUME NEW c \in Calls, Read(c) \/ Transcribed(c) \/ Act(c) PROVE McpTyped'
    BY <1>6, <1>8 DEF Read, Transcribed, Act, confirmVars
  <1>9. ASSUME NEW c \in Calls, Transcribe(c) PROVE McpTyped'
    <2>1. Release /\ body' = [body EXCEPT ![c] = "aside"] /\ UNCHANGED << bounded, queue, turn, rescue, client, opened, shutting, named, clock >>
      BY <1>9 DEF Transcribe, confirmVars
    <2>2. held' \in 0 .. opened /\ aged' \in BOOLEAN /\ idle' \in BOOLEAN /\ alive' \subseteq 1 .. opened
      BY <1>1, <2>1, ReleaseTyped
    <2> QED
      BY <1>1, <2>1, <2>2 DEF McpTyped
  <1>10. ASSUME NEW c \in Calls, Confirm(c) PROVE McpTyped'
    <2>1. CASE Answered(c) /\ UNCHANGED << named, clock >>
      BY <1>6, <2>1
    <2>2. CASE body' = [body EXCEPT ![c] = "acting"] /\ UNCHANGED << bounded, client, sessionVars, named, clock >>
      BY <1>1, <2>2 DEF sessionVars, McpTyped
    <2> QED
      BY <1>10, <2>1, <2>2 DEF Confirm
  <1>11. CASE GivenUp \/ IdleFires \/ Stopped
    <2>1. /\ Release /\ UNCHANGED << bounded, queue, turn, body, client, opened, named, clock >>
          /\ rescue' \in {rescue, "release"} /\ shutting' \in {shutting, "done"}
      BY <1>11 DEF GivenUp, IdleFires, Stopped, confirmVars
    <2>2. held' \in 0 .. opened /\ aged' \in BOOLEAN /\ idle' \in BOOLEAN /\ alive' \subseteq 1 .. opened
      BY <1>1, <2>1, ReleaseTyped
    <2> QED
      BY <1>1, <2>1, <2>2 DEF McpTyped
  <1>12. CASE Caught \/ Deadline \/ ClientAges \/ Close \/ UNCHANGED mcpVars
    BY <1>1, <1>12 DEF Caught, Deadline, ClientAges, Close, mcpVars, sessionVars, confirmVars, McpTyped
  <1>13. CASE Rename
    BY <1>1, <1>13 DEF Rename, sessionVars, McpTyped
  <1>14. CASE Tick
    <2>1. clock' \in 0 .. MaxClock /\ UNCHANGED << bounded, body, client, sessionVars, named >>
      BY <1>1, <1>14 DEF Tick, McpTyped
    <2> QED
      BY <1>1, <2>1 DEF sessionVars, McpTyped
  <1> QED
    BY <1>2, <1>3, <1>4, <1>5, <1>7, <1>8, <1>9, <1>10, <1>11, <1>12, <1>13, <1>14 DEF McpNext

\* Nothing is asked of MAX and no form shown: what is asked of a call that acts stays.
LEMMA FormsStay ==
  ASSUME McpInv, asked' \in [Calls -> AskRecords], UNCHANGED << forms, acts >>, issued' \subseteq issued,
         \A c \in Calls : asked'[c] = asked[c] \/ AskOfKind(c)',
         \A c \in Calls : body'[c] = "acting" => body[c] = "acting" /\ asked'[c] = asked[c]
  PROVE  FormsTyped' /\ SpentOnce'
  <1>1. FormsTyped /\ SpentOnce
    BY DEF McpInv
  <1>2. FormsTyped'
    <2>1. \A c \in Calls : AskOfKind(c)'
      BY <1>1 DEF FormsTyped, AskOfKind
    <2> QED
      BY <1>1, <2>1 DEF FormsTyped
  <1>3. SpentOnce'
    <2>1. \A i \in 1 .. Len(acts) : AsShown(acts[i], forms[acts[i].form]) /\ acts[i].form \notin issued'
      BY <1>1 DEF SpentOnce
    <2>2. \A i, j \in 1 .. Len(acts) : acts[i].form = acts[j].form => i = j
      BY <1>1 DEF SpentOnce
    <2>3. ASSUME NEW c \in Calls, body'[c] = "acting"
          PROVE  /\ asked'[c].answer = "accept" /\ asked'[c].form \notin issued'
                 /\ Carries(asked'[c], forms[asked'[c].form])
                 /\ \A i \in 1 .. Len(acts) : acts[i].form # asked'[c].form
                 /\ \A d \in Calls : body'[d] = "acting" /\ asked'[d].form = asked'[c].form => c = d
      BY <1>1, <2>3 DEF SpentOnce
    <2>4. \A i \in 1 .. Len(acts) : AsShown(acts[i], forms[acts[i].form])' /\ acts[i].form \notin issued'
      BY <2>1 DEF AsShown
    <2>5. ASSUME NEW c \in Calls, body'[c] = "acting" PROVE Carries(asked[c], forms[asked[c].form])'
      BY <2>3, <2>5 DEF Carries, InTime
    <2> QED
      BY <2>2, <2>3, <2>4, <2>5 DEF SpentOnce
  <1> QED
    BY <1>2, <1>3

LEMMA FormsEnd ==
  ASSUME McpInv, NEW c \in Calls, BodyEnds(c)
  PROVE  /\ asked' \in [Calls -> AskRecords]
         /\ asked'[c] = NotAsked /\ \A d \in Calls \ {c} : asked'[d] = asked[d]
         /\ \A d \in Calls : body'[d] = "acting" => body[d] = "acting" /\ asked'[d] = asked[d] /\ d # c
  <1>1. NotAsked \in AskRecords
    BY DEF NotAsked, AskRecords
  <1> QED
    BY <1>1 DEF McpInv, McpTyped, FormsTyped, BodyEnds

\* The form is shown; whatever the ones before it were good for is as it was.
LEMMA FormShown ==
  ASSUME McpInv, NEW c \in Calls, Confirm(c), forms' # forms
  PROVE  FormsTyped' /\ SpentOnce'
  <1> DEFINE n == Len(forms)
             was == forms
             form == [seal |-> Sealed(c, named), due |-> SendTime(asked[c].when), made |-> clock]
  <1>1. /\ forms' = Append(was, form) /\ issued' = Current \cup {n + 1} /\ BodyEnds(c) /\ UNCHANGED acts
        /\ asked[c].kind = "write"
    BY DEF Confirm, Answered
  <1>2. was \in Seq(FormRecords) /\ acts \in Seq(ActRecords) /\ n \in Nat /\ issued \subseteq 1 .. n
    BY DEF McpInv, FormsTyped
  <1>3. form \in FormRecords
    <2>1. asked[c].wording \in Wordings /\ asked[c].when \in Whens
      <3>1. AskOfKind(c)
        BY DEF McpInv, FormsTyped
      <3>2. CASE asked[c] \in Demands
        BY <1>1, <3>2 DEF Demands
      <3> QED
        BY <1>1, <3>1, <3>2 DEF AskOfKind, NotAsked
    <2>2. Sealed(c, named) \in Seals
      BY <2>1 DEF McpInv, McpTyped, Sealed, Seals
    <2>3. SendTime(asked[c].when) \in Nat /\ clock \in 0 .. MaxClock
      BY <2>1, McpAssumption DEF McpInv, McpTyped, SendTime
    <2> QED
      BY <2>2, <2>3 DEF FormRecords
  <1> HIDE DEF form
  <1>4. forms' \in Seq(FormRecords) /\ Len(forms') = n + 1 /\ \A i \in 1 .. n : forms'[i] = was[i]
    BY <1>1, <1>2, <1>3, AppendProperties
  <1>0. issued' \subseteq issued \cup {n + 1}
    BY <1>1 DEF Current
  <1> HIDE DEF n, was
  <1>5. issued' \subseteq 1 .. n + 1 /\ issued' \cap (1 .. n) \subseteq issued /\ 1 .. n \subseteq 1 .. n + 1
    BY <1>0, <1>2
  <1>6. FormsTyped'
    <2>1. asked' \in [Calls -> AskRecords]
      BY <1>1, FormsEnd
    <2>2. ASSUME NEW d \in Calls PROVE AskOfKind(d)'
      <3>1. AskOfKind(d) /\ (asked'[d] = NotAsked \/ asked'[d] = asked[d])
        BY <1>1, FormsEnd DEF McpInv, FormsTyped
      <3>2. asked[d].form \in 1 .. Len(forms) => asked[d].form \in 1 .. Len(forms')
        BY <1>4, <1>5 DEF n
      <3> QED
        BY <3>1, <3>2 DEF AskOfKind
    <2>3. \A i \in 1 .. Len(acts) : acts[i].form \in 1 .. n + 1
      BY <1>5 DEF McpInv, FormsTyped, n
    <2>4. issued' \subseteq 1 .. Len(forms') /\ acts' \in Seq(ActRecords)
          /\ \A i \in 1 .. Len(acts') : acts'[i].form \in 1 .. Len(forms')
      BY <1>1, <1>2, <1>4, <1>5, <2>3
    <2> QED
      BY <1>4, <2>1, <2>2, <2>4 DEF FormsTyped
  <1>7. SpentOnce'
    <2>1. ASSUME NEW i \in 1 .. Len(acts) PROVE AsShown(acts[i], forms'[acts[i].form]) /\ acts[i].form \notin issued'
      <3>1. acts[i].form \in 1 .. n /\ AsShown(acts[i], was[acts[i].form]) /\ acts[i].form \notin issued
        BY DEF McpInv, FormsTyped, SpentOnce, n, was
      <3> QED
        BY <1>4, <1>5, <3>1
    <2>2. ASSUME NEW d \in Calls, body'[d] = "acting"
          PROVE  /\ body[d] = "acting" /\ asked'[d] = asked[d] /\ asked[d].answer = "accept"
                 /\ asked[d].form \notin issued' /\ Carries(asked[d], forms'[asked[d].form])
                 /\ \A i \in 1 .. Len(acts) : acts[i].form # asked[d].form
                 /\ \A e \in Calls : body[e] = "acting" /\ asked[e].form = asked[d].form => d = e
      <3>1. body[d] = "acting" /\ asked'[d] = asked[d]
        BY <1>1, <2>2, FormsEnd
      <3>2. /\ asked[d].answer = "accept" /\ asked[d].form \notin issued /\ Carries(asked[d], was[asked[d].form])
            /\ \A i \in 1 .. Len(acts) : acts[i].form # asked[d].form
            /\ \A e \in Calls : body[e] = "acting" /\ asked[e].form = asked[d].form => d = e
        BY <3>1 DEF McpInv, SpentOnce, was
      <3>3. asked[d].form \in 1 .. n
        BY <3>2 DEF McpInv, FormsTyped, AskOfKind, NotAsked, Demands, n
      <3> QED
        BY <1>4, <1>5, <3>1, <3>2, <3>3
    <2>3. \A i, j \in 1 .. Len(acts) : acts[i].form = acts[j].form => i = j
      BY DEF McpInv, SpentOnce
    <2>4. \A i \in 1 .. Len(acts') : AsShown(acts[i], forms[acts[i].form])' /\ acts'[i].form \notin issued'
      BY <1>1, <2>1 DEF AsShown
    <2>5. \A i, j \in 1 .. Len(acts') : acts'[i].form = acts'[j].form => i = j
      BY <1>1, <2>3
    <2>6. ASSUME NEW d \in Calls, body'[d] = "acting"
          PROVE  /\ asked'[d].answer = "accept" /\ asked'[d].form \notin issued'
                 /\ Carries(asked[d], forms[asked[d].form])'
                 /\ \A i \in 1 .. Len(acts') : acts'[i].form # asked'[d].form
                 /\ \A e \in Calls : body'[e] = "acting" /\ asked'[e].form = asked'[d].form => d = e
      <3>1. body[d] = "acting" /\ asked'[d] = asked[d]
        BY <2>2, <2>6
      <3>2. \A e \in Calls : body'[e] = "acting" => body[e] = "acting" /\ asked'[e] = asked[e]
        BY <2>2
      <3>3. \A i \in 1 .. Len(acts') : acts'[i].form # asked[d].form
        BY <1>1, <2>2, <2>6
      <3>4. \A e \in Calls : body'[e] = "acting" /\ asked'[e].form = asked'[d].form => d = e
        BY <2>2, <2>6, <3>1, <3>2
      <3>5. Carries(asked[d], forms[asked[d].form])'
        BY <2>2, <2>6, <3>1 DEF Carries, InTime
      <3> QED
        BY <2>2, <2>6, <3>1, <3>3, <3>4, <3>5
    <2> QED
      BY <2>4, <2>5, <2>6 DEF SpentOnce
  <1> QED
    BY <1>6, <1>7

\* The nonce is spent before MAX is asked, and a delay is reckoned again.
LEMMA FormSpent ==
  ASSUME McpInv, NEW c \in Calls, Confirm(c), body'[c] = "acting"
  PROVE  FormsTyped' /\ SpentOnce'
  <1> DEFINE f == asked[c].form
             due == SendTime(asked[c].when)
  <1>1. ~BodyEnds(c)
    BY EndTyped DEF McpInv
  <1>2. /\ asked[c].kind = "write" /\ asked[c].answer = "accept" /\ Fits(c) /\ issued' = Current \ {f}
        /\ asked' = [asked EXCEPT ![c].due = due]
        /\ body' = [body EXCEPT ![c] = "acting"] /\ UNCHANGED << forms, acts >>
    BY <1>1 DEF Confirm, Answered, Spend
  <1>3. f \in issued /\ issued' \subseteq issued /\ f \notin issued' /\ f \in Current
    BY <1>2 DEF Current, Fits
  <1>4. FormsTyped /\ SpentOnce /\ FormsInTime /\ McpTyped
    BY DEF McpInv
  <1>5. /\ asked[c] \in AskRecords /\ asked[c].when \in Whens /\ f \in 1 .. Len(forms) /\ forms[f] \in FormRecords
    <2>1. asked[c] \in AskRecords /\ AskOfKind(c) /\ forms \in Seq(FormRecords)
      BY <1>4 DEF FormsTyped
    <2>2. asked[c].when \in Whens /\ f \in 1 .. Len(forms)
      BY <1>2, <2>1 DEF AskOfKind, NotAsked, Demands
    <2> QED
      BY <2>1, <2>2, ElementOfSeq
  <1>6. due \in Nat /\ clock \in Nat
    BY <1>4, <1>5, McpAssumption DEF SendTime, McpTyped
  <1>7. /\ asked'[c] = [asked[c] EXCEPT !.due = due] /\ \A d \in Calls \ {c} : asked'[d] = asked[d]
    BY <1>2, <1>4 DEF FormsTyped
  <1>8. /\ asked'[c] \in AskRecords /\ asked'[c].kind = "write" /\ asked'[c].wording = asked[c].wording
        /\ asked'[c].when = asked[c].when /\ asked'[c].answer = "accept" /\ asked'[c].form = f /\ asked'[c].due = due
    BY <1>2, <1>5, <1>6, <1>7 DEF AskRecords
  <1>9. FormsTyped'
    <2>1. asked' \in [Calls -> AskRecords]
      BY <1>2, <1>4, <1>8 DEF FormsTyped
    <2>2. asked[c].wording \in Wordings
      BY <1>2, <1>4 DEF FormsTyped, AskOfKind, NotAsked, Demands
    <2>3. \A d \in Calls : AskOfKind(d)'
      BY <1>2, <1>4, <1>5, <1>7, <1>8, <2>2 DEF FormsTyped, AskOfKind
    <2> QED
      BY <1>2, <1>3, <1>4, <2>1, <2>3 DEF FormsTyped
  <1>10. Carries(asked'[c], forms[f])
    <2>1. forms[f].seal.wording = asked[c].wording /\ forms[f].seal.when = asked[c].when
      BY <1>2 DEF Fits, Sealed
    <2>2. /\ forms[f].made <= clock /\ clock <= forms[f].made + ValidFor
          /\ forms[f].due = Reckoned(asked[c].when, forms[f].made) /\ forms[f].made \in Nat
      BY <1>3, <1>4, <1>5, <2>1, McpAssumption DEF FormsInTime, Current, FormRecords
    <2>3. asked[c].when.n \in Nat /\ ValidFor \in Nat
      BY <1>5, McpAssumption
    <2>4. InTime(due, forms[f])
      BY <1>6, <2>1, <2>2, <2>3 DEF InTime, Reckoned, SendTime
    <2> QED
      BY <1>8, <2>1, <2>4 DEF Carries
  <1> HIDE DEF due, f
  <1>11. \A d \in Calls : body'[d] = "acting" => d = c \/ body[d] = "acting"
    BY <1>2, <1>4 DEF McpTyped
  <1>12. \A d \in Calls : body[d] = "acting" => asked[d].form # f
    BY <1>3, <1>4 DEF SpentOnce
  <1>13. \A d \in Calls : asked'[d].form = asked[d].form
    BY <1>7, <1>8 DEF f
  <1>14. ASSUME NEW d \in Calls, body'[d] = "acting"
         PROVE  /\ asked'[d].answer = "accept" /\ asked'[d].form \notin issued'
                /\ Carries(asked'[d], forms[asked'[d].form])
                /\ \A i \in 1 .. Len(acts) : acts[i].form # asked'[d].form
                /\ \A e \in Calls : body'[e] = "acting" /\ asked'[e].form = asked'[d].form => d = e
    <2>1. CASE d = c
      <3>1. \A i \in 1 .. Len(acts) : acts[i].form # f
        BY <1>3, <1>4 DEF SpentOnce
      <3>2. \A e \in Calls : body'[e] = "acting" /\ asked'[e].form = f => e = c
        BY <1>11, <1>12, <1>13
      <3> QED
        BY <1>3, <1>8, <1>10, <2>1, <3>1, <3>2
    <2>2. CASE d # c
      <3>1. body[d] = "acting" /\ asked[d].form # f /\ asked'[d] = asked[d]
        BY <1>7, <1>11, <1>12, <1>14, <2>2
      <3>2. /\ asked[d].answer = "accept" /\ asked[d].form \notin issued
            /\ Carries(asked[d], forms[asked[d].form])
            /\ \A i \in 1 .. Len(acts) : acts[i].form # asked[d].form
            /\ \A e \in Calls : body[e] = "acting" /\ asked[e].form = asked[d].form => d = e
        BY <1>4, <3>1 DEF SpentOnce
      <3>3. asked[c].form # asked[d].form
        BY <3>1 DEF f
      <3>4. \A e \in Calls : body'[e] = "acting" /\ asked'[e].form = asked[d].form => d = e
        BY <1>11, <1>13, <3>2, <3>3
      <3> QED
        BY <1>3, <3>1, <3>2, <3>4
    <2> QED
      BY <2>1, <2>2
  <1>15. \A i \in 1 .. Len(acts) : AsShown(acts[i], forms[acts[i].form]) /\ acts[i].form \notin issued'
    BY <1>3, <1>4 DEF SpentOnce
  <1>16. \A i, j \in 1 .. Len(acts) : acts[i].form = acts[j].form => i = j
    BY <1>4 DEF SpentOnce
  <1>17. SpentOnce'
    <2>1. \A i \in 1 .. Len(acts) : AsShown(acts[i], forms[acts[i].form])' /\ acts[i].form \notin issued'
      BY <1>2, <1>15 DEF AsShown
    <2>2. ASSUME NEW d \in Calls, body'[d] = "acting" PROVE Carries(asked[d], forms[asked[d].form])'
      BY <1>2, <1>14, <2>2 DEF Carries, InTime
    <2> QED
      BY <1>2, <1>14, <1>16, <2>1, <2>2 DEF SpentOnce
  <1> QED
    BY <1>9, <1>17

\* MAX is asked for what the form showed.
LEMMA FormActed ==
  ASSUME McpInv, NEW c \in Calls, Act(c)
  PROVE  FormsTyped' /\ SpentOnce'
  <1> DEFINE f == asked[c].form
             act == [form |-> f, what |-> Sealed(c, Target(c)), due |-> asked[c].due]
             n == Len(acts)
  <1>1. /\ body[c] = "acting" /\ acts' = Append(acts, act) /\ BodyEnds(c) /\ UNCHANGED << forms, issued >>
    BY DEF Act, Answered
  <1>2. FormsTyped /\ SpentOnce
    BY DEF McpInv
  <1>3. /\ asked[c].answer = "accept" /\ f \notin issued /\ Carries(asked[c], forms[f])
        /\ \A i \in 1 .. Len(acts) : acts[i].form # f
        /\ \A d \in Calls : body[d] = "acting" /\ asked[d].form = f => c = d
    BY <1>1, <1>2 DEF SpentOnce
  <1>4. f \in 1 .. Len(forms) /\ forms \in Seq(FormRecords) /\ acts \in Seq(ActRecords) /\ n \in Nat
    BY <1>2, <1>3 DEF FormsTyped, AskOfKind, NotAsked, Demands
  <1>5. forms[f] \in FormRecords /\ asked[c] \in AskRecords
    BY <1>2, <1>4, ElementOfSeq DEF FormsTyped
  <1>6. AsShown(act, forms[f]) /\ act \in ActRecords /\ act.form = f
    <2>1. forms[f].seal \in Seals /\ asked[c].due \in Nat
      BY <1>5 DEF FormRecords, AskRecords
    <2>2. forms[f].seal = [wording |-> asked[c].wording, when |-> asked[c].when, room |-> forms[f].seal.room]
      BY <1>3, <2>1 DEF Seals, Carries
    <2>3. Sealed(c, Target(c)) = forms[f].seal
      BY <2>2 DEF Sealed, Target
    <2>4. f \in Nat \ {0}
      BY <1>4
    <2>5. InTime(asked[c].due, forms[f])
      BY <1>3 DEF Carries
    <2>6. act \in ActRecords
      BY <2>1, <2>3, <2>4 DEF ActRecords
    <2> QED
      BY <2>3, <2>5, <2>6 DEF InTime, AsShown
  <1> HIDE DEF act
  <1>7. acts' \in Seq(ActRecords) /\ Len(acts') = n + 1 /\ (\A i \in 1 .. n : acts'[i] = acts[i]) /\ acts'[n + 1] = act
    BY <1>1, <1>4, <1>6, AppendProperties
  <1> HIDE DEF n, f
  <1>8. \A i \in 1 .. n + 1 : i \in 1 .. n \/ i = n + 1
    BY <1>4
  <1>9. FormsTyped'
    <2>1. asked' \in [Calls -> AskRecords] /\ \A d \in Calls : asked'[d] = NotAsked \/ asked'[d] = asked[d]
      BY <1>1, FormsEnd
    <2>2. \A i \in 1 .. Len(acts') : acts'[i].form \in 1 .. Len(forms)
      BY <1>2, <1>4, <1>6, <1>7, <1>8 DEF FormsTyped, n
    <2>3. \A d \in Calls : AskOfKind(d)'
      BY <1>1, <1>2, <2>1 DEF FormsTyped, AskOfKind
    <2> QED
      BY <1>1, <1>2, <1>7, <2>1, <2>2, <2>3 DEF FormsTyped
  <1>10. ASSUME NEW i \in 1 .. n + 1 PROVE AsShown(acts'[i], forms[acts'[i].form]) /\ acts'[i].form \notin issued
    BY <1>2, <1>3, <1>6, <1>7, <1>8 DEF SpentOnce, n, f
  <1>11. ASSUME NEW i \in 1 .. n + 1, NEW j \in 1 .. n + 1, acts'[i].form = acts'[j].form PROVE i = j
    BY <1>2, <1>3, <1>6, <1>7, <1>8, <1>11 DEF SpentOnce, n, f
  <1>12. ASSUME NEW d \in Calls, body'[d] = "acting"
         PROVE  /\ asked'[d].answer = "accept" /\ asked'[d].form \notin issued
                /\ Carries(asked'[d], forms[asked'[d].form])
                /\ \A i \in 1 .. n + 1 : acts'[i].form # asked'[d].form
                /\ \A e \in Calls : body'[e] = "acting" /\ asked'[e].form = asked'[d].form => d = e
    <2>1. \A e \in Calls : body'[e] = "acting" => body[e] = "acting" /\ asked'[e] = asked[e] /\ e # c
      BY <1>1, FormsEnd
    <2>2. /\ asked[d].answer = "accept" /\ asked[d].form \notin issued
          /\ Carries(asked[d], forms[asked[d].form])
          /\ \A i \in 1 .. n : acts[i].form # asked[d].form
          /\ \A e \in Calls : body[e] = "acting" /\ asked[e].form = asked[d].form => d = e
      BY <1>2, <1>12, <2>1 DEF SpentOnce, n
    <2>3. asked[d].form # f
      BY <1>3, <1>12, <2>1 DEF f
    <2>4. \A i \in 1 .. n + 1 : acts'[i].form # asked[d].form
      BY <1>6, <1>7, <1>8, <2>2, <2>3
    <2> QED
      BY <1>12, <2>1, <2>2, <2>4
  <1>13. SpentOnce'
    <2>1. \A i \in 1 .. Len(acts') : AsShown(acts[i], forms[acts[i].form])' /\ acts'[i].form \notin issued'
      BY <1>1, <1>7, <1>10 DEF AsShown
    <2>2. ASSUME NEW d \in Calls, body'[d] = "acting" PROVE Carries(asked[d], forms[asked[d].form])'
      BY <1>1, <1>12, <2>2 DEF Carries, InTime
    <2> QED
      BY <1>1, <1>7, <1>11, <1>12, <2>1, <2>2 DEF SpentOnce
  <1> QED
    BY <1>9, <1>13

LEMMA FormsStep ==
  ASSUME McpInv, [McpNext]_mcpVars
  PROVE  FormsTyped' /\ SpentOnce'
  <1>1. FormsTyped /\ SpentOnce /\ McpTyped
    BY DEF McpInv
  <1>2. asked \in [Calls -> AskRecords]
    BY <1>1 DEF FormsTyped
  <1>3. ASSUME NEW c \in Calls, Use(c) PROVE FormsTyped' /\ SpentOnce'
    <2>1. PICK ask \in Demands \cup Acceptances : asked' = [asked EXCEPT ![c] = ask]
      BY <1>3 DEF Use
    <2>2. body[c] = "none" /\ UNCHANGED << body, forms, issued, acts >>
      BY <1>3 DEF Use, confirmVars
    <2>3. DOMAIN forms = 1 .. Len(forms)
      BY <1>1 DEF FormsTyped
    <2>4. /\ ask \in AskRecords
          /\ \/ ask \in Demands
             \/ /\ ask.kind = "write" /\ ask.wording \in Wordings /\ ask.when \in Whens
                /\ ask.answer = "accept" /\ ask.form \in 1 .. Len(forms)
      BY <2>3 DEF Demands, Acceptances, AskRecords
    <2>5. asked' \in [Calls -> AskRecords] /\ \A d \in Calls : asked'[d] = asked[d] \/ AskOfKind(d)'
      BY <1>2, <2>1, <2>2, <2>4 DEF AskOfKind
    <2>6. \A d \in Calls : body'[d] = "acting" => body[d] = "acting" /\ asked'[d] = asked[d]
      BY <1>2, <2>1, <2>2
    <2> QED
      BY <1>2, <2>2, <2>5, <2>6, FormsStay
  <1>4. ASSUME NEW c \in Calls, BodyEnds(c), UNCHANGED << forms, acts >>, issued' \in {issued, Current}
        PROVE  FormsTyped' /\ SpentOnce'
    <2>1. /\ asked' \in [Calls -> AskRecords] /\ \A d \in Calls : asked'[d] = asked[d] \/ AskOfKind(d)'
          /\ \A d \in Calls : body'[d] = "acting" => body[d] = "acting" /\ asked'[d] = asked[d]
      BY <1>4, FormsEnd DEF AskOfKind
    <2>2. issued' \subseteq issued
      BY <1>4 DEF Current
    <2> QED
      BY <1>4, <2>1, <2>2, FormsStay
  <1>5. ASSUME NEW c \in Calls, Confirm(c) PROVE FormsTyped' /\ SpentOnce'
    <2>1. CASE forms' # forms
      BY <1>5, <2>1, FormShown
    <2>2. CASE body'[c] = "acting"
      BY <1>5, <2>2, FormSpent
    <2>3. CASE forms' = forms /\ body'[c] # "acting"
      <3>1. body' # [body EXCEPT ![c] = "acting"]
        BY <1>1, <2>3 DEF McpTyped
      <3>2. Append(forms, [seal |-> Sealed(c, named), due |-> SendTime(asked[c].when), made |-> clock]) # forms
        <4> DEFINE form == [seal |-> Sealed(c, named), due |-> SendTime(asked[c].when), made |-> clock]
        <4>1. Len(Append(forms, form)) = Len(forms) + 1 /\ Len(forms) \in Nat
          BY <1>1 DEF FormsTyped
        <4> QED
          BY <4>1
      <3>3. BodyEnds(c) /\ UNCHANGED << forms, acts >> /\ issued' = Current
        BY <1>5, <2>3, <3>1, <3>2 DEF Confirm, Answered
      <3> QED
        BY <1>4, <3>3
    <2> QED
      BY <2>1, <2>2, <2>3
  <1>6. ASSUME NEW c \in Calls, Act(c) PROVE FormsTyped' /\ SpentOnce'
    BY <1>6, FormActed
  <1>7. ASSUME NEW c \in Calls, Fails(c) \/ Read(c) \/ Transcribed(c) \/ (Turn(c) /\ shutting = "closed")
        PROVE  FormsTyped' /\ SpentOnce'
    <2>1. BodyEnds(c) /\ UNCHANGED << forms, issued, acts >>
      BY <1>7 DEF Fails, Read, Transcribed, Answered, Turn, confirmVars
    <2> QED
      BY <1>4, <2>1
  <1>8. ASSUME NEW c \in Calls, (Turn(c) /\ shutting # "closed") \/ Aged(c) \/ CacheOpened(c) \/ Transcribe(c)
        PROVE  FormsTyped' /\ SpentOnce'
    <2>1. UNCHANGED << asked, forms, issued, acts >> /\ \E at \in {"aging", "opening", "runs", "aside"} : body' = [body EXCEPT ![c] = at]
      BY <1>8 DEF Turn, Aged, CacheOpened, Transcribe, confirmVars
    <2>2. \A d \in Calls : body'[d] = "acting" => body[d] = "acting" /\ asked'[d] = asked[d]
      BY <1>1, <2>1 DEF McpTyped
    <2> QED
      BY <1>2, <2>1, <2>2, FormsStay
  <1>9. CASE Caught \/ Deadline \/ GivenUp \/ IdleFires \/ ClientAges \/ Close \/ Stopped \/ Rename \/ Tick \/ UNCHANGED mcpVars
    <2>1. UNCHANGED << asked, body, forms, issued, acts >>
      BY <1>9 DEF Caught, Deadline, GivenUp, IdleFires, ClientAges, Close, Stopped, Rename, Tick, mcpVars, confirmVars
    <2> QED
      BY <1>2, <2>1, FormsStay
  <1> QED
    BY <1>3, <1>5, <1>6, <1>7, <1>8, <1>9 DEF McpNext

\* A form is dated when it is made, and the clock goes on.
LEMMA FormsInTimeStep ==
  ASSUME McpInv, [McpNext]_mcpVars
  PROVE  FormsInTime'
  <1>1. /\ FormsInTime /\ forms \in Seq(FormRecords) /\ Len(forms) \in Nat /\ clock \in Nat
        /\ \A f \in 1 .. Len(forms) : forms[f].made \in Nat
    <2>1. FormsInTime /\ forms \in Seq(FormRecords) /\ Len(forms) \in Nat /\ clock \in Nat
      BY McpAssumption DEF McpInv, FormsTyped, McpTyped
    <2>2. \A f \in 1 .. Len(forms) : forms[f] \in FormRecords
      BY <2>1, ElementOfSeq
    <2> QED
      BY <2>1, <2>2, McpAssumption DEF FormRecords
  <1>2. CASE forms' = forms
    <2>1. clock' \in {clock, clock + 1}
      BY DEF McpNext, Use, Turn, Aged, CacheOpened, Fails, Read, Transcribe, Transcribed, Confirm, Act,
             Caught, Deadline, GivenUp, IdleFires, ClientAges, Close, Stopped, Rename, Tick, mcpVars, confirmVars
    <2> QED
      BY <1>1, <1>2, <2>1 DEF FormsInTime, Reckoned
  <1>3. CASE forms' # forms
    <2>1. PICK c \in Calls : Confirm(c)
      BY <1>3 DEF McpNext, Use, Turn, Aged, CacheOpened, Fails, Read, Transcribe, Transcribed, Act,
             Caught, Deadline, GivenUp, IdleFires, ClientAges, Close, Stopped, Rename, Tick, mcpVars, confirmVars
    <2> DEFINE form == [seal |-> Sealed(c, named), due |-> SendTime(asked[c].when), made |-> clock]
    <2>2. forms' = Append(forms, form) /\ clock' = clock
      BY <1>3, <2>1 DEF Confirm
    <2>3. form.made = clock /\ form.due = Reckoned(form.seal.when, form.made)
      BY DEF Sealed, SendTime, Reckoned
    <2> HIDE DEF form
    <2>4. Len(forms') = Len(forms) + 1
          /\ \A f \in 1 .. Len(forms') : (f \in 1 .. Len(forms) /\ forms'[f] = forms[f]) \/ forms'[f] = form
      BY <1>1, <2>2
    <2> QED
      BY <1>1, <2>2, <2>3, <2>4 DEF FormsInTime, Reckoned
  <1> QED
    BY <1>2, <1>3

\* The turn of a call ends, and only its body was at work.
LEMMA TurnEnds ==
  ASSUME McpInv, NEW c \in Calls, ~bounded, body[c] \in Live, Answered(c)
  PROVE  TurnHolds'
  <1>1. turn = c /\ rescue = "none" /\ \A d \in Calls : body[d] \in Live => d = c
    BY DEF McpInv, TurnHolds
  <1>2. /\ BodyEnds(c) /\ turn' = Nobody /\ rescue' = "none" /\ UNCHANGED << bounded, queue, held, alive, shutting >>
    BY <1>1 DEF Answered
  <1>3. \A d \in Calls : body'[d] \notin Live
    <2>1. body'[c] = "ended" /\ \A d \in Calls \ {c} : body'[d] = body[d]
      BY <1>2, EndTyped DEF McpInv
    <2> QED
      BY <1>1, <2>1 DEF Live
  <1>4. c # Nobody /\ shutting # "done"
    BY <1>1, McpAssumption DEF McpInv, TurnHolds
  <1> QED
    BY <1>2, <1>3, <1>4 DEF McpInv, TurnHolds, Live, Uses

\* The client is let go of, and no body uses it.
LEMMA Releases ==
  ASSUME McpInv, ~bounded, Release, UNCHANGED bounded, rescue' # "deadline", rescue' = "release" => turn' # Nobody,
         \A c \in Calls : body'[c] \in Live => turn' = c /\ rescue' = "none",
         \A c \in Calls : ~Uses(c)', shutting' = "done" => turn' = Nobody /\ queue' = << >>
  PROVE  TurnHolds'
  <1>1. alive = {held} \ {0} /\ held' = 0 /\ idle' = FALSE /\ alive' = alive \ {held}
    BY DEF McpInv, TurnHolds, Release
  <1> QED
    BY <1>1 DEF TurnHolds

LEMMA TurnHoldsStep ==
  ASSUME McpInv, [McpNext]_mcpVars
  PROVE  TurnHolds'
  <1> USE McpAssumption
  <1>1. McpTyped /\ Nobody \notin Calls
    BY DEF McpInv
  <1>2. UNCHANGED bounded
    BY DEF McpNext, Use, Turn, Aged, CacheOpened, Fails, Read, Transcribe, Transcribed, Confirm, Act, Answered,
           Caught, Deadline, GivenUp, IdleFires, ClientAges, Close, Stopped, Rename, Tick, mcpVars, sessionVars
  <1> SUFFICES ASSUME ~bounded PROVE TurnHolds'
    BY <1>2 DEF TurnHolds
  <1>3. /\ rescue # "deadline" /\ (rescue = "release" => turn # Nobody)
        /\ \A c \in Calls : body[c] \in Live => turn = c /\ rescue = "none"
        /\ \A c \in Calls : body[c] \in {"aging", "opening"} => held = 0
        /\ \A c \in Calls : Uses(c) => client[c] = held /\ held # 0
        /\ alive = {held} \ {0}
        /\ idle => turn = Nobody
        /\ shutting = "done" => turn = Nobody /\ held = 0 /\ queue = << >>
    BY DEF McpInv, TurnHolds
  <1>4. turn = Nobody => \A c \in Calls : body[c] \notin Live
    BY <1>1, <1>3
  <1>5. ASSUME NEW c \in Calls, Use(c) PROVE TurnHolds'
    <2>1. shutting = "no" /\ UNCHANGED << rescue, turn, body, client, held, alive, idle, shutting >>
      BY <1>5 DEF Use
    <2> QED
      BY <1>2, <1>3, <2>1 DEF TurnHolds, Uses
  <1>6. ASSUME NEW c \in Calls, Turn(c) PROVE TurnHolds'
    <2>1. turn = Nobody /\ rescue = "none" /\ UNCHANGED << rescue, shutting >> /\ shutting \in {"no", "closed"}
      BY <1>1, <1>3, <1>6 DEF Turn, McpTyped
    <2>2. CASE shutting = "closed"
      <3>1. BodyEnds(c) /\ UNCHANGED << turn, held, alive, idle >>
        BY <1>6, <2>2 DEF Turn
      <3>2. \A d \in Calls : body'[d] \notin Live
        BY <1>1, <1>4, <2>1, <3>1, EndTyped DEF Live
      <3> QED
        BY <1>2, <1>3, <2>1, <2>2, <3>1, <3>2 DEF TurnHolds, Live, Uses
    <2>3. CASE shutting = "no"
      <3>1. /\ turn' = c
            /\ \/ held # 0 /\ aged /\ Release /\ body' = [body EXCEPT ![c] = "aging"] /\ client' = [client EXCEPT ![c] = held]
               \/ /\ held # 0 /\ idle' = FALSE /\ UNCHANGED << held, aged, alive >>
                  /\ body' = [body EXCEPT ![c] = "runs"] /\ client' = [client EXCEPT ![c] = held]
               \/ held = 0 /\ idle' = FALSE /\ body' = [body EXCEPT ![c] = "opening"] /\ UNCHANGED << client, held, aged, alive >>
        BY <1>6, <2>3 DEF Turn, TurnCame
      <3>2. /\ body'[c] \in {"aging", "runs", "opening"} /\ (body'[c] = "runs" => client'[c] = held' /\ held' # 0)
            /\ (body'[c] \in {"aging", "opening"} => held' = 0)
            /\ \A d \in Calls \ {c} : body'[d] = body[d]
        BY <1>1, <3>1 DEF McpTyped, Release
      <3>3. alive' = {held'} \ {0} /\ idle' = FALSE
        BY <1>3, <3>1 DEF Release
      <3>4. \A d \in Calls : body'[d] \in Live => d = c
        BY <1>4, <2>1, <3>2
      <3> QED
        BY <1>1, <1>2, <2>1, <2>3, <3>1, <3>2, <3>3, <3>4 DEF TurnHolds, Live, Uses
    <2> QED
      BY <2>1, <2>2, <2>3
  <1>7. ASSUME NEW c \in Calls, Aged(c) PROVE TurnHolds'
    <2>1. body[c] = "aging" /\ held = 0 /\ turn = c /\ rescue = "none"
      BY <1>3, <1>7 DEF Aged, Live
    <2>2. body' = [body EXCEPT ![c] = "opening"] /\ client' = [client EXCEPT ![c] = 0] /\ UNCHANGED sessionVars
      BY <1>7, <2>1 DEF Aged
    <2>3. body'[c] = "opening" /\ \A d \in Calls \ {c} : body'[d] = body[d] /\ client'[d] = client[d]
      BY <1>1, <2>2 DEF McpTyped
    <2> QED
      BY <1>2, <1>3, <2>1, <2>2, <2>3 DEF TurnHolds, Live, Uses, sessionVars
  <1>8. ASSUME NEW c \in Calls, CacheOpened(c) PROVE TurnHolds'
    <2>1. /\ body[c] = "opening" /\ opened \in Nat /\ held' = opened + 1 /\ alive' = alive \cup {opened + 1}
          /\ body' = [body EXCEPT ![c] = "runs"] /\ client' = [client EXCEPT ![c] = opened + 1]
          /\ UNCHANGED << queue, turn, rescue, idle, shutting >>
      BY <1>1, <1>8 DEF CacheOpened, McpTyped
    <2>2. turn = c /\ held = 0 /\ alive = {} /\ rescue = "none" /\ shutting # "done" /\ ~idle
      BY <1>1, <1>3, <2>1 DEF Live
    <2>3. /\ body'[c] = "runs" /\ client'[c] = opened + 1 /\ opened + 1 # 0
          /\ \A d \in Calls \ {c} : body'[d] = body[d] /\ body[d] \notin Live
      BY <1>1, <1>3, <2>1, <2>2 DEF McpTyped
    <2> QED
      BY <1>2, <2>1, <2>2, <2>3 DEF TurnHolds, Live, Uses
  <1>9. ASSUME NEW c \in Calls, Fails(c) PROVE TurnHolds'
    <2>1. body[c] \in Live /\ turn = c /\ rescue = "none"
      BY <1>3, <1>9 DEF Fails, Live
    <2>2. BodyEnds(c) /\ rescue' = "release" /\ Release /\ UNCHANGED << turn, shutting >>
      BY <1>9, <2>1 DEF Fails
    <2>3. \A d \in Calls : body'[d] \notin Live
      BY <1>1, <1>3, <2>1, <2>2, EndTyped DEF Live
    <2>4. shutting # "done" /\ turn' # Nobody
      BY <1>1, <1>3, <2>1, <2>2
    <2> QED
      BY <1>2, <2>2, <2>3, <2>4, Releases DEF Live, Uses
  <1>10. ASSUME NEW c \in Calls, Read(c) \/ Transcribed(c) \/ Act(c) PROVE TurnHolds'
    BY <1>10, TurnEnds DEF Read, Transcribed, Act, Live
  <1>11. ASSUME NEW c \in Calls, Transcribe(c) PROVE TurnHolds'
    <2>1. /\ body[c] = "runs" /\ body' = [body EXCEPT ![c] = "aside"] /\ Release
          /\ UNCHANGED << queue, turn, rescue, shutting >>
      BY <1>11 DEF Transcribe
    <2>2. turn = c /\ rescue = "none" /\ shutting # "done"
      BY <1>1, <1>3, <2>1 DEF Live
    <2>3. body'[c] = "aside" /\ \A d \in Calls \ {c} : body'[d] = body[d] /\ body[d] \notin Live
      BY <1>1, <1>3, <2>1, <2>2 DEF McpTyped
    <2>4. \A d \in Calls : ~Uses(d)' /\ (body'[d] \in Live => d = c)
      BY <2>3 DEF Uses, Live
    <2> QED
      BY <1>2, <2>1, <2>2, <2>4, Releases
  <1>12. ASSUME NEW c \in Calls, Confirm(c) PROVE TurnHolds'
    <2>1. body[c] = "runs"
      BY <1>12 DEF Confirm
    <2>2. CASE Answered(c)
      BY <2>1, <2>2, TurnEnds DEF Live
    <2>3. CASE body' = [body EXCEPT ![c] = "acting"] /\ UNCHANGED << client, sessionVars >>
      <3>1. body'[c] = "acting" /\ \A d \in Calls \ {c} : body'[d] = body[d]
        BY <1>1, <2>3 DEF McpTyped
      <3>2. turn = c /\ rescue = "none" /\ client[c] = held /\ held # 0 /\ shutting # "done"
        BY <1>1, <1>3, <2>1 DEF Live, Uses
      <3> QED
        BY <1>2, <1>3, <2>3, <3>1, <3>2 DEF TurnHolds, Live, Uses, sessionVars
    <2> QED
      BY <1>12, <2>2, <2>3 DEF Confirm
  <1>13. CASE Caught
    <2>1. /\ turn' = Nobody /\ rescue' = "none" /\ UNCHANGED << queue, body, client, held, alive, shutting >>
          /\ rescue = "release" /\ turn # Nobody
      BY <1>13 DEF Caught
    <2>2. \A d \in Calls : body'[d] \notin Live
      BY <1>3, <2>1
    <2> QED
      BY <1>2, <1>3, <2>1, <2>2 DEF TurnHolds, Live, Uses
  <1>14. CASE Deadline \/ GivenUp
    BY <1>3, <1>14 DEF Deadline, GivenUp
  <1>15. CASE IdleFires \/ Stopped
    <2>1. turn = Nobody /\ Release /\ UNCHANGED << queue, turn, rescue, body >>
          /\ (shutting' = "done" => queue = << >>)
      BY <1>3, <1>15 DEF IdleFires, Stopped
    <2>2. \A d \in Calls : body'[d] \notin Live
      BY <1>4, <2>1
    <2>3. \A d \in Calls : ~Uses(d)'
      BY <2>2 DEF Uses, Live
    <2> QED
      BY <1>2, <1>3, <2>1, <2>2, <2>3, Releases
  <1>16. CASE ClientAges \/ Close \/ Rename \/ Tick \/ UNCHANGED mcpVars
    <2>1. UNCHANGED << queue, turn, rescue, body, client, held, alive, idle >> /\ shutting' \in {shutting, "closed"}
      BY <1>16 DEF ClientAges, Close, Rename, Tick, mcpVars, sessionVars
    <2> QED
      BY <1>2, <1>3, <2>1 DEF TurnHolds, Live, Uses
  <1> QED
    BY <1>5, <1>6, <1>7, <1>8, <1>9, <1>10, <1>11, <1>12, <1>13, <1>14, <1>15, <1>16 DEF McpNext

LEMMA McpInvHolds == McpSpec => []McpInv
  <1>1. McpInv /\ [McpNext]_mcpVars => McpInv'
    BY McpTypedStep, FormsStep, FormsInTimeStep, TurnHoldsStep DEF McpInv
  <1> QED
    BY <1>1, McpInvInit, PTL DEF McpSpec

\* Every variable of `max mcp` has its type, and every number of a form names one that was shown
\* (src/src/mcp/session.ts, src/src/mcp/confirm.ts).
THEOREM McpTypeCorrect == McpSpec => []McpTypeOK
  <1>1. McpInv => McpTypeOK
    <2> SUFFICES ASSUME McpInv PROVE McpTypeOK
      OBVIOUS
    <2>1. McpTyped /\ FormsTyped
      BY DEF McpInv
    <2>2. DOMAIN forms = 1 .. Len(forms) /\ DOMAIN acts = 1 .. Len(acts)
      BY <2>1, LenProperties DEF FormsTyped
    <2>3. ASSUME NEW c \in Calls
          PROVE  asked[c].due \in Nat /\ [asked[c] EXCEPT !.due = 0] \in {NotAsked} \cup Demands \cup Acceptances
      <3>1. asked[c] \in AskRecords /\ AskOfKind(c)
        BY <2>1 DEF FormsTyped
      <3>2. CASE asked[c] = NotAsked
        BY <3>2 DEF NotAsked
      <3>3. CASE asked[c] \in Demands
        <4>1. [asked[c] EXCEPT !.due = 0] = asked[c] /\ asked[c].due = 0
          BY <3>3 DEF Demands
        <4> QED
          BY <3>3, <4>1
      <3>4. CASE asked[c].kind = "write" /\ asked[c].wording \in Wordings /\ asked[c].when \in Whens
                 /\ asked[c].answer = "accept" /\ asked[c].form \in 1 .. Len(forms)
        <4>1. [asked[c] EXCEPT !.due = 0] \in Acceptances
          BY <2>2, <3>1, <3>4 DEF AskRecords, Acceptances
        <4> QED
          BY <3>1, <4>1 DEF AskRecords
      <3> QED
        BY <3>1, <3>2, <3>3, <3>4 DEF AskOfKind
    <2>4. acts \in Seq([form : DOMAIN forms, what : Seals, due : Nat])
      <3>1. acts \in Seq(ActRecords) /\ Len(acts) \in Nat
        BY <2>1, LenProperties DEF FormsTyped
      <3>2. \A i \in 1 .. Len(acts) : acts[i] \in ActRecords /\ acts[i].form \in DOMAIN forms
        BY <2>1, <2>2, <3>1, ElementOfSeq DEF FormsTyped
      <3>3. \A i \in 1 .. Len(acts) : acts[i] \in [form : DOMAIN forms, what : Seals, due : Nat]
        BY <3>2 DEF ActRecords
      <3> DEFINE Found == [form : DOMAIN forms, what : Seals, due : Nat]
                 n == Len(acts)
      <3>4. n \in Nat /\ acts = [i \in 1 .. n |-> acts[i]]
        BY <3>1, LenProperties
      <3>5. \A i \in 1 .. n : acts[i] \in Found
        BY <3>3
      <3> HIDE DEF Found, n
      <3>6. acts \in [1 .. n -> Found]
        BY <3>4, <3>5
      <3>7. acts \in Seq(Found)
        BY <3>4, <3>6, SeqDef
      <3> QED
        BY <3>7 DEF Found
    <2>5. issued \subseteq DOMAIN forms /\ forms \in Seq([seal : Seals, due : Nat, made : 0 .. MaxClock])
      BY <2>1, <2>2 DEF FormsTyped, FormRecords
    <2> QED
      BY <2>1, <2>3, <2>4, <2>5 DEF McpTyped, McpTypeOK
  <1> QED
    BY <1>1, McpInvHolds, PTL

\* Whatever the agent asks, however many calls wait, time out or outlive their turn, and however the clock
\* goes on: MAX is asked only for what a form showed, with the chat it showed and at the time it showed or,
\* of a delay, up to VALID_MS later; and once for each form ("The answer is bound to what the form showed",
\* src/src/mcp/confirm.ts:48).  And without a deadline no call loses the client it uses, nor does one stay
\* open that nobody holds (src/src/mcp/session.ts).
THEOREM OnlyWhatWasShown == McpSpec => []ConfirmedOnClientHeld
  <1>1. McpInv => ConfirmedOnClientHeld
    <2> SUFFICES ASSUME McpInv PROVE ConfirmedOnClientHeld
      OBVIOUS
    <2>1. DOMAIN acts = 1 .. Len(acts)
      BY LenProperties DEF McpInv, FormsTyped
    <2>2. \A i \in DOMAIN acts : /\ AsShown(acts[i], forms[acts[i].form])
                                 /\ \A j \in DOMAIN acts : acts[j].form = acts[i].form => i = j
      BY <2>1 DEF McpInv, SpentOnce
    <2>3. ~bounded => /\ alive \subseteq {held}
                      /\ \A c \in Calls : Uses(c) => client[c] \in alive
                      /\ shutting = "done" => alive = {}
      BY DEF McpInv, TurnHolds
    <2> QED
      BY <2>2, <2>3 DEF ConfirmedOnClientHeld
  <1> QED
    BY <1>1, McpInvHolds, PTL


----------------------------------------------------------------------------
\* Permits: what a write is, how the server reads it from the wire, and what the files have said of it.
Resolved == [readOnly : {{TRUE}, {FALSE}}, allow : {{}} \cup { {l} : l \in Lists }]
Scopes == [profile : SettingsOf, defaults : SettingsOf]
EditsOf == {Rest} \cup [of : {"settings"}, was : Scopes] \cup [of : {"list"}, was : ListsOf]
Steps == {"idle", "asked", "checked", "done", "passed", "refused"}
AskingOf == [at : Steps, write : {{}} \cup { {w} : w \in Writes }]

PermitsTyped ==
  /\ settings \in Scopes
  /\ listed \in ListsOf
  /\ editing \in [Editors -> EditsOf]
  /\ startedWith \in [Askers -> {{}} \cup { {with} : with \in Resolved }]
  /\ asking \in [Askers -> AskingOf]
  /\ verdicts \in [Askers -> SUBSET BOOLEAN]
  /\ edits \in 0 .. MaxEdits /\ asks \in 0 .. MaxAsks

\* What the files say now of a write under way is among what they have said since it was asked.
HeardOfIt == \A a \in Askers : \A w \in asking[a].write : Permitted(ResolveSettings, Asked(w)) \in verdicts[a]

PermitsInv == PermitsTyped /\ HeardOfIt /\ PermitsObeyed

\* What tells one write from another.
LEMMA WriteIs ==
  ASSUME NEW w \in Writes
  PROVE  /\ w = [kind |-> w.kind, action |-> w.action, chat |-> w.chat, who |-> w.who]
         /\ [kind |-> w.kind, action |-> w.action] \in AllKinds
         /\ AtChat(w) <=> w.chat # {}
         /\ w.who # {} => w.action \in Peopled
  <1>1. /\ [kind |-> w.kind, action |-> w.action] \in WriteKinds
        /\ AtChat(w) <=> w.chat # {}
        /\ w.who # {} => w.action \in Peopled
    BY DEF Writes
  <1>2. w = [kind |-> w.kind, action |-> w.action, chat |-> w.chat, who |-> w.who]
    BY DEF Writes
  <1> QED
    BY <1>1, <1>2, PermitsAssumption

LEMMA KindsAre ==
  ASSUME NEW kind, NEW action, [kind |-> kind, action |-> action] \in AllKinds
  PROVE  \/ kind \in {"message", "forward", "edit", "reaction", "pin", "read", "delete"} /\ action = "none"
         \/ kind = "chat" /\ action \in {"create", "join", "leave", "update", "settings", "link.reset",
                                          "members.add", "members.remove", "admins.add", "admins.remove",
                                          "requests.accept", "requests.decline"}
         \/ kind = "account" /\ action \in {"profile", "sessions-end", "contact-add", "contact-remove",
                                             "contact-import", "folder-create", "folder-update", "folder-delete"}
  BY DEF AllKinds

\* The request on the wire says what the write is, its chat and its people; the folder that is made and the
\* one that is changed go by one operation, and by one permission.
SameToOwner(request, w) ==
  /\ request.chat = Asked(w).chat /\ request.people = Asked(w).people
  /\ PermissionFor(request.kind, request.action) = PermissionFor(w.kind, w.action)

LEMMA ReadBack ==
  ASSUME NEW w \in Writes
  PROVE  \E request : GuardOf(Request(w)) = {request} /\ SameToOwner(request, w)
  <1> DEFINE Is(kind, action) == w.kind = kind /\ w.action = action
             Found(request) == GuardOf(Request(w)) = {request} /\ SameToOwner(request, w)
             Theirs(kind, action, people) == [kind |-> kind, action |-> action, chat |-> w.chat, people |-> people]
  <1>1. w.kind # "account" /\ w.action \notin {"create", "join"} <=> w.chat # {}
    BY WriteIs DEF AtChat
  <1>2. w.who # {} => w.action \in Peopled
    BY WriteIs
  <1>3. CASE Is("message", "none")
    <2>1. Request(w) = MessageRequest(w)
      BY <1>3 DEF Request, Peopled
    <2>2. GuardOf(Request(w)) = {Theirs("message", "none", {})}
      BY <1>3, <1>1, <2>1 DEF GuardOf, MessageRequest, Wire, AsRead, ReadSend
    <2>3. SameToOwner(Theirs("message", "none", {}), w)
      BY <1>3, <1>1, <1>2 DEF SameToOwner, Asked, PermissionFor, AccountPermission, Peopled
    <2> QED
      BY <2>2, <2>3
  <1>4. CASE Is("forward", "none")
    <2>1. Request(w) = ForwardRequest(w)
      BY <1>4 DEF Request, Peopled
    <2>2. GuardOf(Request(w)) = {Theirs("forward", "none", {})}
      BY <1>4, <1>1, <2>1 DEF GuardOf, ForwardRequest, Wire, AsRead, ReadSend
    <2>3. SameToOwner(Theirs("forward", "none", {}), w)
      BY <1>4, <1>1, <1>2 DEF SameToOwner, Asked, PermissionFor, AccountPermission, Peopled
    <2> QED
      BY <2>2, <2>3
  <1>5. CASE Is("edit", "none") \/ Is("delete", "none") \/ Is("reaction", "none")
    <2>1. Request(w) = ChangeRequest(w)
      BY <1>5 DEF Request, Peopled
    <2>2. GuardOf(Request(w)) = {Theirs(w.kind, "none", {})}
      BY <1>5, <1>1, <2>1 DEF GuardOf, ChangeRequest, Wire, AsRead, ReadEdit, ReadDelete, ReadReaction
    <2>3. SameToOwner(Theirs(w.kind, "none", {}), w)
      BY <1>5, <1>1, <1>2 DEF SameToOwner, Asked, PermissionFor, AccountPermission, Peopled
    <2> QED
      BY <2>2, <2>3
  <1>6. CASE Is("read", "none")
    <2>1. Request(w) = MarkRequest(w)
      BY <1>6 DEF Request, Peopled
    <2>2. GuardOf(Request(w)) = {Theirs("read", "none", {})}
      BY <1>6, <1>1, <2>1 DEF GuardOf, MarkRequest, Wire, AsRead, ReadMark
    <2>3. SameToOwner(Theirs("read", "none", {}), w)
      BY <1>6, <1>1, <1>2 DEF SameToOwner, Asked, PermissionFor, AccountPermission, Peopled
    <2> QED
      BY <2>2, <2>3
  <1>7. CASE Is("pin", "none")
    <2>1. Cardinality({"pinMessageId"}) = 1
      BY FS_Singleton
    <2>2. Request(w) = PinRequest(w)
      BY <1>7 DEF Request, Peopled
    <2>3. GuardOf(Request(w)) = {Theirs("pin", "none", {})}
      BY <1>7, <1>1, <2>2, <2>1 DEF GuardOf, PinRequest, Wire, AsRead, ReadUpdate
    <2>4. SameToOwner(Theirs("pin", "none", {}), w)
      BY <1>7, <1>1, <1>2, <2>1 DEF SameToOwner, Asked, PermissionFor, AccountPermission, Peopled
    <2> QED
      BY <2>3, <2>4
  <1>8. CASE Is("chat", "create")
    <2>1. Request(w) = CreateRequest(w)
      BY <1>8 DEF Request, Peopled
    <2>2. GuardOf(Request(w)) = {Theirs("chat", "create", w.who)}
      BY <1>8, <1>1, <2>1 DEF GuardOf, CreateRequest, Wire, AsRead, ReadSend
    <2>3. SameToOwner(Theirs("chat", "create", w.who), w)
      BY <1>8, <1>1, <1>2 DEF SameToOwner, Asked, PermissionFor, AccountPermission, Peopled
    <2> QED
      BY <2>2, <2>3
  <1>9. CASE Is("chat", "join") \/ Is("chat", "leave")
    <2>1. Request(w) = GroupRequest(w)
      BY <1>9 DEF Request, Peopled
    <2>2. GuardOf(Request(w)) = {Theirs("chat", w.action, {})}
      BY <1>9, <1>1, <2>1 DEF GuardOf, GroupRequest, Wire, AsRead, ReadJoin
    <2>3. SameToOwner(Theirs("chat", w.action, {}), w)
      BY <1>9, <1>1, <1>2 DEF SameToOwner, Asked, PermissionFor, AccountPermission, Peopled
    <2> QED
      BY <2>2, <2>3
  <1>10. CASE Is("chat", "update")
    <2>1. Cardinality({"theme"}) = 1
      BY FS_Singleton
    <2>2. Request(w) = UpdateRequest(w)
      BY <1>10 DEF Request, Peopled
    <2>3. GuardOf(Request(w)) = {Theirs("chat", "update", {})}
      BY <1>10, <1>1, <2>2, <2>1 DEF GuardOf, UpdateRequest, Wire, AsRead, ReadUpdate
    <2>4. SameToOwner(Theirs("chat", "update", {}), w)
      BY <1>10, <1>1, <1>2, <2>1 DEF SameToOwner, Asked, PermissionFor, AccountPermission, Peopled
    <2> QED
      BY <2>3, <2>4
  <1>11. CASE Is("chat", "settings")
    <2>1. Cardinality({"options"}) = 1
      BY FS_Singleton
    <2>2. Request(w) = UpdateRequest(w)
      BY <1>11 DEF Request, Peopled
    <2>3. GuardOf(Request(w)) = {Theirs("chat", "settings", {})}
      BY <1>11, <1>1, <2>2, <2>1 DEF GuardOf, UpdateRequest, Wire, AsRead, ReadUpdate
    <2>4. SameToOwner(Theirs("chat", "settings", {}), w)
      BY <1>11, <1>1, <1>2, <2>1 DEF SameToOwner, Asked, PermissionFor, AccountPermission, Peopled
    <2> QED
      BY <2>3, <2>4
  <1>12. CASE Is("chat", "link.reset")
    <2>1. Cardinality({"revokePrivateLink"}) = 1
      BY FS_Singleton
    <2>2. Request(w) = UpdateRequest(w)
      BY <1>12 DEF Request, Peopled
    <2>3. GuardOf(Request(w)) = {Theirs("chat", "link.reset", {})}
      BY <1>12, <1>1, <2>2, <2>1 DEF GuardOf, UpdateRequest, Wire, AsRead, ReadUpdate
    <2>4. SameToOwner(Theirs("chat", "link.reset", {}), w)
      BY <1>12, <1>1, <1>2, <2>1 DEF SameToOwner, Asked, PermissionFor, AccountPermission, Peopled
    <2> QED
      BY <2>3, <2>4
  <1>13. CASE Is("chat", "members.add")
    <2>1. ({"add"} \cup {}) \ {"add", "remove"} = {} /\ ("add" \in {"add"} \cup {} <=> TRUE)
      OBVIOUS
    <2>2. Request(w) = MembersRequest(w)
      BY <1>13 DEF Request, Peopled
    <2>3. GuardOf(Request(w)) = {Theirs("chat", "members.add", w.who)}
      BY <1>13, <1>1, <2>2, <2>1 DEF GuardOf, MembersRequest, Wire, AsRead, ReadMembers
    <2>4. SameToOwner(Theirs("chat", "members.add", w.who), w)
      BY <1>13, <1>1, <1>2, <2>1 DEF SameToOwner, Asked, PermissionFor, AccountPermission, Peopled
    <2> QED
      BY <2>3, <2>4
  <1>14. CASE Is("chat", "members.remove")
    <2>1. ({"remove"} \cup {}) \ {"add", "remove"} = {} /\ ("add" \in {"remove"} \cup {} <=> FALSE)
      OBVIOUS
    <2>2. Request(w) = MembersRequest(w)
      BY <1>14 DEF Request, Peopled
    <2>3. GuardOf(Request(w)) = {Theirs("chat", "members.remove", {})}
      BY <1>14, <1>1, <2>2, <2>1 DEF GuardOf, MembersRequest, Wire, AsRead, ReadMembers
    <2>4. SameToOwner(Theirs("chat", "members.remove", {}), w)
      BY <1>14, <1>1, <1>2, <2>1 DEF SameToOwner, Asked, PermissionFor, AccountPermission, Peopled
    <2> QED
      BY <2>3, <2>4
  <1>15. CASE Is("chat", "admins.add")
    <2>1. ({"add"} \cup {"ADMIN"}) \ {"add", "remove"} = {"ADMIN"} /\ ("add" \in {"add"} \cup {"ADMIN"} <=> TRUE)
      OBVIOUS
    <2>2. Request(w) = MembersRequest(w)
      BY <1>15 DEF Request, Peopled
    <2>3. GuardOf(Request(w)) = {Theirs("chat", "admins.add", {})}
      BY <1>15, <1>1, <2>2, <2>1 DEF GuardOf, MembersRequest, Wire, AsRead, ReadMembers
    <2>4. SameToOwner(Theirs("chat", "admins.add", {}), w)
      BY <1>15, <1>1, <1>2, <2>1 DEF SameToOwner, Asked, PermissionFor, AccountPermission, Peopled
    <2> QED
      BY <2>3, <2>4
  <1>16. CASE Is("chat", "admins.remove")
    <2>1. ({"remove"} \cup {"ADMIN"}) \ {"add", "remove"} = {"ADMIN"} /\ ("add" \in {"remove"} \cup {"ADMIN"} <=> FALSE)
      OBVIOUS
    <2>2. Request(w) = MembersRequest(w)
      BY <1>16 DEF Request, Peopled
    <2>3. GuardOf(Request(w)) = {Theirs("chat", "admins.remove", {})}
      BY <1>16, <1>1, <2>2, <2>1 DEF GuardOf, MembersRequest, Wire, AsRead, ReadMembers
    <2>4. SameToOwner(Theirs("chat", "admins.remove", {}), w)
      BY <1>16, <1>1, <1>2, <2>1 DEF SameToOwner, Asked, PermissionFor, AccountPermission, Peopled
    <2> QED
      BY <2>3, <2>4
  <1>17. CASE Is("chat", "requests.accept")
    <2>1. ({"add"} \cup {"JOIN_REQUEST"}) \ {"add", "remove"} = {"JOIN_REQUEST"} /\ ("add" \in {"add"} \cup {"JOIN_REQUEST"} <=> TRUE)
      OBVIOUS
    <2>2. Request(w) = MembersRequest(w)
      BY <1>17 DEF Request, Peopled
    <2>3. GuardOf(Request(w)) = {Theirs("chat", "requests.accept", {})}
      BY <1>17, <1>1, <2>2, <2>1 DEF GuardOf, MembersRequest, Wire, AsRead, ReadMembers
    <2>4. SameToOwner(Theirs("chat", "requests.accept", {}), w)
      BY <1>17, <1>1, <1>2, <2>1 DEF SameToOwner, Asked, PermissionFor, AccountPermission, Peopled
    <2> QED
      BY <2>3, <2>4
  <1>18. CASE Is("chat", "requests.decline")
    <2>1. ({"remove"} \cup {"JOIN_REQUEST"}) \ {"add", "remove"} = {"JOIN_REQUEST"} /\ ("add" \in {"remove"} \cup {"JOIN_REQUEST"} <=> FALSE)
      OBVIOUS
    <2>2. Request(w) = MembersRequest(w)
      BY <1>18 DEF Request, Peopled
    <2>3. GuardOf(Request(w)) = {Theirs("chat", "requests.decline", {})}
      BY <1>18, <1>1, <2>2, <2>1 DEF GuardOf, MembersRequest, Wire, AsRead, ReadMembers
    <2>4. SameToOwner(Theirs("chat", "requests.decline", {}), w)
      BY <1>18, <1>1, <1>2, <2>1 DEF SameToOwner, Asked, PermissionFor, AccountPermission, Peopled
    <2> QED
      BY <2>3, <2>4
  <1>19. CASE Is("account", "contact-add") \/ Is("account", "contact-remove") \/ Is("account", "contact-import")
    <2>1. Request(w) = ContactRequest(w)
      BY <1>19 DEF Request, Peopled
    <2>2. GuardOf(Request(w)) = {Theirs("account", w.action, {})}
      BY <1>19, <1>1, <2>1 DEF GuardOf, ContactRequest, Wire, AsRead, ReadContact, ReadAccount
    <2>3. SameToOwner(Theirs("account", w.action, {}), w)
      BY <1>19, <1>1, <1>2 DEF SameToOwner, Asked, PermissionFor, AccountPermission, Peopled
    <2> QED
      BY <2>2, <2>3
  <1>20. CASE Is("account", "folder-create") \/ Is("account", "folder-update")
    <2>1. Request(w) = FolderRequest(w)
      BY <1>20 DEF Request, Peopled
    <2>2. GuardOf(Request(w)) = {Theirs("account", "folder-update", {})}
      BY <1>20, <1>1, <2>1 DEF GuardOf, FolderRequest, Wire, AsRead, ReadFolder
    <2>3. SameToOwner(Theirs("account", "folder-update", {}), w)
      BY <1>20, <1>1, <1>2 DEF SameToOwner, Asked, PermissionFor, AccountPermission, Peopled
    <2> QED
      BY <2>2, <2>3
  <1>21. CASE Is("account", "folder-delete")
    <2>1. Request(w) = FolderRequest(w)
      BY <1>21 DEF Request, Peopled
    <2>2. GuardOf(Request(w)) = {Theirs("account", "folder-delete", {})}
      BY <1>21, <1>1, <2>1 DEF GuardOf, FolderRequest, Wire, AsRead, ReadFolder
    <2>3. SameToOwner(Theirs("account", "folder-delete", {}), w)
      BY <1>21, <1>1, <1>2 DEF SameToOwner, Asked, PermissionFor, AccountPermission, Peopled
    <2> QED
      BY <2>2, <2>3
  <1>22. CASE Is("account", "profile") \/ Is("account", "sessions-end")
    <2>1. Request(w) = AccountRequest(w)
      BY <1>22 DEF Request, Peopled
    <2>2. GuardOf(Request(w)) = {Theirs("account", w.action, {})}
      BY <1>22, <1>1, <2>1 DEF GuardOf, AccountRequest, Wire, AsRead, ReadAccount
    <2>3. SameToOwner(Theirs("account", w.action, {}), w)
      BY <1>22, <1>1, <1>2 DEF SameToOwner, Asked, PermissionFor, AccountPermission, Peopled
    <2> QED
      BY <2>2, <2>3
  <1> QED
    BY <1>3, <1>4, <1>5, <1>6, <1>7, <1>8, <1>9, <1>10, <1>11, <1>12, <1>13, <1>14, <1>15, <1>16, <1>17, <1>18, <1>19, <1>20, <1>21, <1>22, WriteIs, KindsAre

\* What is asked of the server is permitted there exactly if the write is.
LEMMA SameVerdict ==
  ASSUME NEW request, NEW w, SameToOwner(request, w), NEW with
  PROVE  Permitted(with, request) <=> Permitted(with, Asked(w))
  <1>1. PermissionFor(Asked(w).kind, Asked(w).action) = PermissionFor(w.kind, w.action)
    BY DEF Asked
  <1>2. OnList(request) <=> OnList(Asked(w))
    BY DEF SameToOwner, OnList
  <1>3. PermissionFor(request.kind, request.action) = PermissionFor(Asked(w).kind, Asked(w).action)
    BY <1>1 DEF SameToOwner
  <1> QED
    BY <1>2, <1>3 DEF Permitted

LEMMA PermittedIsBoolean ==
  ASSUME NEW with, NEW request
  PROVE  Permitted(with, request) \in BOOLEAN
  BY DEF Permitted

LEMMA ResolvedTyped ==
  ASSUME settings \in Scopes
  PROVE  ResolveSettings \in Resolved
  <1>1. settings.profile \in SettingsOf /\ settings.defaults \in SettingsOf
    BY DEF Scopes
  <1>2. First(settings.profile.readOnly, settings.defaults.readOnly, {FALSE}) \in {{TRUE}, {FALSE}}
    BY <1>1 DEF SettingsOf, First
  <1>3. First(settings.profile.allow, settings.defaults.allow, {}) \in {{}} \cup { {l} : l \in Lists }
    BY <1>1 DEF SettingsOf, First
  <1> QED
    BY <1>2, <1>3 DEF ResolveSettings, Resolved

LEMMA PermitsInvInit == PermitsInit => PermitsInv
  <1> SUFFICES ASSUME PermitsInit PROVE PermitsInv
    OBVIOUS
  <1>1. NoSettings \in SettingsOf /\ Idle \in AskingOf /\ {} \in ListsOf
    BY DEF NoSettings, SettingsOf, Idle, AskingOf, Steps, ListsOf
  <1>2. settings \in Scopes
    BY <1>1 DEF PermitsInit, Scopes
  <1>3. PermitsTyped
    BY <1>1, <1>2, PermitsAssumption DEF PermitsInit, PermitsTyped, EditsOf
  <1>4. HeardOfIt /\ PermitsObeyed
    BY DEF PermitsInit, HeardOfIt, PermitsObeyed, Idle
  <1> QED
    BY <1>3, <1>4 DEF PermitsInv

\* The files change: what they say now is noted of every write under way.
LEMMA FilesChange ==
  ASSUME PermitsInv, Noted, UNCHANGED << startedWith, asking >>
  PROVE  HeardOfIt' /\ PermitsObeyed' /\ verdicts' \in [Askers -> SUBSET BOOLEAN]
  <1>1. verdicts \in [Askers -> SUBSET BOOLEAN]
    BY DEF PermitsInv, PermitsTyped
  <1>2. \A a \in Askers : verdicts'[a] = verdicts[a] \cup { Permitted(ResolveSettings, Asked(w))' : w \in asking[a].write }
    BY DEF Noted
  <1>3. ASSUME NEW a \in Askers, NEW w \in asking[a].write
        PROVE  Permitted(ResolveSettings, Asked(w))' \in verdicts'[a] /\ Permitted(ResolveSettings, Asked(w))' \in BOOLEAN
    <2>1. Permitted(ResolveSettings, Asked(w))' \in BOOLEAN
      BY DEF Permitted
    <2> QED
      BY <1>2, <2>1
  <1>4. HeardOfIt'
    BY <1>3 DEF HeardOfIt
  <1>5. \A a \in Askers : verdicts[a] \subseteq verdicts'[a]
    BY <1>2
  <1>6. PermitsObeyed'
    BY <1>5 DEF PermitsInv, PermitsObeyed
  <1>7. \A a \in Askers : verdicts'[a] \in SUBSET BOOLEAN
    BY <1>1, <1>2, <1>3
  <1> QED
    BY <1>4, <1>6, <1>7 DEF Noted

\* An editor reads a file, or writes the one it has read back with one thing changed.
LEMMA EditsTyped ==
  ASSUME PermitsInv, NEW e \in Editors, ReadConfig(e) \/ SaveConfig(e) \/ ReadList(e) \/ SaveList(e)
  PROVE  /\ settings' \in Scopes /\ listed' \in ListsOf /\ editing' \in [Editors -> EditsOf] /\ edits' \in 0 .. MaxEdits
         /\ UNCHANGED << startedWith, asking, asks >> /\ (Noted \/ UNCHANGED << settings, listed, verdicts >>)
  <1> USE PermitsAssumption
  <1>1. settings \in Scopes /\ listed \in ListsOf /\ editing \in [Editors -> EditsOf] /\ edits \in 0 .. MaxEdits
    BY DEF PermitsInv, PermitsTyped
  <1>2. editing[e] \in EditsOf /\ Rest \in EditsOf
    BY <1>1 DEF EditsOf
  <1>3. CASE ReadConfig(e)
    <2>1. [of |-> "settings", was |-> settings] \in EditsOf
      BY <1>1 DEF EditsOf
    <2> QED
      BY <1>1, <1>3, <2>1 DEF ReadConfig
  <1>4. CASE ReadList(e)
    <2>1. [of |-> "list", was |-> listed] \in EditsOf
      BY <1>1 DEF EditsOf
    <2> QED
      BY <1>1, <1>4, <2>1 DEF ReadList
  <1>5. CASE SaveConfig(e)
    <2>1. editing[e].was \in Scopes
      <3>1. editing[e].of = "settings"
        BY <1>5 DEF SaveConfig
      <3>2. editing[e] # Rest /\ editing[e] \notin [of : {"list"}, was : ListsOf]
        BY <3>1 DEF Rest
      <3> QED
        BY <1>2, <3>2 DEF EditsOf
    <2>2. settings' \in Scopes
      <3> DEFINE was == editing[e].was
      <3>1. PICK scope \in {"profile", "defaults"} :
              \/ \E value \in {{}, {TRUE}, {FALSE}} : settings' = [was EXCEPT ![scope].readOnly = value]
              \/ \E value \in {{}} \cup { {l} : l \in Lists } : settings' = [was EXCEPT ![scope].allow = value]
        BY <1>5 DEF SaveConfig
      <3>2. was.profile \in SettingsOf /\ was.defaults \in SettingsOf /\ was \in [profile : SettingsOf, defaults : SettingsOf]
        BY <2>1 DEF Scopes
      <3> HIDE DEF was
      <3>3. was[scope] \in SettingsOf
        BY <3>1, <3>2
      <3>4. \A value \in {{}, {TRUE}, {FALSE}} : [was[scope] EXCEPT !.readOnly = value] \in SettingsOf
        BY <3>3 DEF SettingsOf
      <3>5. \A value \in {{}} \cup { {l} : l \in Lists } : [was[scope] EXCEPT !.allow = value] \in SettingsOf
        BY <3>3 DEF SettingsOf
      <3>6. \E s \in SettingsOf : settings' = [was EXCEPT ![scope] = s]
        BY <3>1, <3>4, <3>5
      <3> QED
        BY <3>1, <3>2, <3>6 DEF Scopes
    <2> QED
      BY <1>1, <1>2, <1>5, <2>2 DEF SaveConfig
  <1>6. CASE SaveList(e)
    <2>1. editing[e].was \in ListsOf
      BY <1>2, <1>6 DEF SaveList, EditsOf, Rest
    <2> DEFINE was == UNION editing[e].was
    <2>2. was \subseteq Entries
      BY <2>1 DEF ListsOf
    <2>3. PICK c \in Chats : \/ \E partner \in {{}, {Partner[c]}} : listed' = { Added(was, c, partner) }
                             \/ \E entry \in was : entry.chat = c /\ listed' = { was \ {entry} }
      BY <1>6 DEF SaveList
    <2> HIDE DEF was
    <2>4. ASSUME NEW partner \in {{}, {Partner[c]}} PROVE Added(was, c, partner) \subseteq Entries
      <3>1. partner \in {{}} \cup { {p} : p \in People }
        OBVIOUS
      <3>2. \A entry \in was : [entry EXCEPT !.partner = partner] \in Entries
        BY <2>2, <3>1 DEF Entries
      <3>3. [chat |-> c, partner |-> partner] \in Entries
        BY <3>1 DEF Entries
      <3> QED
        BY <2>2, <3>2, <3>3 DEF Added
    <2>5. \E entries \in SUBSET Entries : listed' = {entries}
      BY <2>2, <2>3, <2>4
    <2>6. listed' \in ListsOf
      BY <2>5 DEF ListsOf
    <2> QED
      BY <1>1, <1>2, <1>6, <2>6 DEF SaveList
  <1> QED
    BY <1>3, <1>4, <1>5, <1>6

\* One step of an asker's: what it was told is as the files have said meanwhile.
LEMMA AskersStep ==
  ASSUME PermitsInv, NEW a \in Askers, StartAsker(a) \/ Ask(a) \/ CheckOwn(a) \/ DoOwn(a) \/ Forward(a)
  PROVE  PermitsInv'
  <1> USE PermitsAssumption
  <1>1. /\ settings \in Scopes /\ asking \in [Askers -> AskingOf] /\ verdicts \in [Askers -> SUBSET BOOLEAN]
        /\ startedWith \in [Askers -> {{}} \cup { {with} : with \in Resolved }] /\ asks \in 0 .. MaxAsks
    BY DEF PermitsInv, PermitsTyped
  <1>2. UNCHANGED << settings, listed, editing, edits >> /\ ResolveSettings' = ResolveSettings
    BY DEF StartAsker, Ask, CheckOwn, DoOwn, Forward, ResolveSettings
  <1>3. \A with, request : Permitted(with, request)' <=> Permitted(with, request)
    BY <1>2 DEF Permitted, OnList
  <1>4. asking[a] \in AskingOf /\ startedWith[a] \in {{}} \cup { {with} : with \in Resolved }
    BY <1>1
  <1>5. CASE StartAsker(a)
    <2>1. ResolveSettings \in Resolved
      BY <1>1, ResolvedTyped
    <2>2. /\ startedWith' = [startedWith EXCEPT ![a] = {ResolveSettings}] /\ startedWith[a] = {}
          /\ UNCHANGED << settings, listed, editing, edits, asking, verdicts, asks >>
      BY <1>5 DEF StartAsker
    <2>3. PermitsTyped'
      BY <1>1, <2>1, <2>2 DEF PermitsInv, PermitsTyped
    <2>4. \A b \in Askers : startedWith[b] \subseteq startedWith'[b]
      BY <1>1, <2>2
    <2>5. PermitsObeyed'
      BY <2>2, <2>4 DEF PermitsInv, PermitsObeyed
    <2>6. HeardOfIt'
      BY <1>2, <1>3, <2>2 DEF PermitsInv, HeardOfIt
    <2> QED
      BY <2>3, <2>5, <2>6 DEF PermitsInv
  <1>6. CASE Ask(a)
    <2>1. PICK w \in Writes : /\ asking' = [asking EXCEPT ![a] = [at |-> "asked", write |-> {w}]]
                              /\ verdicts' = [verdicts EXCEPT ![a] = {Permitted(ResolveSettings, Asked(w))}]
      BY <1>6 DEF Ask
    <2>2. asks' = asks + 1 /\ asks < MaxAsks /\ UNCHANGED startedWith
      BY <1>6 DEF Ask
    <2>3. [at |-> "asked", write |-> {w}] \in AskingOf
      BY DEF AskingOf, Steps
    <2>4. {Permitted(ResolveSettings, Asked(w))} \in SUBSET BOOLEAN
      BY PermittedIsBoolean
    <2>5. PermitsTyped'
      BY <1>1, <1>2, <2>1, <2>2, <2>3, <2>4 DEF PermitsInv, PermitsTyped
    <2>6. /\ asking'[a] = [at |-> "asked", write |-> {w}] /\ verdicts'[a] = {Permitted(ResolveSettings, Asked(w))}
          /\ \A b \in Askers \ {a} : asking'[b] = asking[b] /\ verdicts'[b] = verdicts[b]
      BY <1>1, <2>1
    <2>7. \A b \in Askers : \A k \in asking'[b].write : Permitted(ResolveSettings, Asked(k)) \in verdicts'[b]
      BY <2>6 DEF PermitsInv, HeardOfIt
    <2>8. HeardOfIt'
      BY <1>2, <1>3, <2>7 DEF HeardOfIt
    <2>9. ASSUME NEW b \in Askers
          PROVE  /\ asking'[b].at = "passed" => TRUE \in verdicts'[b]
                 /\ asking'[b].at = "refused" =>
                      \/ FALSE \in verdicts'[b]
                      \/ \E k \in asking'[b].write, with \in startedWith[b] :
                           \/ with.readOnly = {TRUE}
                           \/ \E list \in with.allow : PermissionFor(k.kind, k.action) \notin list
      <3>1. CASE b = a
        <4>1. asking'[b].at = "asked"
          BY <2>6, <3>1
        <4> QED
          BY <4>1
      <3>2. CASE b # a
        BY <2>6, <3>2 DEF PermitsInv, PermitsObeyed
      <3> QED
        BY <3>1, <3>2
    <2>10. PermitsObeyed'
      BY <2>2, <2>9 DEF PermitsObeyed
    <2> QED
      BY <2>5, <2>8, <2>10 DEF PermitsInv
  <1>7. ASSUME NEW at \in Steps, Moves(a, at), UNCHANGED << startedWith, verdicts, asks >>,
               at = "passed" => TRUE \in verdicts[a],
               at = "refused" =>
                 \/ FALSE \in verdicts[a]
                 \/ \E w \in asking[a].write, with \in startedWith[a] :
                      \/ with.readOnly = {TRUE}
                      \/ \E list \in with.allow : PermissionFor(w.kind, w.action) \notin list
        PROVE  PermitsInv'
    <2>1. /\ asking'[a].at = at /\ asking'[a].write = asking[a].write /\ asking'[a] \in AskingOf
          /\ \A b \in Askers \ {a} : asking'[b] = asking[b]
      BY <1>1, <1>4, <1>7 DEF Moves, AskingOf
    <2>2. asking' \in [Askers -> AskingOf]
      BY <1>1, <1>7, <2>1 DEF Moves
    <2>3. PermitsTyped'
      BY <1>1, <1>2, <1>7, <2>2 DEF PermitsInv, PermitsTyped
    <2>4. \A b \in Askers : asking'[b].write = asking[b].write
      BY <2>1
    <2>5. HeardOfIt'
      BY <1>2, <1>3, <1>7, <2>4 DEF PermitsInv, HeardOfIt
    <2>6. PermitsObeyed'
      BY <1>7, <2>1 DEF PermitsInv, PermitsObeyed
    <2> QED
      BY <2>3, <2>5, <2>6 DEF PermitsInv
  <1>8. ASSUME NEW w \in asking[a].write PROVE w \in Writes /\ Permitted(ResolveSettings, Asked(w)) \in verdicts[a]
    BY <1>4 DEF AskingOf, PermitsInv, HeardOfIt
  <1>9. CASE CheckOwn(a)
    <2>1. PICK w \in asking[a].write, with \in startedWith[a] :
            \/ Permitted(with, Asked(w)) /\ Moves(a, "checked")
            \/ ~Permitted(with, Asked(w)) /\ Moves(a, "refused")
      BY <1>9 DEF CheckOwn
    <2>2. UNCHANGED << startedWith, verdicts, asks >>
      BY <1>9 DEF CheckOwn
    <2>3. CASE Moves(a, "checked")
      BY <1>7, <2>2, <2>3 DEF Steps
    <2>4. CASE ~Permitted(with, Asked(w)) /\ Moves(a, "refused")
      <3>1. with \in Resolved
        BY <1>4
      <3>2. with.readOnly = {TRUE} \/ with.readOnly = {FALSE}
        BY <3>1 DEF Resolved
      <3>3. PermissionFor(Asked(w).kind, Asked(w).action) = PermissionFor(w.kind, w.action)
        BY DEF Asked
      <3>4. CASE ~OnList(Asked(w))
        <4>1. ~Permitted(ResolveSettings, Asked(w))
          BY <3>4 DEF Permitted
        <4>2. Permitted(ResolveSettings, Asked(w)) = FALSE
          BY <4>1 DEF Permitted
        <4>3. FALSE \in verdicts[a]
          BY <1>8, <4>2
        <4> QED
          BY <1>7, <2>2, <2>4, <4>3 DEF Steps
      <3>5. CASE OnList(Asked(w))
        <4>1. with.readOnly = {TRUE} \/ \E list \in with.allow : PermissionFor(w.kind, w.action) \notin list
          BY <2>4, <3>2, <3>3, <3>5 DEF Permitted
        <4> QED
          BY <1>7, <2>2, <2>4, <4>1 DEF Steps
      <3> QED
        BY <3>4, <3>5
    <2> QED
      BY <2>1, <2>3, <2>4
  <1>10. CASE DoOwn(a)
    BY <1>7, <1>10 DEF DoOwn, Steps
  <1>11. CASE Forward(a)
    <2>1. PICK w \in asking[a].write :
            \/ /\ GuardOf(Request(w)) # {} /\ \A request \in GuardOf(Request(w)) : Permitted(ResolveSettings, request)
               /\ Moves(a, "passed")
            \/ /\ GuardOf(Request(w)) = {} \/ \E request \in GuardOf(Request(w)) : ~Permitted(ResolveSettings, request)
               /\ Moves(a, "refused")
      BY <1>11 DEF Forward, ServersGuard
    <2>2. PICK request : GuardOf(Request(w)) = {request} /\ SameToOwner(request, w)
      BY <1>8, ReadBack
    <2>3. Permitted(ResolveSettings, request) <=> Permitted(ResolveSettings, Asked(w))
      BY <2>2, SameVerdict
    <2>4. UNCHANGED << startedWith, verdicts, asks >>
      BY <1>11 DEF Forward
    <2>5. CASE Permitted(ResolveSettings, Asked(w)) /\ Moves(a, "passed")
      <3>1. Permitted(ResolveSettings, Asked(w)) = TRUE
        BY <2>5 DEF Permitted
      <3>2. TRUE \in verdicts[a]
        BY <1>8, <3>1
      <3> QED
        BY <1>7, <2>4, <2>5, <3>2 DEF Steps
    <2>6. CASE ~Permitted(ResolveSettings, Asked(w)) /\ Moves(a, "refused")
      <3>1. Permitted(ResolveSettings, Asked(w)) = FALSE
        BY <2>6 DEF Permitted
      <3>2. FALSE \in verdicts[a]
        BY <1>8, <3>1
      <3> QED
        BY <1>7, <2>4, <2>6, <3>2 DEF Steps
    <2> QED
      BY <2>1, <2>2, <2>3, <2>5, <2>6
  <1> QED
    BY <1>5, <1>6, <1>9, <1>10, <1>11

LEMMA PermitsInvStep ==
  ASSUME PermitsInv, [PermitsNext]_permitVars
  PROVE  PermitsInv'
  <1>1. ASSUME NEW e \in Editors, ReadConfig(e) \/ SaveConfig(e) \/ ReadList(e) \/ SaveList(e)
        PROVE  PermitsInv'
    <2>1. /\ settings' \in Scopes /\ listed' \in ListsOf /\ editing' \in [Editors -> EditsOf] /\ edits' \in 0 .. MaxEdits
          /\ UNCHANGED << startedWith, asking, asks >> /\ (Noted \/ UNCHANGED << settings, listed, verdicts >>)
      BY <1>1, EditsTyped
    <2>2. CASE Noted
      BY <2>1, <2>2, FilesChange DEF PermitsInv, PermitsTyped
    <2>3. CASE UNCHANGED << settings, listed, verdicts >>
      <3>1. PermitsTyped'
        BY <2>1, <2>3 DEF PermitsInv, PermitsTyped
      <3>2. HeardOfIt' /\ PermitsObeyed'
        BY <2>1, <2>3 DEF PermitsInv, HeardOfIt, PermitsObeyed, Permitted, OnList, ResolveSettings
      <3> QED
        BY <3>1, <3>2 DEF PermitsInv
    <2> QED
      BY <2>1, <2>2, <2>3
  <1>2. CASE ListOff
    <2>1. {} \in ListsOf /\ edits + 1 \in 0 .. MaxEdits
      BY <1>2, PermitsAssumption DEF PermitsInv, PermitsTyped, ListsOf, ListOff
    <2> QED
      BY <1>2, <2>1, FilesChange DEF PermitsInv, PermitsTyped, ListOff
  <1>3. CASE UNCHANGED permitVars
    BY <1>3 DEF permitVars, PermitsInv, PermitsTyped, HeardOfIt, PermitsObeyed, Permitted, OnList, ResolveSettings
  <1> QED
    BY <1>1, <1>2, <1>3, AskersStep DEF PermitsNext

LEMMA PermitsInvHolds == PermitsSpec => []PermitsInv
  BY PermitsInvInit, PermitsInvStep, PTL DEF PermitsSpec

\* Every variable of what the owner forbids, and of who asks, has its type.
THEOREM PermitsTypeCorrect == PermitsSpec => []PermitsTypeOK
  <1>1. PermitsInv => PermitsTypeOK
    <2> SUFFICES ASSUME PermitsInv PROVE PermitsTypeOK
      OBVIOUS
    <2>1. ASSUME NEW e \in Editors
          PROVE  \/ editing[e] = Rest
                 \/ editing[e].of = "settings" /\ editing[e].was \in Scopes
                 \/ editing[e].of = "list" /\ editing[e].was \in ListsOf
      <3>1. editing[e] \in EditsOf
        BY DEF PermitsInv, PermitsTyped
      <3> QED
        BY <3>1 DEF EditsOf
    <2>2. ASSUME NEW a \in Askers
          PROVE  /\ startedWith[a] = {} \/ \E with \in SettingsOf : startedWith[a] = {with}
                 /\ asking[a].at \in Steps
                 /\ asking[a].write \subseteq Writes /\ Cardinality(asking[a].write) <= 1
                 /\ verdicts[a] \subseteq BOOLEAN
      <3>1. /\ startedWith[a] \in {{}} \cup { {with} : with \in Resolved } /\ asking[a] \in AskingOf
            /\ verdicts[a] \subseteq BOOLEAN
        BY DEF PermitsInv, PermitsTyped
      <3>2. Resolved \subseteq SettingsOf
        BY DEF Resolved, SettingsOf
      <3>3. asking[a].at \in Steps /\ asking[a].write \in {{}} \cup { {w} : w \in Writes }
        BY <3>1 DEF AskingOf
      <3>4. \A w \in Writes : Cardinality({w}) = 1
        BY FS_Singleton
      <3>5. Cardinality({}) = 0
        BY FS_EmptySet
      <3> QED
        BY <3>1, <3>2, <3>3, <3>4, <3>5
    <2> QED
      BY <2>1, <2>2 DEF PermitsInv, PermitsTyped, PermitsTypeOK, Scopes, Steps
  <1> QED
    BY <1>1, PermitsInvHolds, PTL

\* Whoever changes the files, and in whatever order: no write goes to MAX over the server that the owner
\* forbade throughout, and none is refused that was allowed throughout ("Read again for every write, so
\* `config set readOnly true` needs no restart", src/src/server/server.ts:453); for every kind of write, and
\* whatever the list of recipients holds.
THEOREM OwnerIsObeyed == PermitsSpec => []PermitsObeyed
  <1>1. PermitsInv => PermitsObeyed
    BY DEF PermitsInv
  <1> QED
    BY <1>1, PermitsInvHolds, PTL

----------------------------------------------------------------------------
\* Settings: what each command is about, and the file as it has read it.
TerminalsOf ==
  [at : {"idle", "resolved", "read"}, lock : Optional(PlainNames), profile : Optional(PlainNames), defaults : BOOLEAN,
   setting : Optional(AllSettings), value : Optional(GoodValues \cup {BadValue}), read : Files \cup {Missing}]

SettingsTyped ==
  /\ config \in Files
  /\ terminal \in [Terminals -> TerminalsOf]
  /\ overtaken \in [Terminals -> BOOLEAN]
  /\ changes \in 0 .. MaxSettings

\* A locked process is about its own profile; and what it has read is the file, until another saves.
AboutItsOwn ==
  \A p \in Terminals : terminal[p].at # "idle" =>
    /\ terminal[p].profile \in PlainNames /\ terminal[p].setting \in AllSettings
    /\ terminal[p].setting \in ProfileSettings \/ terminal[p].defaults
    /\ terminal[p].lock # Missing => terminal[p].profile = terminal[p].lock /\ ~terminal[p].defaults
    /\ terminal[p].at = "read" => terminal[p].read \in Files /\ (~overtaken[p] => terminal[p].read = config)

SettingsInv == SettingsTyped /\ AboutItsOwn

\* The first of three that is given.
LEMMA FirstOfThree ==
  ASSUME NEW a, NEW b, NEW c, NEW fallback
  PROVE  FirstKnown(<< a, b, c >>, fallback) =
           IF a.value # Missing THEN a ELSE IF b.value # Missing THEN b ELSE IF c.value # Missing THEN c
           ELSE [from |-> "default", value |-> fallback]
  <1> DEFINE all == << a, b, c >>
             given == { i \in DOMAIN all : all[i].value # Missing }
  <1>1. DOMAIN all = {1, 2, 3} /\ all[1] = a /\ all[2] = b /\ all[3] = c
    OBVIOUS
  <1>2. given \subseteq {1, 2, 3} /\ (1 \in given <=> a.value # Missing) /\ (2 \in given <=> b.value # Missing)
        /\ (3 \in given <=> c.value # Missing)
    BY <1>1
  <1>3. FirstKnown(all, fallback) =
          IF given = {} THEN [from |-> "default", value |-> fallback] ELSE all[CHOOSE i \in given : \A j \in given : i <= j]
    BY DEF FirstKnown
  <1> HIDE DEF all, given
  <1>4. ASSUME NEW i \in given, \A j \in given : i <= j PROVE (CHOOSE k \in given : \A j \in given : k <= j) = i
    <2>1. \A k \in given : (\A j \in given : k <= j) => k = i
      BY <1>2, <1>4
    <2> QED
      BY <1>4, <2>1
  <1>5. CASE a.value # Missing
    <2>1. 1 \in given /\ \A j \in given : 1 <= j
      BY <1>2, <1>5
    <2> QED
      BY <1>1, <1>3, <1>4, <1>5, <2>1 DEF all
  <1>6. CASE a.value = Missing /\ b.value # Missing
    <2>1. 2 \in given /\ \A j \in given : 2 <= j
      BY <1>2, <1>6
    <2> QED
      BY <1>1, <1>3, <1>4, <1>6, <2>1 DEF all
  <1>7. CASE a.value = Missing /\ b.value = Missing /\ c.value # Missing
    <2>1. 3 \in given /\ \A j \in given : 3 <= j
      BY <1>2, <1>7
    <2> QED
      BY <1>1, <1>3, <1>4, <1>7, <2>1 DEF all
  <1>8. CASE a.value = Missing /\ b.value = Missing /\ c.value = Missing
    <2>1. given = {}
      BY <1>2, <1>8
    <2> QED
      BY <1>3, <1>8, <2>1 DEF all
  <1> QED
    BY <1>5, <1>6, <1>7, <1>8

\* A process with a lock is for the profile of the lock, or refused.
LEMMA LockedToIt ==
  ASSUME NEW lock, NEW selected \in Selected(lock)
  PROVE  selected.value \in PlainNames /\ (lock # Missing => selected.value = lock)
  <1>1. PICK word \in Optional(Names), env \in Optional(Names) : selected = ProfileOf(word, env, lock)
    BY DEF Selected
  <1> DEFINE chosen == FirstKnown(<< [from |-> "first word", value |-> LiftProfile(word)],
                                    [from |-> "MAX_PROFILE", value |-> env],
                                    [from |-> "config file", value |-> config.defaultProfile] >>, DefaultProfile)
             profile == Locked(chosen, lock)
  <1>2. selected = (IF profile.value \in PlainNames THEN profile ELSE Refusal) /\ selected # Refusal
    <2>1. ProfileOf(word, env, lock) = (IF profile.value \in PlainNames THEN profile ELSE Refusal)
      BY DEF ProfileOf
    <2>2. selected # Refusal
      BY DEF Selected
    <2> HIDE DEF profile
    <2> QED
      BY <1>1, <2>1, <2>2
  <1> HIDE DEF chosen
  <1>3. profile = Refusal \/ lock = Missing \/ profile.value = lock
    BY DEF Locked
  <1> HIDE DEF profile
  <1> QED
    BY <1>2, <1>3

LEMMA ChangedTyped ==
  ASSUME NEW file \in Files, NEW t \in TerminalsOf, t.value # BadValue, t.profile \in PlainNames, t.setting \in AllSettings,
         t.setting \in ProfileSettings \/ t.defaults
  PROVE  /\ Changed(file, t) \in Files
         /\ t.defaults =>
              /\ \A s \in AllSettings : Changed(file, t).defaults[s] = IF s = t.setting THEN t.value ELSE file.defaults[s]
              /\ Changed(file, t).profiles = file.profiles
         /\ ~t.defaults =>
              /\ Changed(file, t).defaults = file.defaults
              /\ \A q \in PlainNames, s \in ProfileSettings :
                   Changed(file, t).profiles[q][s] = IF q = t.profile /\ s = t.setting THEN t.value ELSE file.profiles[q][s]
  <1>1. /\ file.defaults \in [AllSettings -> Optional(GoodValues)]
        /\ file.profiles \in [PlainNames -> [ProfileSettings -> Optional(GoodValues)]]
        /\ file.defaultProfile \in Optional(PlainNames)
    BY DEF Files
  <1>2. t.value \in Optional(GoodValues)
    BY DEF TerminalsOf, Optional
  <1>3. CASE t.defaults
    <2> DEFINE defaults == [file.defaults EXCEPT ![t.setting] = t.value]
    <2>1. Changed(file, t) = [file EXCEPT !.defaults = defaults]
      BY <1>3 DEF Changed
    <2>2. defaults \in [AllSettings -> Optional(GoodValues)]
          /\ \A s \in AllSettings : defaults[s] = IF s = t.setting THEN t.value ELSE file.defaults[s]
      BY <1>1, <1>2
    <2> HIDE DEF defaults
    <2> QED
      BY <1>3, <2>1, <2>2 DEF Files
  <1>4. CASE ~t.defaults
    <2> DEFINE profiles == [file.profiles EXCEPT ![t.profile] = [@ EXCEPT ![t.setting] = t.value]]
    <2>1. Changed(file, t) = [file EXCEPT !.profiles = profiles]
      BY <1>4 DEF Changed
    <2>2. [file.profiles[t.profile] EXCEPT ![t.setting] = t.value] \in [ProfileSettings -> Optional(GoodValues)]
      BY <1>1, <1>2
    <2>3. profiles \in [PlainNames -> [ProfileSettings -> Optional(GoodValues)]]
          /\ \A q \in PlainNames, s \in ProfileSettings :
               profiles[q][s] = IF q = t.profile /\ s = t.setting THEN t.value ELSE file.profiles[q][s]
      BY <1>1, <2>2
    <2> HIDE DEF profiles
    <2> QED
      BY <1>4, <2>1, <2>3 DEF Files
  <1> QED
    BY <1>3, <1>4 DEF TerminalsOf

LEMMA SettingsInvInit == SettingsInit => SettingsInv
  <1> SUFFICES ASSUME SettingsInit PROVE SettingsInv
    OBVIOUS
  <1>1. config \in Files
    <2>1. PICK chosen \in Optional(PlainNames), shared \in Optional(GoodValues) :
            config = [defaultProfile |-> chosen,
                      defaults |-> [s \in AllSettings |-> IF s \in ProfileSettings THEN shared ELSE Missing],
                      profiles |-> [q \in PlainNames |-> [s \in ProfileSettings |-> Missing]]]
      BY DEF SettingsInit
    <2>2. Missing \in Optional(GoodValues)
      BY DEF Optional
    <2> QED
      BY <2>1, <2>2 DEF Files
  <1>2. NoCommand \in TerminalsOf
    BY DEF NoCommand, TerminalsOf, Optional
  <1>3. SettingsTyped
    BY <1>1, <1>2, SettingsAssumption DEF SettingsInit, SettingsTyped
  <1>4. AboutItsOwn
    BY DEF SettingsInit, AboutItsOwn, NoCommand
  <1> QED
    BY <1>3, <1>4 DEF SettingsInv

LEMMA SettingsInvStep ==
  ASSUME SettingsInv, [SettingsNext]_settingsVars
  PROVE  SettingsInv'
  <1> USE SettingsAssumption
  <1>1. SettingsTyped /\ AboutItsOwn
    BY DEF SettingsInv
  <1>2. ASSUME NEW p \in Terminals, Typed(p) PROVE SettingsInv'
    <2>1. PICK lock \in Optional(Names) : \E selected \in Selected(lock), defaults \in BOOLEAN, setting \in AllSettings,
               value \in Optional(GoodValues \cup {BadValue}) : TypesChange(p, lock, selected.value, defaults, setting, value)
      BY <1>2 DEF Typed
    <2>2. PICK selected \in Selected(lock), defaults \in BOOLEAN, setting \in AllSettings,
               value \in Optional(GoodValues \cup {BadValue}) : TypesChange(p, lock, selected.value, defaults, setting, value)
      BY <2>1
    <2> DEFINE t == [at |-> "resolved", lock |-> lock, profile |-> selected.value, defaults |-> defaults,
                     setting |-> setting, value |-> value, read |-> Missing]
    <2>3. /\ terminal' = [terminal EXCEPT ![p] = t] /\ changes' = changes + 1 /\ changes < MaxSettings
          /\ ~(defaults /\ lock # Missing) /\ (setting \in ProfileSettings \/ defaults) /\ UNCHANGED << config, overtaken >>
      BY <2>2 DEF TypesChange, MayChange
    <2>4. selected.value \in PlainNames /\ (lock # Missing => selected.value = lock)
      BY LockedToIt
    <2>5. t \in TerminalsOf
      BY <2>4 DEF TerminalsOf, Optional
    <2>6. SettingsTyped'
      BY <1>1, <2>3, <2>5 DEF SettingsTyped
    <2>7. AboutItsOwn'
      BY <1>1, <2>3, <2>4 DEF SettingsTyped, AboutItsOwn
    <2> QED
      BY <2>6, <2>7 DEF SettingsInv
  <1>3. ASSUME NEW p \in Terminals, ReadsFile(p) PROVE SettingsInv'
    <2> DEFINE t == [terminal[p] EXCEPT !.at = "read", !.read = config]
    <2>1. /\ terminal[p].at = "resolved" /\ terminal' = [terminal EXCEPT ![p] = t]
          /\ overtaken' = [overtaken EXCEPT ![p] = FALSE] /\ UNCHANGED << config, changes >>
      BY <1>3 DEF ReadsFile
    <2>2. terminal[p] \in TerminalsOf
      BY <1>1 DEF SettingsTyped
    <2>3. /\ t \in TerminalsOf /\ t.at = "read" /\ t.read = config /\ t.profile = terminal[p].profile
          /\ t.setting = terminal[p].setting /\ t.defaults = terminal[p].defaults /\ t.lock = terminal[p].lock
      BY <1>1, <2>2 DEF SettingsTyped, TerminalsOf
    <2> HIDE DEF t
    <2>4. SettingsTyped'
      BY <1>1, <2>1, <2>3 DEF SettingsTyped
    <2>5. AboutItsOwn'
      BY <1>1, <2>1, <2>3 DEF SettingsTyped, AboutItsOwn
    <2> QED
      BY <2>4, <2>5 DEF SettingsInv
  <1>4. ASSUME NEW p \in Terminals, SavesFile(p) PROVE SettingsInv'
    <2>1. terminal[p].at = "read" /\ terminal' = [terminal EXCEPT ![p] = NoCommand] /\ UNCHANGED changes
      BY <1>4 DEF SavesFile
    <2>2. NoCommand \in TerminalsOf /\ NoCommand.at = "idle"
      BY DEF NoCommand, TerminalsOf, Optional
    <2>3. /\ terminal' \in [Terminals -> TerminalsOf] /\ terminal'[p].at = "idle"
          /\ \A q \in Terminals \ {p} : terminal'[q] = terminal[q]
      BY <1>1, <2>1, <2>2 DEF SettingsTyped
    <2>4. CASE terminal[p].value = BadValue
      <3>1. UNCHANGED << config, overtaken >>
        BY <1>4, <2>4 DEF SavesFile
      <3> QED
        BY <1>1, <2>1, <2>3, <3>1 DEF SettingsInv, SettingsTyped, AboutItsOwn
    <2>5. CASE terminal[p].value # BadValue
      <3>1. /\ config' = Changed(terminal[p].read, terminal[p])
            /\ overtaken' = [q \in Terminals |-> overtaken[q] \/ q # p]
        BY <1>4, <2>5 DEF SavesFile
      <3>2. config' \in Files
        BY <1>1, <2>1, <2>5, <3>1, ChangedTyped DEF SettingsTyped, AboutItsOwn
      <3>3. overtaken' \in [Terminals -> BOOLEAN] /\ \A q \in Terminals \ {p} : overtaken'[q]
        BY <3>1
      <3>4. SettingsTyped'
        BY <1>1, <2>1, <2>3, <3>2, <3>3 DEF SettingsTyped
      <3>5. AboutItsOwn'
        BY <1>1, <2>3, <3>3 DEF AboutItsOwn
      <3> QED
        BY <3>4, <3>5 DEF SettingsInv
    <2> QED
      BY <2>4, <2>5
  <1>5. CASE UNCHANGED settingsVars
    BY <1>1, <1>5 DEF settingsVars, SettingsInv, SettingsTyped, AboutItsOwn
  <1> QED
    BY <1>2, <1>3, <1>4, <1>5 DEF SettingsNext

LEMMA SettingsInvHolds == SettingsSpec => []SettingsInv
  BY SettingsInvInit, SettingsInvStep, PTL DEF SettingsSpec

\* Every variable of the configuration has its type; the file is whole and of its schema at every moment.
THEOREM SettingsTypeCorrect == SettingsSpec => []SettingsTypeOK
  <1>1. SettingsInv => SettingsTypeOK
    <2> SUFFICES ASSUME SettingsInv PROVE SettingsTypeOK
      OBVIOUS
    <2>1. ASSUME NEW p \in Terminals
          PROVE  /\ terminal[p].at \in {"idle", "resolved", "read"} /\ terminal[p].defaults \in BOOLEAN
                 /\ {terminal[p].lock, terminal[p].profile} \subseteq Optional(PlainNames)
                 /\ terminal[p].setting \in Optional(AllSettings)
                 /\ terminal[p].value \in Optional(GoodValues \cup {BadValue})
                 /\ terminal[p].at = "read" => terminal[p].read \in Files
      <3>1. terminal[p] \in TerminalsOf
        BY DEF SettingsInv, SettingsTyped
      <3>2. terminal[p].at = "read" => terminal[p].read \in Files
        BY DEF SettingsInv, AboutItsOwn
      <3> QED
        BY <3>1, <3>2 DEF TerminalsOf
    <2> QED
      BY <2>1 DEF SettingsInv, SettingsTyped, SettingsTypeOK
  <1> QED
    BY <1>1, SettingsInvHolds, PTL

\* What a command of a profile reads of a setting: its own value, the one of all, the program's own.
LEMMA ResolveIs ==
  ASSUME NEW file, NEW q, NEW s
  PROVE  LET own == IF s \in ProfileSettings THEN file.profiles[q][s] ELSE Missing IN
         Resolve(file, q, s, Missing) =
           IF own # Missing THEN [from |-> "config file", value |-> own]
           ELSE IF file.defaults[s] # Missing THEN [from |-> "config defaults", value |-> file.defaults[s]]
           ELSE [from |-> "default", value |-> BuiltIn]
  <1> DEFINE own == IF s \in ProfileSettings THEN file.profiles[q][s] ELSE Missing
             a == [from |-> "flag", value |-> Missing]
             b == [from |-> "config file", value |-> own]
             c == [from |-> "config defaults", value |-> file.defaults[s]]
  <1>1. Resolve(file, q, s, Missing) = FirstKnown(<< a, b, c >>, BuiltIn)
    BY DEF Resolve
  <1>2. a.value = Missing /\ b.value = own /\ c.value = file.defaults[s]
    OBVIOUS
  <1> HIDE DEF a, b, c, own
  <1>3. FirstKnown(<< a, b, c >>, BuiltIn) =
          IF a.value # Missing THEN a ELSE IF b.value # Missing THEN b ELSE IF c.value # Missing THEN c
          ELSE [from |-> "default", value |-> BuiltIn]
    BY FirstOfThree
  <1> QED
    BY <1>1, <1>2, <1>3 DEF b, c, own

\* However many processes change settings at once: a change that is saved is what the commands it is for read
\* from then on, no other command reads anything else than before, and a locked process changes its own
\* profile alone (src/src/config.ts:184); but for what another saved between the read and the save.
THEOREM SavedAsSaid == SettingsSpec => ChangeIsWhatWasSaid
  <1> DEFINE Said(p) ==
        /\ \A q \in PlainNames, s \in AllSettings :
             Resolve(config', q, s, Missing).value =
               IF s = terminal[p].setting /\ Reached(terminal[p], q) THEN Wanted(terminal[p])
               ELSE Resolve(config, q, s, Missing).value
        /\ terminal[p].lock # Missing =>
             \A q \in PlainNames \ {terminal[p].lock} : \A s \in AllSettings : 
               Resolve(config', q, s, Missing) = Resolve(config, q, s, Missing)
  <1>1. ASSUME SettingsInv, SettingsNext, NEW p \in Terminals,
               terminal[p].at = "read", terminal'[p].at = "idle", config' # config, ~overtaken[p]
        PROVE  Said(p)
    <2> DEFINE t == terminal[p]
    <2>1. SavesFile(p) /\ t.value # BadValue
      <3>1. PICK x \in Terminals : SavesFile(x)
        BY <1>1 DEF SettingsNext, Typed, TypesChange, ReadsFile
      <3>2. x = p
        BY <1>1, <3>1 DEF SavesFile, SettingsInv, SettingsTyped
      <3> QED
        BY <1>1, <3>1, <3>2 DEF SavesFile
    <2>2. /\ t \in TerminalsOf /\ config \in Files /\ t.profile \in PlainNames /\ t.setting \in AllSettings
          /\ t.setting \in ProfileSettings \/ t.defaults
          /\ t.lock # Missing => t.profile = t.lock /\ ~t.defaults
          /\ t.read = config
      BY <1>1 DEF SettingsInv, SettingsTyped, AboutItsOwn
    <2>3. config' = Changed(config, t)
      BY <2>1, <2>2 DEF SavesFile
    <2> HIDE DEF t
    <2>4. CASE t.defaults
      <3>1. /\ \A s \in AllSettings : config'.defaults[s] = IF s = t.setting THEN t.value ELSE config.defaults[s]
            /\ config'.profiles = config.profiles
        BY <2>1, <2>2, <2>3, <2>4, ChangedTyped DEF t
      <3>2. ASSUME NEW q \in PlainNames, NEW s \in AllSettings
            PROVE  Resolve(config', q, s, Missing).value =
                     IF s = t.setting /\ Reached(t, q) THEN Wanted(t) ELSE Resolve(config, q, s, Missing).value
        <4>1. s \in ProfileSettings <=> s \notin DefaultsOnly
          BY SettingsAssumption DEF AllSettings
        <4> DEFINE own(file) == IF s \in ProfileSettings THEN file.profiles[q][s] ELSE Missing
                   Found(mine, all) ==
                     IF mine # Missing THEN [from |-> "config file", value |-> mine]
                     ELSE IF all # Missing THEN [from |-> "config defaults", value |-> all]
                     ELSE [from |-> "default", value |-> BuiltIn]
        <4>2. Resolve(config', q, s, Missing) = Found(own(config'), config'.defaults[s])
              /\ Resolve(config, q, s, Missing) = Found(own(config), config.defaults[s])
          BY ResolveIs
        <4>6. \A mine, all : Found(mine, all).value = IF mine # Missing THEN mine ELSE IF all # Missing THEN all ELSE BuiltIn
          OBVIOUS
        <4>3. own(config') = own(config)
          BY <3>1
        <4>4. s = t.setting => (Reached(t, q) <=> own(config) = Missing)
          BY <2>4, <4>1 DEF Reached
        <4>5. Wanted(t) = IF t.value # Missing THEN t.value ELSE BuiltIn
          BY <2>4 DEF Wanted
        <4> HIDE DEF own, Found
        <4> QED
          BY <3>1, <4>2, <4>3, <4>4, <4>5, <4>6
      <3> QED
        BY <2>2, <2>4, <3>2 DEF t
    <2>5. CASE ~t.defaults
      <3>1. /\ config'.defaults = config.defaults
            /\ \A q \in PlainNames, s \in ProfileSettings :
                 config'.profiles[q][s] = IF q = t.profile /\ s = t.setting THEN t.value ELSE config.profiles[q][s]
        BY <2>1, <2>2, <2>3, <2>5, ChangedTyped DEF t
      <3>2. ASSUME NEW q \in PlainNames, NEW s \in AllSettings
            PROVE  /\ Resolve(config', q, s, Missing).value =
                        IF s = t.setting /\ Reached(t, q) THEN Wanted(t) ELSE Resolve(config, q, s, Missing).value
                   /\ q # t.profile => Resolve(config', q, s, Missing) = Resolve(config, q, s, Missing)
        <4> DEFINE own(file) == IF s \in ProfileSettings THEN file.profiles[q][s] ELSE Missing
                   Found(mine, all) ==
                     IF mine # Missing THEN [from |-> "config file", value |-> mine]
                     ELSE IF all # Missing THEN [from |-> "config defaults", value |-> all]
                     ELSE [from |-> "default", value |-> BuiltIn]
        <4>1. Resolve(config', q, s, Missing) = Found(own(config'), config'.defaults[s])
              /\ Resolve(config, q, s, Missing) = Found(own(config), config.defaults[s])
          BY ResolveIs
        <4>2. config'.defaults[s] = config.defaults[s]
              /\ own(config') = IF q = t.profile /\ s = t.setting THEN t.value ELSE own(config)
          BY <2>2, <2>5, <3>1
        <4>3. (Reached(t, q) <=> q = t.profile)
              /\ Wanted(t) = (IF t.value # Missing THEN t.value
                              ELSE IF config.defaults[t.setting] = Missing THEN BuiltIn ELSE config.defaults[t.setting])
          BY <2>5 DEF Reached, Wanted
        <4>4. \A mine, all : Found(mine, all).value = IF mine # Missing THEN mine ELSE IF all # Missing THEN all ELSE BuiltIn
          OBVIOUS
        <4> HIDE DEF own, Found
        <4> QED
          BY <4>1, <4>2, <4>3, <4>4
      <3> QED
        BY <2>2, <2>5, <3>2 DEF t
    <2> QED
      BY <2>4, <2>5
  <1>2. SettingsInv /\ [SettingsNext]_settingsVars =>
          [\A p \in Terminals : terminal[p].at = "read" /\ terminal'[p].at = "idle" /\ config' # config /\ ~overtaken[p] =>
             Said(p)]_settingsVars
    BY <1>1
  <1> QED
    BY <1>2, SettingsInvHolds, PTL DEF SettingsSpec, ChangeIsWhatWasSaid
----------------------------------------------------------------------------
\* RunRecords: what there is of a command's record, at each place it may be at.
Waits == {"asleep", "opens", "opens failed", "opens last"}
Opens == {"opened", "opened failed", "opened last"}
Writing == {"writes success", "writes failed", "writes last"}

NoRunOf(c) == \A s \in Slots : s[1] = c => records[s] = NoRun
OneRunOf(c, status) ==
  /\ CurrentRun(c) \in Slots /\ records[CurrentRun(c)].status = status
  /\ \A s \in Slots : s[1] = c => (records[s] # NoRun <=> s = CurrentRun(c))
EventsAre(c, seq) == \A s \in Slots : s[1] = c /\ records[s] # NoRun => records[s].noted = seq

RecordAt(c) ==
  LET own == maker[c] IN
  /\ own.at \in Waits \/ (own.at \in {"body", "thrown"} /\ own.mode \in {"off", "outside"})
       \/ (own.at = "body" /\ own.mode = "keep") => NoRunOf(c)
  /\ own.at \in Opens => OneRunOf(c, "no file")
  /\ own.at \in Writing \/ (own.at = "body" /\ own.mode = "record") => OneRunOf(c, "running")
  /\ own.at = "thrown" /\ own.mode \in {"record", "keep"} => OneRunOf(c, "failed")
  /\ own.at = "ended" =>
       IF own.tells = "an answer" THEN IF own.mode = "record" THEN OneRunOf(c, "success") ELSE NoRunOf(c)
       ELSE IF own.mode = "off" THEN NoRunOf(c) ELSE OneRunOf(c, "failed")

\* What a command tells, and whether its failure is settled.
ToldOf(c) ==
  LET own == maker[c] IN
  /\ own.at \in {"opens last", "opened last", "writes last"} => own.mode = "outside"
  /\ own.at \in {"opens failed", "opened failed", "writes failed", "thrown"} => (own.settled <=> own.mode # "outside")
  /\ own.at \in {"writes failed", "opens failed", "opened failed", "thrown", "opens last", "opened last", "writes last"} =>
       own.did = "nothing" /\ own.tells = "a failure"
  /\ own.at = "ended" => /\ own.tells \in {"an answer", "a failure"}
                         /\ own.tells = "an answer" <=> own.did = "its work"

\* The command's events, held or written.
EventsOf(c) ==
  LET own == maker[c] IN
  /\ own.at \in {"asleep", "opens", "opened"} => noted[c] = 0 /\ holding[c] = << >>
  /\ own.mode = "keep" /\ own.at = "body" => holding[c] = Latest(c, HeldAtMost)
  /\ own.mode = "keep" /\ own.at \in {"opens failed", "opened failed"} => holding[c] = Latest(c, HeldAtMost)
  /\ own.mode = "keep" /\ own.at \in {"writes failed", "thrown", "ended"} => EventsAre(c, Latest(c, HeldAtMost))
  /\ own.mode = "record" /\ own.at \in {"body", "writes success", "writes failed", "thrown", "ended"} =>
       EventsAre(c, Latest(c, MaxNoted))

\* Which of the recorder's ways a command goes, and the runs it has opened on it, whatever became of
\* their records.
WayOf(c) ==
  LET own == maker[c] IN
  /\ own.at = "asleep" => own.mode = "off"
  /\ own.at \in {"opens", "opened", "writes success"} => own.mode = "record"
  /\ own.at \in {"opens failed", "opened failed"} => own.mode = "keep"
  /\ own.at = "writes failed" => own.mode \in {"record", "keep"}
  /\ own.at = "writes success" => own.did = "its work" /\ own.tells = "an answer"
RunsOpened(c) ==
  /\ maker[c].at \in {"asleep", "opens", "opens failed"} => runs[c] = 0
  /\ maker[c].at \in {"opened", "opened failed", "writes success", "writes failed"} => runs[c] = 1
  /\ maker[c].at = "body" => runs[c] = (IF maker[c].mode = "record" THEN 1 ELSE 0)
  /\ maker[c].at \in {"thrown", "opens last"} => runs[c] <= 1
  /\ maker[c].at \in {"opened last", "writes last"} => runs[c] \in {1, 2}

\* Also where its record was spoilt: none is kept of who wants none, and none says more than the command did.
KeptOf(c) ==
  LET own == maker[c] IN
  /\ own.mode = "off" /\ own.at # "killed" =>
       NoRunOf(c) /\ own.at \in {"asleep", "body", "thrown", "ended"} /\ (own.at = "thrown" => own.settled)
  /\ \A s \in Slots : s[1] = c /\ records[s].status = "success" => own.at = "ended" /\ own.tells = "an answer"

OwnRecord(c) ==
  /\ WayOf(c) /\ RunsOpened(c) /\ KeptOf(c)
  /\ ~spoilt[c] => RecordAt(c) /\ ToldOf(c) /\ EventsOf(c)

RunsInv == RunsTypeOK /\ \A c \in Makers : OwnRecord(c)

RunFields == [status : {"none", "no file", "running", "success", "failed"}, day : 0 .. MaxDay, noted : Seq(1 .. MaxNoted)]
Dids == {"nothing", "its work"}
Tolds == {"nothing", "an answer", "a failure"}
MakerFields == [mode : Modes, at : Places, since : 0 .. MaxDay, did : Dids, settled : BOOLEAN, tells : Tolds]

LEMMA RunsFields ==
  ASSUME RunsTypeOK
  PROVE  /\ records \in [Slots -> RunFields] /\ runs \in [Makers -> 0 .. 3]
         /\ maker \in [Makers -> MakerFields] /\ noted \in [Makers -> 0 .. MaxNoted]
         /\ holding \in [Makers -> Seq(1 .. MaxNoted)] /\ spoilt \in [Makers -> BOOLEAN]
         /\ \A c \in Makers : Len(holding[c]) <= HeldAtMost
         /\ today \in 0 .. MaxDay
  BY DEF RunsTypeOK, RunFields, MakerFields, Dids, Tolds

LEMMA NoRunTyped == NoRun \in RunFields /\ NoRun.status = "none" /\ NoRun.noted = << >> /\ Asleep \in MakerFields
  <1>1. << >> \in Seq(1 .. MaxNoted) /\ 0 \in 0 .. MaxDay
    BY RunsAssumption
  <1> QED
    BY <1>1 DEF NoRun, RunFields, Asleep, MakerFields, Modes, Places, Dids, Tolds

LEMMA FailsTyped ==
  ASSUME NEW f \in [Makers -> MakerFields], NEW c \in Makers, NEW place \in Places, NEW settled \in BOOLEAN,
         NEW told \in Tolds, NEW did \in Dids
  PROVE  [f EXCEPT ![c].did = did, ![c].tells = told, ![c].settled = settled, ![c].at = place] \in [Makers -> MakerFields]
  <1> DEFINE g == [f EXCEPT ![c].did = did, ![c].tells = told]
             h == [g EXCEPT ![c].settled = settled, ![c].at = place]
  <1>1. g \in [Makers -> MakerFields]
    BY DEF MakerFields
  <1>2. h \in [Makers -> MakerFields]
    <2> HIDE DEF g
    <2> QED
      BY <1>1 DEF MakerFields
  <1>3. h = [f EXCEPT ![c].did = did, ![c].tells = told, ![c].settled = settled, ![c].at = place]
    OBVIOUS
  <1> QED
    BY <1>2, <1>3, Zenon

LEMMA SlotsOf ==
  /\ \A c \in Makers, n \in {1, 2, 3} : << c, n >> \in Slots /\ << c, n >>[1] = c
  /\ \A s \in Slots : s[1] \in Makers /\ s = << s[1], s[2] >>
  BY DEF Slots

\* The newest events after one more: all of them, while there is room.
LEMMA NewestGrows ==
  ASSUME NEW m \in Nat
  PROVE  Append([i \in 1 .. m |-> m - m + i], m + 1) = [i \in 1 .. (m + 1) |-> (m + 1) - (m + 1) + i]
  <1> DEFINE old == [i \in 1 .. m |-> m - m + i]
             new == [i \in 1 .. (m + 1) |-> (m + 1) - (m + 1) + i]
  <1>1. old \in Seq(Nat) /\ Len(old) = m /\ \A i \in 1 .. m : old[i] = i
    OBVIOUS
  <1>2. new \in Seq(Nat) /\ Len(new) = m + 1 /\ \A i \in 1 .. (m + 1) : new[i] = i
    OBVIOUS
  <1> HIDE DEF old, new
  <1>3. /\ Append(old, m + 1) \in Seq(Nat) /\ Len(Append(old, m + 1)) = m + 1
        /\ \A i \in 1 .. m : Append(old, m + 1)[i] = i
        /\ Append(old, m + 1)[m + 1] = m + 1
    BY <1>1, AppendProperties
  <1>4. \A i \in 1 .. (m + 1) : Append(old, m + 1)[i] = new[i]
    BY <1>2, <1>3
  <1>5. Append(old, m + 1) = new
    BY <1>2, <1>3, <1>4, SeqEqual
  <1> QED
    BY <1>5 DEF new, old

\* And, where there is none, all but the oldest.
LEMMA NewestMoves ==
  ASSUME NEW m \in Nat, NEW n \in Nat \ {0}, n <= m
  PROVE  Tail(Append([i \in 1 .. n |-> m - n + i], m + 1)) = [i \in 1 .. n |-> (m + 1) - n + i]
  <1> DEFINE old == [i \in 1 .. n |-> m - n + i]
             new == [i \in 1 .. n |-> (m + 1) - n + i]
             all == Append(old, m + 1)
  <1>1. old \in Seq(Nat) /\ Len(old) = n /\ \A i \in 1 .. n : old[i] = m - n + i
    OBVIOUS
  <1>2. new \in Seq(Nat) /\ Len(new) = n /\ \A i \in 1 .. n : new[i] = (m + 1) - n + i
    OBVIOUS
  <1>3. /\ all \in Seq(Nat) /\ Len(all) = n + 1 /\ all # << >>
        /\ \A i \in 1 .. n : all[i] = m - n + i
        /\ all[n + 1] = m + 1
    <2> HIDE DEF old
    <2> QED
      BY <1>1, AppendProperties
  <1> HIDE DEF old, new, all
  <1>4. Tail(all) \in Seq(Nat) /\ Len(Tail(all)) = n /\ \A i \in 1 .. n : Tail(all)[i] = all[i + 1]
    BY <1>3
  <1>5. \A i \in 1 .. n : Tail(all)[i] = new[i]
    <2> TAKE i \in 1 .. n
    <2>1. CASE i = n
      BY <1>2, <1>3, <1>4, <2>1
    <2>2. CASE i # n
      <3>1. i + 1 \in 1 .. n /\ m - n + (i + 1) = (m + 1) - n + i
        BY <2>2
      <3> QED
        BY <1>2, <1>3, <1>4, <3>1
    <2> QED
      BY <2>1, <2>2
  <1>6. Tail(all) = new
    BY <1>2, <1>4, <1>5, SeqEqual
  <1> QED
    BY <1>6 DEF all, old, new

Newest(m, n) == LET k == IF m < n THEN m ELSE n IN [i \in 1 .. k |-> m - k + i]

\* What a command holds is the newest of its events.
LEMMA HoldsNewest ==
  ASSUME NEW m \in Nat, NEW n \in Nat
  PROVE  /\ Newest(0, n) = << >> /\ Len(Newest(m, n)) = (IF m < n THEN m ELSE n)
         /\ m < n => Append(Newest(m, n), m + 1) = Newest(m + 1, n)
         /\ n = HeldAtMost => Holds(Append(Newest(m, n), m + 1)) = Newest(m + 1, n)
  <1> DEFINE k == IF m < n THEN m ELSE n
  <1>1. Len([i \in 1 .. k |-> m - k + i]) = k
    OBVIOUS
  <1>2. Newest(0, n) = << >> /\ Len(Newest(m, n)) = (IF m < n THEN m ELSE n)
    <2>1. Newest(0, n) = << >>
      BY DEF Newest
    <2> QED
      BY <1>1, <2>1 DEF Newest
  <1>3. ASSUME m < n PROVE Append(Newest(m, n), m + 1) = Newest(m + 1, n)
    <2>1. Newest(m, n) = [i \in 1 .. m |-> m - m + i] /\ Newest(m + 1, n) = [i \in 1 .. (m + 1) |-> (m + 1) - (m + 1) + i]
      BY <1>3 DEF Newest
    <2> QED
      BY <2>1, NewestGrows
  <1>4. ASSUME n = HeldAtMost PROVE Holds(Append(Newest(m, n), m + 1)) = Newest(m + 1, n)
    <2>1. n \in Nat \ {0}
      BY <1>4, RunsAssumption
    <2>2. Newest(m, n) \in Seq(Nat)
      <3>1. \A i \in 1 .. k : m - k + i \in Nat
        OBVIOUS
      <3> QED
        BY <3>1 DEF Newest
    <2>3. Len(Append(Newest(m, n), m + 1)) = (IF m < n THEN m ELSE n) + 1
      BY <1>2, <2>2, AppendProperties
    <2>6. Holds(Append(Newest(m, n), m + 1)) =
            IF Len(Append(Newest(m, n), m + 1)) > n THEN Tail(Append(Newest(m, n), m + 1)) ELSE Append(Newest(m, n), m + 1)
      BY <1>4, Zenon DEF Holds
    <2>4. CASE m < n
      <3>1. ~(Len(Append(Newest(m, n), m + 1)) > n)
        BY <2>3, <2>4
      <3> QED
        BY <1>3, <2>4, <2>6, <3>1, Zenon
    <2>5. CASE n <= m
      <3>1. Newest(m, n) = [i \in 1 .. n |-> m - n + i] /\ Newest(m + 1, n) = [i \in 1 .. n |-> (m + 1) - n + i]
        BY <2>5 DEF Newest
      <3>2. Len(Append(Newest(m, n), m + 1)) > n
        BY <2>3, <2>5
      <3>3. Tail(Append(Newest(m, n), m + 1)) = Newest(m + 1, n)
        BY <2>1, <2>5, <3>1, NewestMoves
      <3> QED
        BY <2>6, <3>2, <3>3, Zenon
    <2> QED
      BY <2>4, <2>5
  <1> QED
    BY <1>2, <1>3, <1>4

\* A command that no step of its own changes; its records may be removed.
LEMMA OthersRecord ==
  ASSUME NEW c \in Makers, OwnRecord(c), RunsTypeOK, RunsTypeOK',
         maker'[c] = maker[c], runs'[c] = runs[c], noted'[c] = noted[c], holding'[c] = holding[c],
         \A s \in Slots : s[1] = c => records'[s] = records[s] \/ (records'[s] = NoRun /\ spoilt'[c]),
         spoilt[c] => spoilt'[c]
  PROVE  OwnRecord(c)'
  <1>1. WayOf(c)' /\ RunsOpened(c)'
    BY DEF OwnRecord, WayOf, RunsOpened
  <1>2. KeptOf(c)'
    <2>1. NoRunOf(c) => NoRunOf(c)'
      BY DEF NoRunOf
    <2>2. \A s \in Slots : s[1] = c /\ records'[s].status = "success" => records[s].status = "success"
      BY NoRunTyped
    <2> QED
      BY <2>1, <2>2 DEF OwnRecord, KeptOf
  <1>3. ASSUME ~spoilt'[c] PROVE RecordAt(c)' /\ ToldOf(c)' /\ EventsOf(c)'
    <2>1. RecordAt(c) /\ ToldOf(c) /\ EventsOf(c) /\ \A s \in Slots : s[1] = c => records'[s] = records[s]
      BY <1>3 DEF OwnRecord
    <2>2. CurrentRun(c)' = CurrentRun(c) /\ (CurrentRun(c) \in Slots => CurrentRun(c)[1] = c)
      BY DEF CurrentRun
    <2>3. /\ NoRunOf(c)' <=> NoRunOf(c)
          /\ \A status \in {"no file", "running", "failed", "success"} : OneRunOf(c, status)' <=> OneRunOf(c, status)
      BY <2>1, <2>2 DEF NoRunOf, OneRunOf
    <2>4. \A seq : EventsAre(c, seq)' <=> EventsAre(c, seq)
      BY <2>1 DEF EventsAre
    <2>5. \A n : Latest(c, n)' = Latest(c, n)
      BY DEF Latest
    <2>6. RecordAt(c)'
      BY <2>1, <2>3 DEF RecordAt
    <2>7. ToldOf(c)'
      BY <2>1 DEF ToldOf
    <2>8. EventsOf(c)'
      <3>1. /\ EventsAre(c, Latest(c, HeldAtMost))' <=> EventsAre(c, Latest(c, HeldAtMost))
            /\ EventsAre(c, Latest(c, MaxNoted))' <=> EventsAre(c, Latest(c, MaxNoted))
        BY <2>4, <2>5, <2>1 DEF EventsAre
      <3>2. /\ Latest(c, HeldAtMost)' = Latest(c, HeldAtMost)
        BY <2>5
      <3> QED
        BY <2>1, <3>1, <3>2 DEF EventsOf
    <2> QED
      BY <2>6, <2>7, <2>8
  <1> QED
    BY <1>1, <1>2, <1>3 DEF OwnRecord

\* A step that leaves a command's records alone leaves all that is said of them.
LEMMA RecordsStay ==
  ASSUME NEW c \in Makers, records' = records, runs'[c] = runs[c]
  PROVE  /\ NoRunOf(c)' <=> NoRunOf(c)
         /\ \A status : OneRunOf(c, status)' <=> OneRunOf(c, status)
         /\ \A seq : EventsAre(c, seq)' <=> EventsAre(c, seq)
  <1>1. CurrentRun(c)' = CurrentRun(c)
    BY DEF CurrentRun
  <1> QED
    BY <1>1 DEF NoRunOf, OneRunOf, EventsAre

LEMMA EventsStay ==
  ASSUME NEW c \in Makers, records' = records, noted'[c] = noted[c], holding'[c] = holding[c]
  PROVE  /\ \A n : Latest(c, n)' = Latest(c, n)
         /\ EventsAre(c, Latest(c, HeldAtMost))' <=> EventsAre(c, Latest(c, HeldAtMost))
         /\ EventsAre(c, Latest(c, MaxNoted))' <=> EventsAre(c, Latest(c, MaxNoted))
  <1>1. Latest(c, HeldAtMost)' = Latest(c, HeldAtMost) /\ Latest(c, MaxNoted)' = Latest(c, MaxNoted)
        /\ \A n : Latest(c, n)' = Latest(c, n)
    BY DEF Latest
  <1> QED
    BY <1>1 DEF EventsAre

LEMMA BeginsWell ==
  ASSUME RunsInv, RunsTypeOK', NEW c \in Makers, NEW mode \in Modes, BeginRun(c, mode)
  PROVE  OwnRecord(c)'
  <1>1. /\ maker[c].at = "asleep" /\ OwnRecord(c) /\ maker'[c].mode = mode
        /\ maker'[c].at = (IF mode = "record" THEN "opens" ELSE "body")
        /\ maker'[c].did = "nothing" /\ maker'[c].tells = "nothing" /\ maker'[c].settled = FALSE
        /\ UNCHANGED << records, runs, noted, holding, spoilt >>
    BY RunsFields DEF BeginRun, At, Asleep, MakerFields, RunsInv
  <1>2. maker[c].mode = "off" /\ runs[c] = 0 /\ NoRunOf(c)
    BY <1>1 DEF OwnRecord, WayOf, RunsOpened, KeptOf
  <1>3. NoRunOf(c)' /\ \A s \in Slots : s[1] = c => records'[s].status # "success"
    BY <1>1, <1>2, RecordsStay, NoRunTyped DEF NoRunOf
  <1>4. WayOf(c)' /\ RunsOpened(c)' /\ KeptOf(c)'
    BY <1>1, <1>2, <1>3 DEF WayOf, RunsOpened, KeptOf
  <1>5. ASSUME ~spoilt[c] PROVE RecordAt(c)' /\ ToldOf(c)' /\ EventsOf(c)'
    <2>1. noted[c] = 0 /\ holding[c] = << >>
      BY <1>1, <1>5 DEF OwnRecord, EventsOf
    <2>2. RecordAt(c)' /\ ToldOf(c)'
      BY <1>1, <1>3 DEF RecordAt, ToldOf, Waits, Opens, Writing
    <2>3. Latest(c, HeldAtMost)' = << >> /\ EventsAre(c, Latest(c, MaxNoted))'
      <3>1. Latest(c, HeldAtMost)' = Newest(0, HeldAtMost)
        BY <1>1, <2>1 DEF Latest, Newest
      <3> QED
        BY <1>3, <3>1, HoldsNewest, RunsAssumption DEF NoRunOf, EventsAre
    <2> QED
      BY <1>1, <2>1, <2>2, <2>3 DEF EventsOf
  <1> QED
    BY <1>1, <1>4, <1>5 DEF OwnRecord

LEMMA AnswersWell ==
  ASSUME RunsInv, RunsTypeOK', NEW c \in Makers, Succeeds(c)
  PROVE  OwnRecord(c)'
  <1>1. /\ maker[c].at = "body" /\ OwnRecord(c) /\ maker'[c].mode = maker[c].mode
        /\ maker'[c].at = (IF maker[c].mode = "record" THEN "writes success" ELSE "ended")
        /\ maker'[c].did = "its work" /\ maker'[c].tells = "an answer" /\ maker[c].mode \in Modes
        /\ UNCHANGED << records, runs, noted, holding, spoilt >>
    BY RunsFields DEF Succeeds, At, MakerFields, RunsInv
  <1>2. WayOf(c)' /\ RunsOpened(c)' /\ KeptOf(c)'
    BY <1>1, RecordsStay DEF OwnRecord, WayOf, RunsOpened, KeptOf
  <1>3. ASSUME ~spoilt[c] PROVE RecordAt(c)' /\ ToldOf(c)' /\ EventsOf(c)'
    <2>1. RecordAt(c) /\ ToldOf(c) /\ EventsOf(c)
      BY <1>1, <1>3 DEF OwnRecord
    <2>2. RecordAt(c)' /\ ToldOf(c)'
      BY <1>1, <2>1, RecordsStay DEF RecordAt, ToldOf, Waits, Opens, Writing, Modes
    <2>3. EventsOf(c)'
      <3>1. maker[c].mode = "keep" => EventsAre(c, Latest(c, HeldAtMost))
        BY <1>1, <2>1 DEF RecordAt, NoRunOf, EventsAre
      <3> QED
        BY <1>1, <2>1, <3>1, EventsStay DEF EventsOf
    <2> QED
      BY <2>2, <2>3
  <1> QED
    BY <1>1, <1>2, <1>3 DEF OwnRecord

LEMMA FailsWell ==
  ASSUME RunsInv, RunsTypeOK', NEW c \in Makers, BodyFails(c)
  PROVE  OwnRecord(c)'
  <1>1. /\ maker[c].at = "body" /\ OwnRecord(c) /\ maker'[c].mode = maker[c].mode
        /\ maker[c].mode = "record" => maker'[c].at = "writes failed"
        /\ maker[c].mode = "keep" => maker'[c].at = "opens failed"
        /\ maker[c].mode \in {"off", "outside"} => maker'[c].at = "thrown"
        /\ maker'[c].settled <=> maker[c].mode # "outside"
        /\ maker'[c].did = "nothing" /\ maker'[c].tells = "a failure" /\ maker[c].mode \in Modes
        /\ UNCHANGED << records, runs, noted, holding, spoilt >>
    BY RunsFields DEF BodyFails, Settle, At, MakerFields, RunsInv
  <1>2. WayOf(c)' /\ RunsOpened(c)' /\ KeptOf(c)'
    <2>4. runs[c] = (IF maker[c].mode = "record" THEN 1 ELSE 0)
      BY <1>1 DEF OwnRecord, RunsOpened
    <2>5. maker[c].mode \in {"record", "keep"} => WayOf(c)' /\ RunsOpened(c)'
      BY <1>1, <2>4 DEF WayOf, RunsOpened
    <2>6. ASSUME maker[c].mode \in {"off", "outside"} PROVE WayOf(c)' /\ RunsOpened(c)'
      <3>1. maker'[c].at = "thrown" /\ runs'[c] = 0
        BY <1>1, <2>4, <2>6
      <3> QED
        BY <3>1 DEF WayOf, RunsOpened
    <2>1. WayOf(c)' /\ RunsOpened(c)'
      BY <1>1, <2>5, <2>6 DEF Modes
    <2>2. maker'[c].mode = "off" =>
            NoRunOf(c)' /\ maker'[c].at \in {"asleep", "body", "thrown", "ended"} /\ maker'[c].settled
      BY <1>1, RecordsStay DEF OwnRecord, KeptOf
    <2>3. \A s \in Slots : s[1] = c => records'[s].status # "success"
      BY <1>1 DEF OwnRecord, KeptOf
    <2> QED
      BY <1>1, <2>1, <2>2, <2>3 DEF KeptOf
  <1>3. ASSUME ~spoilt[c] PROVE RecordAt(c)' /\ ToldOf(c)' /\ EventsOf(c)'
    <2>1. RecordAt(c) /\ ToldOf(c) /\ EventsOf(c)
      BY <1>1, <1>3 DEF OwnRecord
    <2>2. RecordAt(c)' /\ ToldOf(c)'
      BY <1>1, <2>1, RecordsStay DEF RecordAt, ToldOf, Waits, Opens, Writing, Modes
    <2>3. EventsOf(c)'
      BY <1>1, <2>1, EventsStay DEF EventsOf, Modes
    <2> QED
      BY <2>2, <2>3
  <1> QED
    BY <1>1, <1>2, <1>3 DEF OwnRecord

KeptAs(c) ==
  /\ maker'[c].at \in {"ended", "opens last"} /\ maker'[c].mode = maker[c].mode
  /\ maker'[c].did = maker[c].did /\ maker'[c].tells = maker[c].tells
  /\ maker'[c].at = "ended" => (maker[c].settled \/ maker[c].mode # "outside") /\ holding' = holding
  /\ maker'[c].at = "opens last" => ~maker[c].settled /\ maker[c].mode # "off"

LEMMA KeepsWell ==
  ASSUME RunsInv, RunsTypeOK', NEW c \in Makers, KeepFailure(c)
  PROVE  OwnRecord(c)'
  <1>0. maker \in [Makers -> MakerFields] /\ maker[c].at = "thrown"
    BY RunsFields DEF KeepFailure, At, RunsInv
  <1>4. KeptAs(c)
    <2>1. ASSUME GoesOn(c, "ended"), maker[c].settled \/ maker[c].mode \in {"record", "off"}, holding' = holding
          PROVE  KeptAs(c)
      BY <1>0, <2>1 DEF GoesOn, MakerFields, KeptAs
    <2>2. ASSUME ~maker[c].settled, maker[c].mode # "off",
                 maker' = [maker EXCEPT ![c].at = "opens last", ![c].settled = TRUE, ![c].since = today]
          PROVE  KeptAs(c)
      BY <1>0, <2>2 DEF MakerFields, KeptAs
    <2> QED
      BY <2>1, <2>2 DEF KeepFailure
  <1>1. /\ maker[c].at = "thrown" /\ OwnRecord(c) /\ maker'[c].mode = maker[c].mode
        /\ maker'[c].did = maker[c].did /\ maker'[c].tells = maker[c].tells /\ maker[c].mode \in Modes
        /\ \/ maker'[c].at = "ended" /\ (maker[c].settled \/ maker[c].mode # "outside") /\ holding' = holding
           \/ maker'[c].at = "opens last" /\ ~maker[c].settled /\ maker[c].mode # "off"
        /\ UNCHANGED << records, runs, noted, spoilt >>
    BY <1>0, <1>4 DEF KeptAs, KeepFailure, RunsInv, MakerFields
  <1>2. WayOf(c)' /\ RunsOpened(c)' /\ KeptOf(c)'
    BY <1>1, RecordsStay DEF OwnRecord, WayOf, RunsOpened, KeptOf
  <1>3. ASSUME ~spoilt[c] PROVE RecordAt(c)' /\ ToldOf(c)' /\ EventsOf(c)'
    <2>1. RecordAt(c) /\ ToldOf(c) /\ EventsOf(c)
      BY <1>1, <1>3 DEF OwnRecord
    <2>2. RecordAt(c)' /\ ToldOf(c)'
      BY <1>1, <2>1, RecordsStay DEF RecordAt, ToldOf, Waits, Opens, Writing, Modes
    <2>3. EventsOf(c)'
      <3>1. CASE maker'[c].at = "ended"
        BY <1>1, <2>1, <3>1, EventsStay DEF EventsOf
      <3>2. CASE maker'[c].at = "opens last"
        BY <1>1, <2>1, <3>2 DEF EventsOf
      <3> QED
        BY <1>1, <3>1, <3>2
    <2> QED
      BY <2>2, <2>3
  <1> QED
    BY <1>1, <1>2, <1>3 DEF OwnRecord

LEMMA DiesWell ==
  ASSUME RunsInv, RunsTypeOK', NEW c \in Makers, Killed(c)
  PROVE  OwnRecord(c)'
  <1>1. /\ maker[c].at # "ended" /\ OwnRecord(c) /\ maker'[c].at = "killed"
        /\ maker'[c].mode = "off" /\ UNCHANGED << records, runs, spoilt >>
    BY RunsFields DEF Killed, Asleep, MakerFields, RunsInv
  <1>2. WayOf(c)' /\ RunsOpened(c)' /\ KeptOf(c)'
    BY <1>1 DEF OwnRecord, WayOf, RunsOpened, KeptOf
  <1>3. RecordAt(c)' /\ ToldOf(c)' /\ EventsOf(c)'
    BY <1>1 DEF RecordAt, ToldOf, EventsOf, Waits, Opens, Writing
  <1> QED
    BY <1>1, <1>2, <1>3 DEF OwnRecord

\* The numbers of the runs of one command.
LEMMA SmallNumbers ==
  /\ \A n \in {0, 1} : n <= 1 /\ n \in 0 .. 3 /\ n + 1 \in {1, 2} /\ n + 1 \in 0 .. 3
  /\ \A n \in 0 .. 3 : n \in Int /\ n + 1 # n /\ (n <= 1 => n \in {0, 1})
  /\ 0 + 1 = 1
  OBVIOUS

\* The slot of the run a command has under way, while it has opened one.
LEMMA OpenedSlot ==
  ASSUME RunsTypeOK, NEW c \in Makers, runs[c] \in {1, 2, 3}
  PROVE  CurrentRun(c) \in Slots /\ CurrentRun(c)[1] = c
  BY SlotsOf DEF CurrentRun

\* An error that opening or writing the record throws spoils it, and says no more than the command did.
LEMMA ThrowsWell ==
  ASSUME RunsInv, RunsTypeOK', NEW c \in Makers, Thrown(c), spoilt'[c], UNCHANGED << records, runs >>,
         maker[c].at \in {"opens", "opens failed", "opened", "opened failed", "writes success", "writes failed",
                          "opens last", "opened last", "writes last"}
  PROVE  OwnRecord(c)'
  <1>0. maker \in [Makers -> MakerFields] /\ OwnRecord(c) /\ runs[c] \in 0 .. 3
    BY RunsFields DEF RunsInv
  <1>1. CASE maker[c].at \in {"opens last", "opened last", "writes last"}
    <2>1. maker'[c].at = "ended" /\ maker'[c].mode = maker[c].mode /\ maker'[c].tells = maker[c].tells
      BY <1>0, <1>1 DEF Thrown, GoesOn, MakerFields
    <2>2. KeptOf(c)'
      BY <1>0, <1>1, <2>1, RecordsStay DEF OwnRecord, KeptOf
    <2> QED
      BY <2>1, <2>2 DEF OwnRecord, WayOf, RunsOpened
  <1>2. CASE maker[c].at \notin {"opens last", "opened last", "writes last"}
    <2>1. maker'[c].at = "thrown" /\ maker'[c].mode = maker[c].mode
      <3>1. PICK settled : maker' = [maker EXCEPT ![c].at = "thrown", ![c].settled = settled, ![c].tells = "a failure"]
        BY <1>2, Zenon DEF Thrown
      <3> QED
        BY <1>0, <3>1 DEF MakerFields
    <2>2. maker[c].mode # "off" /\ runs[c] <= 1
      <3>1. maker[c].at \in {"opens", "opens failed", "opened", "opened failed", "writes success", "writes failed"}
        BY <1>2
      <3>2. runs[c] \in {0, 1}
        BY <1>0, <3>1 DEF OwnRecord, RunsOpened
      <3>3. maker[c].mode # "off"
        BY <1>0, <3>1 DEF OwnRecord, WayOf
      <3> QED
        BY <3>2, <3>3, SmallNumbers, Zenon
    <2>3. \A s \in Slots : s[1] = c => records[s].status # "success"
      BY <1>0, <1>2 DEF OwnRecord, KeptOf
    <2> QED
      BY <2>1, <2>2, <2>3 DEF OwnRecord, WayOf, RunsOpened, KeptOf
  <1> QED
    BY <1>1, <1>2

\* The directory is the one there is of the command, unless its record is spoilt.
LEMMA OpensWell ==
  ASSUME RunsInv, RunsTypeOK', NEW c \in Makers, MakeDirectory(c)
  PROVE  OwnRecord(c)'
  <1>0. /\ maker \in [Makers -> MakerFields] /\ OwnRecord(c) /\ runs \in [Makers -> 0 .. 3]
        /\ records \in [Slots -> RunFields] /\ spoilt \in [Makers -> BOOLEAN]
        /\ maker[c].at \in {"opens", "opens failed", "opens last"} /\ noted' = noted /\ holding' = holding
    BY RunsFields DEF RunsInv, MakeDirectory
  <1>1. CASE runs' = runs
    <2>1. Thrown(c) /\ spoilt'[c] /\ UNCHANGED << records, runs >>
      <3>1. runs[c] \in 0 .. 3
        BY <1>0
      <3>2. runs[c] + 1 # runs[c]
        BY <3>1, SmallNumbers, Zenon
      <3>3. runs' # [runs EXCEPT ![c] = @ + 1]
        BY <1>0, <1>1, <3>2
      <3>4. spoilt' = [spoilt EXCEPT ![c] = TRUE] => spoilt'[c]
        BY <1>0
      <3> QED
        BY <1>1, <3>3, <3>4, Zenon DEF MakeDirectory
    <2> QED
      BY <1>0, <2>1, ThrowsWell
  <1>2. CASE runs' # runs
    <2> DEFINE new == << c, runs[c] + 1 >>
    <2>1. /\ runs' = [runs EXCEPT ![c] = @ + 1]
          /\ records' = [s \in Slots |->
               IF s = new THEN [NoRun EXCEPT !.status = "no file", !.day = maker[c].since]
               ELSE IF s \in Pruned(c) THEN NoRun ELSE records[s]]
          /\ spoilt' = [k \in Makers |-> spoilt[k] \/ \E s \in Pruned(c) : s[1] = k]
          /\ GoesOn(c, IF maker[c].at = "opens" THEN "opened" ELSE IF maker[c].at = "opens failed" THEN "opened failed"
                       ELSE "opened last")
      BY <1>2 DEF MakeDirectory, At
    <2>2. /\ maker'[c].at = (IF maker[c].at = "opens" THEN "opened" ELSE IF maker[c].at = "opens failed" THEN "opened failed"
                             ELSE "opened last")
          /\ maker'[c].mode = maker[c].mode /\ maker'[c].tells = maker[c].tells /\ maker'[c].did = maker[c].did
          /\ maker'[c].settled = maker[c].settled
      BY <1>0, <2>1 DEF GoesOn, MakerFields
    <2>10. runs[c] \in 0 .. 3 /\ runs'[c] = runs[c] + 1
      BY <1>0, <2>1
    <2>11. (maker[c].at \in {"opens", "opens failed"} => runs[c] = 0) /\ (maker[c].at = "opens last" => runs[c] <= 1)
      BY <1>0 DEF OwnRecord, RunsOpened
    <2>3. /\ runs[c] \in {0, 1} /\ runs'[c] = runs[c] + 1 /\ (maker[c].at \in {"opens", "opens failed"} => runs[c] = 0)
          /\ maker[c].mode # "off"
      <3>1. maker[c].mode # "off"
        BY <1>0 DEF OwnRecord, KeptOf
      <3>3. maker[c].at = "opens" \/ maker[c].at = "opens failed" \/ maker[c].at = "opens last"
        BY <1>0
      <3>4. maker[c].at \in {"opens", "opens failed"} => runs[c] \in {0, 1}
        BY <2>11
      <3>5. maker[c].at = "opens last" => runs[c] \in {0, 1}
        BY <2>10, <2>11, SmallNumbers, Zenon
      <3>2. runs[c] \in {0, 1}
        BY <3>3, <3>4, <3>5
      <3> QED
        BY <2>10, <2>11, <3>1, <3>2
    <2>4. CurrentRun(c)' = new /\ new \in Slots /\ new[1] = c
      <3>1. runs[c] + 1 \in {1, 2}
        BY <2>3, SmallNumbers, Zenon
      <3> QED
        BY <2>3, <3>1, SlotsOf DEF CurrentRun
    <2>5. records'[new].status = "no file" /\ records'[new].noted = << >> /\ records'[new] # NoRun
      <3>1. records'[new] = [NoRun EXCEPT !.status = "no file", !.day = maker[c].since]
        BY <2>1, <2>4
      <3>2. NoRun.status = "none" /\ NoRun.noted = << >> /\ NoRun \in RunFields
        BY NoRunTyped
      <3>3. records'[new].status = "no file" /\ records'[new].noted = << >>
        BY <3>1, <3>2 DEF RunFields
      <3> QED
        BY <3>2, <3>3
    <2> HIDE DEF new
    <2>6. \A s \in Slots : s # new => records'[s] = NoRun \/ records'[s] = records[s]
      BY <2>1
    <2>7. WayOf(c)' /\ RunsOpened(c)'
      <3>1. WayOf(c)'
        BY <1>0, <2>2 DEF OwnRecord, WayOf
      <3>2. runs'[c] \in {1, 2} /\ (maker[c].at \in {"opens", "opens failed"} => runs'[c] = 1)
        BY <2>3, SmallNumbers, Zenon
      <3> QED
        BY <1>0, <2>2, <3>1, <3>2 DEF RunsOpened
    <2>8. KeptOf(c)'
      <3>1. \A s \in Slots : s[1] = c => records'[s].status # "success"
        BY <1>0, <2>5, <2>6, NoRunTyped DEF OwnRecord, KeptOf
      <3> QED
        BY <2>2, <2>3, <3>1 DEF KeptOf
    <2>9. ASSUME ~spoilt'[c] PROVE RecordAt(c)' /\ ToldOf(c)' /\ EventsOf(c)'
      <3>1. ~spoilt[c] /\ RecordAt(c) /\ ToldOf(c) /\ EventsOf(c)
        BY <1>0, <2>1, <2>9 DEF OwnRecord
      <3>2. NoRunOf(c)
        BY <1>0, <3>1 DEF RecordAt, Waits
      <3>3. OneRunOf(c, "no file")'
        <4>1. \A s \in Slots : s[1] = c => (records'[s] # NoRun <=> s = new)
          BY <2>4, <2>5, <2>6, <3>2 DEF NoRunOf
        <4> QED
          BY <2>4, <2>5, <4>1 DEF OneRunOf
      <3>4. maker'[c].at \in Opens /\ maker'[c].at \notin Waits \cup Writing \cup {"body", "thrown", "ended"}
        BY <1>0, <2>2 DEF Opens, Waits, Writing
      <3>5. RecordAt(c)'
        BY <3>3, <3>4 DEF RecordAt
      <3>6. ToldOf(c)'
        BY <1>0, <2>2, <3>1 DEF ToldOf
      <3>7. EventsOf(c)'
        <4>1. Latest(c, HeldAtMost)' = Latest(c, HeldAtMost)
          BY <1>0 DEF Latest
        <4> QED
          BY <1>0, <2>2, <3>1, <4>1 DEF EventsOf
      <3> QED
        BY <3>5, <3>6, <3>7
    <2> QED
      BY <2>7, <2>8, <2>9 DEF OwnRecord
  <1> QED
    BY <1>1, <1>2

\* run.json says "running", and has what was held.
LEMMA RunsWell ==
  ASSUME RunsInv, RunsTypeOK', NEW c \in Makers, WriteRunning(c)
  PROVE  OwnRecord(c)'
  <1>0. /\ maker \in [Makers -> MakerFields] /\ OwnRecord(c) /\ records \in [Slots -> RunFields]
        /\ maker[c].at \in Opens /\ noted' = noted /\ holding' = holding /\ runs' = runs /\ spoilt \in [Makers -> BOOLEAN]
    BY RunsFields DEF RunsInv, WriteRunning, Opens
  <1> DEFINE own == CurrentRun(c)
             new == [status |-> "running", day |-> maker[c].since,
                     noted |-> IF records[own] = NoRun THEN << >> ELSE holding[c]]
  <1>1. CASE Thrown(c) /\ spoilt' = [spoilt EXCEPT ![c] = TRUE] /\ UNCHANGED records
    BY <1>0, <1>1, ThrowsWell DEF Opens
  <1>2. CASE /\ records' = [records EXCEPT ![own] = new]
             /\ GoesOn(c, IF maker[c].at = "opened" THEN "body" ELSE IF maker[c].at = "opened failed" THEN "writes failed"
                          ELSE "writes last")
             /\ UNCHANGED spoilt
    <2>1. /\ maker'[c].at = (IF maker[c].at = "opened" THEN "body" ELSE IF maker[c].at = "opened failed" THEN "writes failed"
                             ELSE "writes last")
          /\ maker'[c].mode = maker[c].mode /\ maker'[c].tells = maker[c].tells /\ maker'[c].did = maker[c].did
          /\ maker'[c].settled = maker[c].settled
      BY <1>0, <1>2 DEF GoesOn, MakerFields
    <2>2. /\ maker[c].at \in {"opened", "opened failed"} => runs[c] = 1
          /\ maker[c].at = "opened last" => runs[c] \in {1, 2}
      BY <1>0 DEF OwnRecord, RunsOpened
    <2>3. runs[c] \in {1, 2, 3}
      BY <1>0, <2>2 DEF Opens
    <2>4. own \in Slots /\ own[1] = c /\ CurrentRun(c)' = own
      BY <1>0, <2>3, SlotsOf DEF CurrentRun
    <2>5. records'[own] = new /\ \A s \in Slots : s # own => records'[s] = records[s]
      BY <1>0, <1>2, <2>4
    <2>6. new.status = "running" /\ new # NoRun /\ new.noted = IF records[own] = NoRun THEN << >> ELSE holding[c]
      <3>1. new.status = "running" /\ new.noted = IF records[own] = NoRun THEN << >> ELSE holding[c]
        OBVIOUS
      <3> HIDE DEF new
      <3> QED
        BY <3>1, NoRunTyped
    <2> HIDE DEF own, new
    <2>7. /\ maker[c].mode # "off" /\ (maker[c].at = "opened" => maker[c].mode = "record")
          /\ maker[c].at = "opened failed" => maker[c].mode = "keep"
      BY <1>0 DEF OwnRecord, KeptOf, WayOf, Opens
    <2>8. WayOf(c)'
      BY <1>0, <2>1, <2>7 DEF WayOf, Opens
    <2>9. RunsOpened(c)'
      BY <1>0, <2>1, <2>2, <2>7 DEF RunsOpened, Opens
    <2>10. KeptOf(c)'
      <3>1. \A s \in Slots : s[1] = c => records[s].status # "success"
        BY <1>0 DEF OwnRecord, KeptOf, Opens
      <3>2. \A s \in Slots : s[1] = c => records'[s].status # "success"
        BY <2>5, <2>6, <3>1
      <3> QED
        BY <2>1, <2>7, <3>2 DEF KeptOf
    <2>11. ASSUME ~spoilt[c] PROVE RecordAt(c)' /\ ToldOf(c)' /\ EventsOf(c)'
      <3>1. RecordAt(c) /\ ToldOf(c) /\ EventsOf(c)
        BY <1>0, <2>11 DEF OwnRecord
      <3>2. OneRunOf(c, "no file")
        BY <1>0, <3>1 DEF RecordAt
      <3>3. OneRunOf(c, "running")'
        BY <2>4, <2>5, <2>6, <3>2 DEF OneRunOf, own
      <3>4. new.noted = holding[c] /\ \A seq : seq = holding[c] => EventsAre(c, seq)'
        <4>1. records[own] # NoRun /\ \A s \in Slots : s[1] = c /\ s # own => records[s] = NoRun
          BY <2>4, <3>2 DEF OneRunOf, own
        <4> QED
          BY <2>5, <2>6, <4>1 DEF EventsAre
      <3>5. RecordAt(c)'
        BY <1>0, <2>1, <2>7, <3>3 DEF RecordAt, Waits, Opens, Writing
      <3>6. ToldOf(c)'
        BY <1>0, <2>1, <3>1 DEF ToldOf, Opens
      <3>7. EventsOf(c)'
        <4>1. CASE maker[c].at = "opened"
          <5>1. noted[c] = 0 /\ holding[c] = << >>
            BY <3>1, <4>1 DEF EventsOf
          <5>2. Latest(c, MaxNoted)' = Newest(0, MaxNoted)
            BY <1>0, <5>1 DEF Latest, Newest
          <5>3. Latest(c, MaxNoted)' = holding[c]
            BY <5>1, <5>2, HoldsNewest, RunsAssumption
          <5>4. EventsAre(c, Latest(c, MaxNoted))'
            BY <3>4, <5>3 DEF EventsAre
          <5> QED
            BY <2>1, <2>7, <4>1, <5>4 DEF EventsOf
        <4>2. CASE maker[c].at = "opened failed"
          <5>1. holding[c] = Latest(c, HeldAtMost)
            BY <2>7, <3>1, <4>2 DEF EventsOf
          <5>2. Latest(c, HeldAtMost)' = holding[c]
            BY <1>0, <5>1 DEF Latest
          <5>3. EventsAre(c, Latest(c, HeldAtMost))'
            BY <3>4, <5>2 DEF EventsAre
          <5> QED
            BY <2>1, <2>7, <4>2, <5>3 DEF EventsOf
        <4>3. CASE maker[c].at = "opened last"
          BY <2>1, <4>3 DEF EventsOf
        <4> QED
          BY <1>0, <4>1, <4>2, <4>3 DEF Opens
      <3> QED
        BY <3>5, <3>6, <3>7
    <2> QED
      BY <1>2, <2>8, <2>9, <2>10, <2>11 DEF OwnRecord
  <1> QED
    BY <1>1, <1>2 DEF WriteRunning, At

\* run.json says how it ended; what the log has stays.
LEMMA FinishesWell ==
  ASSUME RunsInv, RunsTypeOK', NEW c \in Makers, FinishRun(c)
  PROVE  OwnRecord(c)'
  <1>0. /\ maker \in [Makers -> MakerFields] /\ OwnRecord(c) /\ records \in [Slots -> RunFields]
        /\ maker[c].at \in Writing /\ noted' = noted /\ holding' = holding /\ runs' = runs /\ spoilt \in [Makers -> BOOLEAN]
    BY RunsFields DEF RunsInv, FinishRun, Writing
  <1> DEFINE own == CurrentRun(c)
             status == IF maker[c].at = "writes success" THEN "success" ELSE "failed"
             new == [records[own] EXCEPT !.status = status, !.day = maker[c].since]
  <1>1. CASE Thrown(c) /\ spoilt' = [spoilt EXCEPT ![c] = TRUE] /\ UNCHANGED records
    BY <1>0, <1>1, ThrowsWell DEF Writing
  <1>2. CASE /\ records' = [records EXCEPT ![own] = new]
             /\ GoesOn(c, IF maker[c].at = "writes failed" THEN "thrown" ELSE "ended")
             /\ UNCHANGED spoilt
    <2>1. /\ maker'[c].at = (IF maker[c].at = "writes failed" THEN "thrown" ELSE "ended")
          /\ maker'[c].mode = maker[c].mode /\ maker'[c].tells = maker[c].tells /\ maker'[c].did = maker[c].did
          /\ maker'[c].settled = maker[c].settled
      BY <1>0, <1>2 DEF GoesOn, MakerFields
    <2>2. /\ maker[c].at \in {"writes success", "writes failed"} => runs[c] = 1
          /\ maker[c].at = "writes last" => runs[c] \in {1, 2}
      BY <1>0 DEF OwnRecord, RunsOpened
    <2>3. runs[c] \in {1, 2, 3}
      BY <1>0, <2>2 DEF Writing
    <2>4. own \in Slots /\ own[1] = c /\ CurrentRun(c)' = own
      BY <1>0, <2>3, SlotsOf DEF CurrentRun
    <2>5. records'[own] = new /\ \A s \in Slots : s # own => records'[s] = records[s]
      BY <1>0, <1>2, <2>4
    <2>6. new.status = status /\ new # NoRun /\ new.noted = records[own].noted
      <3>1. new.status = status /\ new.noted = records[own].noted
        BY <1>0, <2>4 DEF RunFields
      <3>2. status # "none"
        OBVIOUS
      <3> HIDE DEF new, status
      <3> QED
        BY <3>1, <3>2, NoRunTyped
    <2>12. status = "success" => maker[c].at = "writes success"
      OBVIOUS
    <2>13. maker[c].at # "writes success" => status = "failed"
      OBVIOUS
    <2>14. maker[c].at = "writes success" => status = "success"
      OBVIOUS
    <2> HIDE DEF own, new, status
    <2>7. /\ maker[c].mode # "off" /\ (maker[c].at = "writes success" => maker[c].mode = "record" /\ maker[c].tells = "an answer")
          /\ maker[c].at = "writes failed" => maker[c].mode \in {"record", "keep"}
      BY <1>0 DEF OwnRecord, KeptOf, WayOf, Writing
    <2>8. WayOf(c)'
      BY <1>0, <2>1, <2>7 DEF WayOf
    <2>9. RunsOpened(c)'
      <3>1. maker'[c].at = "thrown" => runs'[c] = 1
        BY <1>0, <2>1, <2>2
      <3>2. 1 <= 1
        OBVIOUS
      <3>3. maker'[c].at = "thrown" => runs'[c] <= 1
        BY <3>1, <3>2, Zenon
      <3> QED
        BY <2>1, <3>3 DEF RunsOpened
    <2>10. KeptOf(c)'
      <3>1. \A s \in Slots : s[1] = c => records[s].status # "success"
        BY <1>0 DEF OwnRecord, KeptOf, Writing
      <3>2. \A s \in Slots : s[1] = c /\ records'[s].status = "success" => maker[c].at = "writes success"
        BY <2>5, <2>6, <2>12, <3>1
      <3> QED
        BY <2>1, <2>7, <3>2 DEF KeptOf
    <2>11. ASSUME ~spoilt[c] PROVE RecordAt(c)' /\ ToldOf(c)' /\ EventsOf(c)'
      <3>1. RecordAt(c) /\ ToldOf(c) /\ EventsOf(c)
        BY <1>0, <2>11 DEF OwnRecord
      <3>2. OneRunOf(c, "running")
        BY <1>0, <3>1 DEF RecordAt
      <3>3. /\ status = "success" => OneRunOf(c, "success")'
            /\ status = "failed" => OneRunOf(c, "failed")'
        BY <2>4, <2>5, <2>6, <3>2 DEF OneRunOf, own
      <3>4. \A seq : EventsAre(c, seq) => EventsAre(c, seq)'
        <4>1. records[own] # NoRun
          BY <2>4, <3>2 DEF OneRunOf, own
        <4> QED
          BY <2>4, <2>5, <2>6, <4>1 DEF EventsAre
      <3>8. maker[c].at # "writes success" => maker[c].tells = "a failure" /\ maker[c].did = "nothing"
        BY <1>0, <3>1 DEF ToldOf, Writing
      <3>9. (maker[c].at = "writes last" => maker[c].mode = "outside") /\ (maker[c].at = "writes success" => maker[c].did = "its work")
        BY <1>0, <3>1 DEF ToldOf, OwnRecord, WayOf
      <3>10. maker'[c].at = "thrown" => (maker'[c].settled <=> maker'[c].mode # "outside")
        BY <1>0, <2>1, <3>1 DEF ToldOf, Writing
      <3>5. RecordAt(c)'
        <4>1. maker'[c].at = "thrown" => OneRunOf(c, "failed")'
          BY <1>0, <2>1, <2>13, <3>3 DEF Writing
        <4>2. maker'[c].at = "ended" /\ maker'[c].tells = "an answer" => maker'[c].mode = "record" /\ OneRunOf(c, "success")'
          BY <1>0, <2>1, <2>7, <2>14, <3>3, <3>8 DEF Writing
        <4>3. maker'[c].at = "ended" /\ maker'[c].tells # "an answer" => OneRunOf(c, "failed")'
          BY <1>0, <2>1, <2>7, <2>13, <3>3 DEF Writing
        <4> QED
          BY <2>1, <2>7, <4>1, <4>2, <4>3 DEF RecordAt, Waits, Opens, Writing
      <3>6. ToldOf(c)'
        BY <1>0, <2>1, <2>7, <3>8, <3>9, <3>10 DEF ToldOf, Writing
      <3>7. EventsOf(c)'
        <4>1. /\ maker[c].mode = "keep" /\ maker[c].at = "writes failed" => EventsAre(c, Latest(c, HeldAtMost))
              /\ maker[c].mode = "record" /\ maker[c].at \in {"writes failed", "writes success"} => EventsAre(c, Latest(c, MaxNoted))
          BY <3>1 DEF EventsOf
        <4>2. Latest(c, HeldAtMost)' = Latest(c, HeldAtMost) /\ Latest(c, MaxNoted)' = Latest(c, MaxNoted)
          BY <1>0 DEF Latest
        <4>3. /\ EventsAre(c, Latest(c, HeldAtMost)) => EventsAre(c, Latest(c, HeldAtMost))'
              /\ EventsAre(c, Latest(c, MaxNoted)) => EventsAre(c, Latest(c, MaxNoted))'
          BY <3>4, <4>2 DEF EventsAre
        <4>4. maker[c].at = "writes last" => maker[c].mode = "outside"
          BY <3>9
        <4> QED
          BY <1>0, <2>1, <2>7, <4>1, <4>3, <4>4 DEF EventsOf, Writing
      <3> QED
        BY <3>5, <3>6, <3>7
    <2> QED
      BY <1>2, <2>8, <2>9, <2>10, <2>11 DEF OwnRecord
  <1> QED
    BY <1>1, <1>2 DEF FinishRun, At

\* An event is the newest of the log, or of what is held.
LEMMA NotesWell ==
  ASSUME RunsInv, RunsTypeOK', NEW c \in Makers, Note(c)
  PROVE  OwnRecord(c)'
  <1>0. /\ maker \in [Makers -> MakerFields] /\ OwnRecord(c) /\ records \in [Slots -> RunFields]
        /\ maker[c].at = "body" /\ maker[c].mode \in Modes /\ maker' = maker /\ runs' = runs /\ spoilt \in [Makers -> BOOLEAN]
        /\ holding \in [Makers -> Seq(1 .. MaxNoted)]
    BY RunsFields DEF RunsInv, Note, At, MakerFields
  <1>1. noted[c] \in Nat /\ noted[c] < MaxNoted /\ noted'[c] = noted[c] + 1 /\ MaxNoted \in Nat
    BY RunsFields, RunsAssumption DEF RunsInv, Note
  <1>2. \A n \in Nat : Latest(c, n) = Newest(noted[c], n) /\ Latest(c, n)' = Newest(noted[c] + 1, n)
    BY <1>1 DEF Latest, Newest
  <1>3. WayOf(c)' /\ RunsOpened(c)'
    BY <1>0 DEF OwnRecord, WayOf, RunsOpened
  <1>4. ASSUME records' = records PROVE KeptOf(c)'
    BY <1>0, <1>4, RecordsStay DEF OwnRecord, KeptOf
  <1>5. ASSUME records' = records, ~spoilt[c] PROVE RecordAt(c)' /\ ToldOf(c)'
    BY <1>0, <1>5, RecordsStay DEF OwnRecord, RecordAt, ToldOf
  <1>6. CASE maker[c].mode = "record" /\ ~spoilt[c] /\ spoilt' = spoilt
    <2> DEFINE own == CurrentRun(c)
               log == Append(records[own].noted, noted[c] + 1)
    <2>1. records' = Logged(c, log)
      <3>1. [spoilt EXCEPT ![c] = TRUE] # spoilt
        BY <1>0, <1>6
      <3> QED
        BY <1>1, <1>6, <3>1 DEF Note
    <2>2. RecordAt(c) /\ ToldOf(c) /\ EventsOf(c)
      BY <1>0, <1>6 DEF OwnRecord
    <2>3. OneRunOf(c, "running")
      BY <1>0, <1>6, <2>2 DEF RecordAt
    <2>4. own \in Slots /\ own[1] = c /\ CurrentRun(c)' = own /\ records[own] # NoRun /\ records[own].status = "running"
          /\ \A s \in Slots : s[1] = c => (records[s] # NoRun <=> s = own)
      BY <1>0, <2>3 DEF OneRunOf, CurrentRun, Slots
    <2>5. records' = [records EXCEPT ![own].noted = log]
      BY <2>1, <2>4 DEF Logged
    <2>6. records'[own].status = "running" /\ records'[own].noted = log /\ \A s \in Slots : s # own => records'[s] = records[s]
      <3> HIDE DEF own, log
      <3> QED
        BY <1>0, <2>4, <2>5 DEF RunFields
    <2>7. records'[own] # NoRun
      BY <2>6, NoRunTyped
    <2>8. log = Latest(c, MaxNoted)'
      <3>1. EventsAre(c, Latest(c, MaxNoted))
        BY <1>0, <1>6, <2>2 DEF EventsOf
      <3>2. records[own].noted = Newest(noted[c], MaxNoted)
        BY <1>1, <1>2, <2>4, <3>1 DEF EventsAre
      <3> QED
        BY <1>1, <1>2, <3>2, HoldsNewest
    <2> HIDE DEF own, log
    <2>9. OneRunOf(c, "running")'
      BY <2>4, <2>6, <2>7 DEF OneRunOf
    <2>10. EventsAre(c, Latest(c, MaxNoted))'
      <3>1. \A s \in Slots : s[1] = c /\ records'[s] # NoRun => records'[s].noted = log
        BY <2>4, <2>6
      <3> QED
        BY <2>8, <3>1 DEF EventsAre
    <2>11. KeptOf(c)'
      BY <1>0, <1>6, <2>4, <2>6 DEF OwnRecord, KeptOf
    <2>12. RecordAt(c)' /\ ToldOf(c)' /\ EventsOf(c)'
      BY <1>0, <1>6, <2>9, <2>10 DEF RecordAt, ToldOf, EventsOf, Waits, Opens, Writing
    <2> QED
      BY <1>3, <2>11, <2>12 DEF OwnRecord
  <1>7. CASE maker[c].mode = "record" /\ (spoilt[c] \/ spoilt' # spoilt)
    <2>1. records' = records /\ spoilt'[c]
      BY <1>0, <1>7 DEF Note
    <2> QED
      BY <1>3, <1>4, <2>1 DEF OwnRecord
  <1>8. CASE maker[c].mode = "keep"
    <2>1. records' = records /\ spoilt' = spoilt /\ holding' = [holding EXCEPT ![c] = Holds(Append(@, noted[c] + 1))]
      BY <1>1, <1>8 DEF Note
    <2>2. holding'[c] = Holds(Append(holding[c], noted[c] + 1))
      BY <1>0, <2>1
    <2>3. ASSUME ~spoilt[c] PROVE EventsOf(c)'
      <3>1. holding[c] = Latest(c, HeldAtMost)
        BY <1>0, <1>8, <2>3 DEF OwnRecord, EventsOf
      <3>2. holding'[c] = Latest(c, HeldAtMost)'
        <4>1. HeldAtMost \in Nat
          BY RunsAssumption
        <4>2. Holds(Append(Newest(noted[c], HeldAtMost), noted[c] + 1)) = Newest(noted[c] + 1, HeldAtMost)
          BY <1>1, <4>1, HoldsNewest, Zenon
        <4>3. Latest(c, HeldAtMost) = Newest(noted[c], HeldAtMost) /\ Latest(c, HeldAtMost)' = Newest(noted[c] + 1, HeldAtMost)
          BY <1>2, <4>1
        <4> QED
          BY <2>2, <3>1, <4>2, <4>3
      <3> QED
        BY <1>0, <1>8, <3>2 DEF EventsOf
    <2> QED
      BY <1>3, <1>4, <1>5, <2>1, <2>3 DEF OwnRecord
  <1>9. CASE maker[c].mode \in {"off", "outside"}
    <2>1. records' = records /\ spoilt' = spoilt
      BY <1>9 DEF Note
    <2>2. EventsOf(c)'
      BY <1>0, <1>9 DEF EventsOf
    <2> QED
      BY <1>3, <1>4, <1>5, <2>1, <2>2 DEF OwnRecord
  <1> QED
    BY <1>0, <1>6, <1>7, <1>8, <1>9 DEF Modes

\* Every step keeps the types.
LEMMA RunsTyped ==
  ASSUME RunsInv, RunsNext
  PROVE  RunsTypeOK'
  <1>0. RunsTypeOK
    BY DEF RunsInv
  <1> USE RunsAssumption
  <1>1. ASSUME NEW c \in Makers, Thrown(c) PROVE maker' \in [Makers -> MakerFields]
    <2>1. PICK settled \in BOOLEAN : \/ maker' = [maker EXCEPT ![c].at = "ended"]
                                     \/ maker' = [maker EXCEPT ![c].at = "thrown", ![c].settled = settled, ![c].tells = "a failure"]
      <3>1. At(c, "writes success") \in BOOLEAN
        BY DEF At
      <3> QED
        BY <1>1, <3>1 DEF Thrown, GoesOn
    <2>2. "ended" \in Places /\ "thrown" \in Places /\ "a failure" \in Tolds /\ maker \in [Makers -> MakerFields]
      BY <1>0, RunsFields DEF Places, Tolds
    <2>3. CASE maker' = [maker EXCEPT ![c].at = "ended"]
      BY <2>2, <2>3 DEF MakerFields
    <2>4. CASE maker' = [maker EXCEPT ![c].at = "thrown", ![c].settled = settled, ![c].tells = "a failure"]
      BY <2>2, <2>4 DEF MakerFields
    <2> QED
      BY <2>1, <2>3, <2>4
  <1>2. ASSUME NEW c \in Makers, NEW place \in Places, GoesOn(c, place) PROVE maker' \in [Makers -> MakerFields]
    <2>1. maker \in [Makers -> MakerFields] /\ maker' = [maker EXCEPT ![c].at = place]
      BY <1>0, <1>2, RunsFields DEF GoesOn
    <2> QED
      BY <2>1 DEF MakerFields
  <1>3. ASSUME records' \in [Slots -> RunFields], runs' \in [Makers -> 0 .. 3], maker' \in [Makers -> MakerFields],
               noted' \in [Makers -> 0 .. MaxNoted], holding' \in [Makers -> Seq(1 .. MaxNoted)],
               \A c \in Makers : Len(holding'[c]) <= HeldAtMost, spoilt' \in [Makers -> BOOLEAN], today' \in 0 .. MaxDay
        PROVE  RunsTypeOK'
    BY <1>3 DEF RunsTypeOK, RunFields, MakerFields, Dids, Tolds
  <1>4. << >> \in Seq(1 .. MaxNoted) /\ Len(<< >>) <= HeldAtMost
    OBVIOUS
  <1>5. ASSUME NEW c \in Makers, NEW mode \in Modes, BeginRun(c, mode) PROVE RunsTypeOK'
    <2>1. maker' \in [Makers -> MakerFields]
      BY <1>0, <1>5, RunsFields DEF BeginRun, Asleep, MakerFields, Places, Dids, Tolds
    <2> QED
      BY <1>0, <1>3, <1>5, <2>1, RunsFields DEF BeginRun
  <1>6. ASSUME NEW c \in Makers, MakeDirectory(c) PROVE RunsTypeOK'
    <2>1. spoilt' \in [Makers -> BOOLEAN]
      BY <1>0, <1>6, RunsFields DEF MakeDirectory
    <2>2. maker' \in [Makers -> MakerFields]
      BY <1>1, <1>2, <1>6 DEF MakeDirectory, Places
    <2>3. records' \in [Slots -> RunFields]
      <3>1. [NoRun EXCEPT !.status = "no file", !.day = maker[c].since] \in RunFields
        <4>1. maker[c].since \in 0 .. MaxDay
          BY <1>0, RunsFields DEF MakerFields
        <4> QED
          BY <4>1, NoRunTyped DEF RunFields
      <3>2. \A s \in Slots : records[s] \in RunFields
        BY <1>0, RunsFields
      <3> QED
        BY <1>0, <1>6, <3>1, <3>2, RunsFields, NoRunTyped DEF MakeDirectory
    <2>4. runs' \in [Makers -> 0 .. 3]
      <3>1. maker[c].at \in {"opens", "opens failed", "opens last"} /\ OwnRecord(c) /\ runs[c] \in 0 .. 3
            /\ runs \in [Makers -> 0 .. 3]
        BY <1>0, <1>6, RunsFields DEF MakeDirectory, RunsInv
      <3>2. maker[c].at \in {"opens", "opens failed"} => runs[c] = 0
        BY <3>1 DEF OwnRecord, RunsOpened
      <3>3. maker[c].at = "opens last" => runs[c] <= 1
        BY <3>1 DEF OwnRecord, RunsOpened
      <3>4. maker[c].at \in {"opens", "opens failed"} \/ maker[c].at = "opens last"
        BY <3>1
      <3>5. runs[c] \in {0, 1}
        <4>1. maker[c].at \in {"opens", "opens failed"} => runs[c] \in {0, 1}
          BY <3>2
        <4>2. maker[c].at = "opens last" => runs[c] \in {0, 1}
          BY <3>1, <3>3, SmallNumbers, Zenon
        <4> QED
          BY <3>4, <4>1, <4>2, Zenon
      <3>6. runs[c] + 1 \in 0 .. 3
        BY <3>5, SmallNumbers, Zenon
      <3>7. runs' = runs \/ runs' = [runs EXCEPT ![c] = runs[c] + 1]
        BY <1>6 DEF MakeDirectory
      <3> QED
        BY <3>1, <3>6, <3>7
    <2> QED
      BY <1>0, <1>3, <1>6, <2>1, <2>2, <2>3, <2>4, RunsFields DEF MakeDirectory
  <1>7. ASSUME NEW c \in Makers, WriteRunning(c) PROVE RunsTypeOK'
    <2>1. maker' \in [Makers -> MakerFields]
      BY <1>1, <1>2, <1>7 DEF WriteRunning, Places
    <2>2. records' \in [Slots -> RunFields]
      <3> DEFINE new == [status |-> "running", day |-> maker[c].since,
                         noted |-> IF records[CurrentRun(c)] = NoRun THEN << >> ELSE holding[c]]
      <3>1. new \in RunFields
        <4>1. maker[c].since \in 0 .. MaxDay /\ holding[c] \in Seq(1 .. MaxNoted)
          BY <1>0, RunsFields DEF MakerFields
        <4> QED
          BY <1>4, <4>1 DEF RunFields
      <3>2. records' = records \/ records' = [records EXCEPT ![CurrentRun(c)] = new]
        BY <1>7 DEF WriteRunning
      <3> HIDE DEF new
      <3> QED
        BY <1>0, <3>1, <3>2, RunsFields
    <2>3. spoilt' \in [Makers -> BOOLEAN]
      BY <1>0, <1>7, RunsFields DEF WriteRunning
    <2> QED
      BY <1>0, <1>3, <1>7, <2>1, <2>2, <2>3, RunsFields DEF WriteRunning
  <1>8. ASSUME NEW c \in Makers, Note(c) PROVE RunsTypeOK'
    <2>1. noted[c] \in 0 .. MaxNoted /\ noted[c] < MaxNoted /\ noted' = [noted EXCEPT ![c] = @ + 1]
      BY <1>0, <1>8, RunsFields DEF Note
    <2>2. noted' \in [Makers -> 0 .. MaxNoted] /\ noted'[c] \in 1 .. MaxNoted
      BY <1>0, <2>1, RunsFields
    <2>3. records' \in [Slots -> RunFields]
      <3> DEFINE log == Append(records[CurrentRun(c)].noted, noted'[c])
      <3>1. records' = records \/ records' = Logged(c, log)
        BY <1>8 DEF Note
      <3>2. CASE records' = records \/ CurrentRun(c) \notin Slots
        <4>1. CurrentRun(c) \notin Slots => [records EXCEPT ![CurrentRun(c)].noted = log] = records
          BY <1>0, RunsFields
        <4> QED
          BY <1>0, <3>1, <3>2, <4>1, RunsFields DEF Logged
      <3>3. CASE CurrentRun(c) \in Slots
        <4>1. records[CurrentRun(c)] \in RunFields
          BY <1>0, <3>3, RunsFields
        <4>2. log \in Seq(1 .. MaxNoted)
          <5>1. records[CurrentRun(c)].noted \in Seq(1 .. MaxNoted)
            BY <4>1 DEF RunFields
          <5> QED
            BY <2>2, <5>1, AppendProperties
        <4> HIDE DEF log
        <4>3. [records[CurrentRun(c)] EXCEPT !.noted = log] \in RunFields
          BY <4>1, <4>2 DEF RunFields
        <4> QED
          BY <1>0, <3>1, <3>3, <4>3, RunsFields DEF Logged
      <3> QED
        BY <3>2, <3>3
    <2>4. holding' \in [Makers -> Seq(1 .. MaxNoted)] /\ \A k \in Makers : Len(holding'[k]) <= HeldAtMost
      <3> DEFINE longer == Append(holding[c], noted'[c])
      <3>1. longer \in Seq(1 .. MaxNoted) /\ Len(longer) <= HeldAtMost + 1 /\ longer # << >>
        <4>1. holding[c] \in Seq(1 .. MaxNoted) /\ Len(holding[c]) <= HeldAtMost
          BY <1>0, RunsFields
        <4>4. \A seq \in Seq(1 .. MaxNoted), e \in 1 .. MaxNoted :
                Append(seq, e) \in Seq(1 .. MaxNoted) /\ Len(Append(seq, e)) = Len(seq) + 1 /\ Append(seq, e) # << >>
          BY AppendProperties
        <4>2. longer \in Seq(1 .. MaxNoted) /\ Len(longer) = Len(holding[c]) + 1 /\ longer # << >>
          BY <2>2, <4>1, <4>4, Zenon
        <4>3. Len(holding[c]) \in Nat
          BY <4>1
        <4> HIDE DEF longer
        <4> QED
          BY <4>1, <4>2, <4>3
      <3>2. holding' = holding \/ holding' = [holding EXCEPT ![c] = Holds(longer)]
        BY <1>8 DEF Note
      <3> HIDE DEF longer
      <3>3. Holds(longer) \in Seq(1 .. MaxNoted) /\ Len(Holds(longer)) <= HeldAtMost
        <4>1. Len(longer) \in Nat /\ Tail(longer) \in Seq(1 .. MaxNoted) /\ Len(Tail(longer)) = Len(longer) - 1
          BY <3>1
        <4>2. Holds(longer) = IF Len(longer) > HeldAtMost THEN Tail(longer) ELSE longer
          BY DEF Holds
        <4>3. CASE Len(longer) > HeldAtMost
          BY <3>1, <4>1, <4>2, <4>3
        <4>4. CASE ~(Len(longer) > HeldAtMost)
          BY <3>1, <4>1, <4>2, <4>4
        <4> QED
          BY <4>3, <4>4
      <3> QED
        BY <1>0, <3>2, <3>3, RunsFields
    <2>5. spoilt' \in [Makers -> BOOLEAN]
      BY <1>0, <1>8, RunsFields DEF Note
    <2> QED
      BY <1>0, <1>3, <1>8, <2>2, <2>3, <2>4, <2>5, RunsFields DEF Note
  <1>9. ASSUME NEW c \in Makers, Succeeds(c) PROVE RunsTypeOK'
    <2>1. maker' \in [Makers -> MakerFields]
      <3>1. PICK place \in Places : maker' = [maker EXCEPT ![c].did = "its work", ![c].tells = "an answer", ![c].at = place]
        BY <1>9 DEF Succeeds, Places
      <3>2. "an answer" \in Tolds /\ "its work" \in Dids /\ maker \in [Makers -> MakerFields]
        BY <1>0, RunsFields DEF Dids, Tolds
      <3> QED
        BY <3>1, <3>2 DEF MakerFields
    <2> QED
      BY <1>0, <1>3, <1>9, <2>1, RunsFields DEF Succeeds
  <1>10. ASSUME NEW c \in Makers, BodyFails(c) PROVE RunsTypeOK'
    <2>1. PICK place \in Places, settled \in BOOLEAN :
            maker' = [maker EXCEPT ![c].did = "nothing", ![c].tells = "a failure", ![c].settled = settled, ![c].at = place]
      <3>1. Settle(c) \in BOOLEAN
        BY DEF Settle
      <3> QED
        BY <1>10, <3>1 DEF BodyFails, Places
    <2>2. maker' \in [Makers -> MakerFields]
      <3>1. "nothing" \in Dids /\ "a failure" \in Tolds /\ maker \in [Makers -> MakerFields]
        BY <1>0, RunsFields DEF Dids, Tolds
      <3> QED
        BY <2>1, <3>1, FailsTyped, Zenon
    <2> QED
      BY <1>0, <1>3, <1>10, <2>2, RunsFields DEF BodyFails
  <1>11. ASSUME NEW c \in Makers, FinishRun(c) PROVE RunsTypeOK'
    <2>1. maker' \in [Makers -> MakerFields]
      BY <1>1, <1>2, <1>11 DEF FinishRun, Places
    <2>2. records' \in [Slots -> RunFields]
      <3>1. PICK status \in {"success", "failed"} :
              records' = records \/ records' = [records EXCEPT ![CurrentRun(c)] = [@ EXCEPT !.status = status, !.day = maker[c].since]]
        BY <1>11 DEF FinishRun
      <3>2. maker[c].since \in 0 .. MaxDay
        BY <1>0, RunsFields DEF MakerFields
      <3>3. \A s \in Slots : [records[s] EXCEPT !.status = status, !.day = maker[c].since] \in RunFields
        BY <1>0, <3>2, RunsFields DEF RunFields
      <3> QED
        <4>1. CASE records' = records \/ CurrentRun(c) \notin Slots
          BY <1>0, <3>1, <4>1, RunsFields
        <4>2. ASSUME CurrentRun(c) \in Slots,
                     records' = [records EXCEPT ![CurrentRun(c)] = [@ EXCEPT !.status = status, !.day = maker[c].since]]
              PROVE  records' \in [Slots -> RunFields]
          <5> DEFINE new == [records[CurrentRun(c)] EXCEPT !.status = status, !.day = maker[c].since]
          <5>1. new \in RunFields /\ records' = [records EXCEPT ![CurrentRun(c)] = new]
            BY <3>3, <4>2
          <5> HIDE DEF new
          <5> QED
            BY <1>0, <5>1, RunsFields
        <4> QED
          BY <3>1, <4>1, <4>2
    <2>3. spoilt' \in [Makers -> BOOLEAN]
      BY <1>0, <1>11, RunsFields DEF FinishRun
    <2> QED
      BY <1>0, <1>3, <1>11, <2>1, <2>2, <2>3, RunsFields DEF FinishRun
  <1>12. ASSUME NEW c \in Makers, KeepFailure(c) PROVE RunsTypeOK'
    <2>1. GoesOn(c, "ended") \/ maker' = [maker EXCEPT ![c].at = "opens last", ![c].settled = TRUE, ![c].since = today]
      BY <1>12 DEF KeepFailure
    <2>2. maker' \in [Makers -> MakerFields]
      <3>1. "opens last" \in Places /\ "ended" \in Places /\ maker \in [Makers -> MakerFields] /\ today \in 0 .. MaxDay
        BY <1>0, RunsFields DEF Places
      <3>2. CASE GoesOn(c, "ended")
        BY <1>2, <3>1, <3>2
      <3>3. CASE maker' = [maker EXCEPT ![c].at = "opens last", ![c].settled = TRUE, ![c].since = today]
        BY <3>1, <3>3 DEF MakerFields
      <3> QED
        BY <2>1, <3>2, <3>3
    <2>3. holding' = holding \/ holding' = [holding EXCEPT ![c] = << >>]
      BY <1>12 DEF KeepFailure
    <2>4. holding' \in [Makers -> Seq(1 .. MaxNoted)] /\ \A k \in Makers : Len(holding'[k]) <= HeldAtMost
      BY <1>0, <1>4, <2>3, RunsFields
    <2> QED
      BY <1>0, <1>3, <1>12, <2>2, <2>4, RunsFields DEF KeepFailure
  <1>13. ASSUME NEW c \in Makers, Killed(c) PROVE RunsTypeOK'
    <2>1. maker' \in [Makers -> MakerFields]
      <3>1. [Asleep EXCEPT !.at = "killed"] \in MakerFields
        BY NoRunTyped DEF MakerFields, Places
      <3> QED
        BY <1>0, <1>13, <3>1, RunsFields DEF Killed
    <2>2. holding' \in [Makers -> Seq(1 .. MaxNoted)] /\ \A k \in Makers : Len(holding'[k]) <= HeldAtMost
      BY <1>0, <1>4, <1>13, RunsFields DEF Killed
    <2>3. noted' \in [Makers -> 0 .. MaxNoted]
      BY <1>0, <1>13, RunsFields DEF Killed
    <2> QED
      BY <1>0, <1>3, <1>13, <2>1, <2>2, <2>3, RunsFields DEF Killed
  <1>14. ASSUME DayPasses PROVE RunsTypeOK'
    <2>1. today' \in 0 .. MaxDay
      BY <1>0, <1>14, RunsFields DEF DayPasses
    <2> QED
      BY <1>0, <1>3, <1>14, <2>1, RunsFields DEF DayPasses
  <1> QED
    BY <1>5, <1>6, <1>7, <1>8, <1>9, <1>10, <1>11, <1>12, <1>13, <1>14 DEF RunsNext

\* Which commands a step is about; the others' records stay, or are removed.
LEMMA OneCommandSteps ==
  ASSUME RunsInv, RunsNext, NEW k \in Makers
  PROVE  OwnRecord(k)'
  <1>0. RunsTypeOK /\ RunsTypeOK' /\ OwnRecord(k)
    BY RunsTyped DEF RunsInv
  <1>1. ASSUME DayPasses PROVE OwnRecord(k)'
    BY <1>0, <1>1, OthersRecord DEF DayPasses
  <1>2. ASSUME NEW c \in Makers, c # k, \/ \E mode \in Modes : BeginRun(c, mode)
                                       \/ Succeeds(c) \/ BodyFails(c) \/ KeepFailure(c) \/ Killed(c)
        PROVE  OwnRecord(k)'
    <2>1. records' = records /\ runs' = runs /\ spoilt' = spoilt
      BY <1>2 DEF BeginRun, Succeeds, BodyFails, KeepFailure, Killed
    <2>2. maker'[k] = maker[k]
      BY <1>0, <1>2, RunsFields DEF BeginRun, Succeeds, BodyFails, KeepFailure, Killed, GoesOn
    <2>3. noted'[k] = noted[k] /\ holding'[k] = holding[k]
      BY <1>0, <1>2, RunsFields DEF BeginRun, Succeeds, BodyFails, KeepFailure, Killed
    <2> QED
      BY <1>0, <2>1, <2>2, <2>3, OthersRecord
  <1>3. ASSUME NEW c \in Makers, c # k, GoesOn(c, "ended") \/ Thrown(c) \/ (\E place : GoesOn(c, place))
        PROVE  maker'[k] = maker[k]
    BY <1>0, <1>3, RunsFields DEF GoesOn, Thrown
  <1>4. ASSUME NEW c \in Makers, c # k, WriteRunning(c) \/ FinishRun(c) \/ Note(c) PROVE OwnRecord(k)'
    <2>1. maker'[k] = maker[k] /\ runs' = runs
      BY <1>3, <1>4 DEF WriteRunning, FinishRun, Note
    <2>2. noted'[k] = noted[k] /\ holding'[k] = holding[k]
      BY <1>0, <1>4, RunsFields DEF WriteRunning, FinishRun, Note
    <2>3. spoilt'[k] = spoilt[k]
      BY <1>0, <1>4, RunsFields DEF WriteRunning, FinishRun, Note
    <2>4. CurrentRun(c)[1] = c
      BY DEF CurrentRun
    <2>5. \A s \in Slots : s[1] = k => s # CurrentRun(c)
      BY <1>4, <2>4
    <2>6. \A s \in Slots : s[1] = k => records'[s] = records[s]
      <3>1. \A new : \A s \in Slots : s # CurrentRun(c) => [records EXCEPT ![CurrentRun(c)] = new][s] = records[s]
        BY <1>0, RunsFields
      <3>2. \A new : \A s \in Slots : s # CurrentRun(c) => [records EXCEPT ![CurrentRun(c)].noted = new][s] = records[s]
        BY <1>0, RunsFields
      <3>3. \/ records' = records
            \/ \E new : records' = [records EXCEPT ![CurrentRun(c)] = new]
            \/ \E new : records' = [records EXCEPT ![CurrentRun(c)].noted = new]
        BY <1>4 DEF WriteRunning, FinishRun, Note, Logged
      <3> QED
        BY <2>5, <3>1, <3>2, <3>3
    <2> QED
      BY <1>0, <2>1, <2>2, <2>3, <2>6, OthersRecord
  <1>5. ASSUME NEW c \in Makers, c # k, MakeDirectory(c) PROVE OwnRecord(k)'
    <2>1. maker'[k] = maker[k] /\ noted' = noted /\ holding' = holding
      BY <1>3, <1>5 DEF MakeDirectory
    <2>2. CASE Thrown(c) /\ spoilt' = [spoilt EXCEPT ![c] = TRUE] /\ UNCHANGED << records, runs >>
      <3>1. spoilt'[k] = spoilt[k]
        BY <1>0, <1>5, <2>2, RunsFields
      <3> QED
        BY <1>0, <2>1, <2>2, <3>1, OthersRecord
    <2>3. CASE /\ runs' = [runs EXCEPT ![c] = @ + 1]
               /\ records' = [s \in Slots |->
                    IF s = << c, runs[c] + 1 >> THEN [NoRun EXCEPT !.status = "no file", !.day = maker[c].since]
                    ELSE IF s \in Pruned(c) THEN NoRun ELSE records[s]]
               /\ spoilt' = [j \in Makers |-> spoilt[j] \/ \E s \in Pruned(c) : s[1] = j]
      <3> DEFINE new == << c, runs[c] + 1 >>
                 empty == [NoRun EXCEPT !.status = "no file", !.day = maker[c].since]
      <3>1. runs'[k] = runs[k] /\ (spoilt[k] => spoilt'[k])
        BY <1>0, <1>5, <2>3, RunsFields
      <3>2. \A s \in Slots : s[1] = k => s # new
        BY <1>5
      <3>3. \A s \in Slots : s # new => records'[s] = IF s \in Pruned(c) THEN NoRun ELSE records[s]
        <4> HIDE DEF new, empty
        <4> QED
          BY <2>3 DEF new
      <3>4. \A s \in Pruned(c) : s[1] = k => spoilt'[k]
        BY <1>0, <2>3, RunsFields
      <3> HIDE DEF new
      <3>5. \A s \in Slots : s[1] = k => records'[s] = records[s] \/ (records'[s] = NoRun /\ spoilt'[k])
        BY <3>2, <3>3, <3>4
      <3> QED
        BY <1>0, <2>1, <3>1, <3>5, OthersRecord
    <2> QED
      BY <1>5, <2>2, <2>3 DEF MakeDirectory
  <1> QED
    BY <1>0, <1>1, <1>2, <1>4, <1>5, BeginsWell, OpensWell, RunsWell, NotesWell, AnswersWell, FailsWell, FinishesWell,
       KeepsWell, DiesWell DEF RunsNext

LEMMA RunsInvHolds == RunsSpec => []RunsInv
  <1>1. RunsInit => RunsInv
    <2> SUFFICES ASSUME RunsInit PROVE RunsInv
      OBVIOUS
    <2>1. \A c \in Makers : /\ maker[c] = Asleep /\ runs[c] = 0 /\ noted[c] = 0 /\ holding[c] = << >> /\ ~spoilt[c]
      BY DEF RunsInit
    <2>2. Asleep.mode = "off" /\ Asleep.at = "asleep"
      BY DEF Asleep
    <2>3. \A s \in Slots : records[s] = NoRun
      BY DEF RunsInit
    <2>4. RunsTypeOK
      <3>1. << >> \in Seq(1 .. MaxNoted) /\ Len(<< >>) = 0
        OBVIOUS
      <3>2. records \in [Slots -> RunFields] /\ maker \in [Makers -> MakerFields]
        BY NoRunTyped DEF RunsInit
      <3>3. 0 \in 0 .. MaxDay /\ 0 \in 0 .. MaxNoted /\ 0 \in 0 .. 3 /\ 0 <= HeldAtMost
        BY RunsAssumption
      <3>4. /\ today \in 0 .. MaxDay /\ runs \in [Makers -> 0 .. 3] /\ noted \in [Makers -> 0 .. MaxNoted]
            /\ holding \in [Makers -> Seq(1 .. MaxNoted)] /\ spoilt \in [Makers -> BOOLEAN]
        BY <3>1, <3>3 DEF RunsInit
      <3>5. \A c \in Makers : Len(holding[c]) <= HeldAtMost
        BY <2>1, <3>1, <3>3
      <3> QED
        BY <3>2, <3>4, <3>5 DEF RunsTypeOK, RunFields, MakerFields, Dids, Tolds
    <2>5. ASSUME NEW c \in Makers PROVE OwnRecord(c)
      BY <2>1, <2>2, <2>3, NoRunTyped
         DEF OwnRecord, WayOf, RunsOpened, KeptOf, RecordAt, ToldOf, EventsOf, NoRunOf, Waits, Opens, Writing
    <2> QED
      BY <2>4, <2>5 DEF RunsInv
  <1>2. RunsInv /\ [RunsNext]_runVars => RunsInv'
    <2> SUFFICES ASSUME RunsInv, [RunsNext]_runVars PROVE RunsInv'
      OBVIOUS
    <2>1. CASE RunsNext
      BY <2>1, RunsTyped, OneCommandSteps DEF RunsInv
    <2>2. CASE UNCHANGED runVars
      <3>1. RunsTypeOK' /\ RunsTypeOK
        BY <2>2 DEF RunsInv, RunsTypeOK, runVars
      <3>2. ASSUME NEW c \in Makers PROVE OwnRecord(c)'
        <4>1. OwnRecord(c)
          BY DEF RunsInv
        <4> QED
          BY <2>2, <3>1, <4>1, OthersRecord DEF runVars
      <3> QED
        BY <3>1, <3>2 DEF RunsInv
    <2> QED
      BY <2>1, <2>2
  <1> QED
    BY <1>1, <1>2, PTL DEF RunsSpec

\* Every record, event list and command keeps its type; what a command holds in case it fails stays
\* within HeldAtMost (src/src/runs/recording.ts), and it opens at most two runs.
THEOREM RunsTypeCorrect == RunsSpec => []RunsTypeOK
  <1>1. RunsInv => RunsTypeOK
    BY DEF RunsInv
  <1> QED
    BY <1>1, RunsInvHolds, PTL

\* A command that has told how it ended left the one record it should have, or none, and that record
\* says what the command told and has its newest events (src/src/runs/recording.ts, src/src/program.ts):
\* for any number of commands, days and events.
THEOREM RecordsTellTruth == RunsSpec => []RunsTellTruth
  <1>1. RunsInv => RunsTellTruth
    <2> SUFFICES ASSUME RunsInv, NEW c \in Makers, maker[c].at = "ended"
                 PROVE  /\ \A s \in RunsOf(c) : records[s].status = "success" => maker[c].tells = "an answer"
                        /\ maker[c].mode = "off" => RunsOf(c) = {}
                        /\ ~spoilt[c] =>
                             /\ maker[c].tells = "an answer" <=> maker[c].did = "its work"
                             /\ \A s \in RunsOf(c) :
                                  /\ records[s].status = (IF maker[c].tells = "an answer" THEN "success" ELSE "failed")
                                  /\ maker[c].mode \in {"record", "keep"} =>
                                       records[s].noted = Latest(c, IF maker[c].mode = "record" THEN MaxNoted ELSE HeldAtMost)
                             /\ Cardinality(RunsOf(c)) =
                                  (IF maker[c].mode = "record"
                                      \/ (maker[c].mode \in {"keep", "outside"} /\ maker[c].tells = "a failure")
                                   THEN 1 ELSE 0)
      BY Zenon DEF RunsTellTruth, At
    <2>0. OwnRecord(c) /\ maker[c].mode \in Modes
      BY RunsFields DEF RunsInv, MakerFields
    <2>1. \A s : s \in RunsOf(c) <=> s \in Slots /\ s[1] = c /\ records[s] # NoRun
      BY DEF RunsOf
    <2>2. \A s \in RunsOf(c) : records[s].status = "success" => maker[c].tells = "an answer"
      BY <2>0, <2>1 DEF OwnRecord, KeptOf
    <2>3. NoRunOf(c) => RunsOf(c) = {}
      BY <2>1 DEF NoRunOf
    <2>4. maker[c].mode = "off" => RunsOf(c) = {}
      BY <2>0, <2>3 DEF OwnRecord, KeptOf
    <2>5. ASSUME NEW status, OneRunOf(c, status)
          PROVE  Cardinality(RunsOf(c)) = 1 /\ \A s \in RunsOf(c) : records[s].status = status
      <3>1. CurrentRun(c) \in Slots /\ CurrentRun(c)[1] = c /\ records[CurrentRun(c)].status = status
        BY <2>5 DEF OneRunOf, CurrentRun
      <3>2. RunsOf(c) = {CurrentRun(c)}
        <4>1. \A s : s \in RunsOf(c) <=> s = CurrentRun(c)
          BY <2>1, <2>5, <3>1 DEF OneRunOf
        <4> QED
          BY <4>1
      <3> QED
        BY <3>1, <3>2, FS_Singleton
    <2>6. Cardinality({}) = 0
      BY FS_EmptySet
    <2>7. ASSUME ~spoilt[c]
          PROVE  /\ maker[c].tells = "an answer" <=> maker[c].did = "its work"
                 /\ \A s \in RunsOf(c) :
                      /\ records[s].status = (IF maker[c].tells = "an answer" THEN "success" ELSE "failed")
                      /\ maker[c].mode \in {"record", "keep"} =>
                           records[s].noted = Latest(c, IF maker[c].mode = "record" THEN MaxNoted ELSE HeldAtMost)
                 /\ Cardinality(RunsOf(c)) =
                      (IF maker[c].mode = "record" \/ (maker[c].mode \in {"keep", "outside"} /\ maker[c].tells = "a failure")
                       THEN 1 ELSE 0)
      <3>0. RecordAt(c) /\ ToldOf(c) /\ EventsOf(c)
        BY <2>0, <2>7 DEF OwnRecord
      <3>1. (maker[c].tells = "an answer" <=> maker[c].did = "its work") /\ maker[c].tells \in {"an answer", "a failure"}
        BY <3>0 DEF ToldOf
      <3>2. /\ maker[c].mode = "record" /\ maker[c].tells = "an answer" => OneRunOf(c, "success")
            /\ maker[c].mode # "record" /\ maker[c].tells = "an answer" => NoRunOf(c)
            /\ maker[c].mode = "off" => NoRunOf(c)
            /\ maker[c].mode # "off" /\ maker[c].tells = "a failure" => OneRunOf(c, "failed")
        BY <3>0 DEF RecordAt
      <3>3. ASSUME NEW s \in RunsOf(c) PROVE records[s].status = (IF maker[c].tells = "an answer" THEN "success" ELSE "failed")
        <4>1. ~NoRunOf(c)
          BY <2>3
        <4> QED
          BY <2>5, <3>1, <3>2, <4>1
      <3>4. ASSUME NEW s \in RunsOf(c), maker[c].mode \in {"record", "keep"}
            PROVE  records[s].noted = Latest(c, IF maker[c].mode = "record" THEN MaxNoted ELSE HeldAtMost)
        <4>1. maker[c].mode = "record" => EventsAre(c, Latest(c, MaxNoted))
          BY <3>0 DEF EventsOf
        <4>2. maker[c].mode = "keep" => EventsAre(c, Latest(c, HeldAtMost))
          BY <3>0 DEF EventsOf
        <4>3. s \in Slots /\ s[1] = c /\ records[s] # NoRun
          BY <2>1
        <4>4. CASE maker[c].mode = "record"
          BY <4>1, <4>3, <4>4 DEF EventsAre
        <4>5. CASE maker[c].mode = "keep"
          BY <4>2, <4>3, <4>5 DEF EventsAre
        <4> QED
          BY <3>4, <4>4, <4>5
      <3>5. Cardinality(RunsOf(c)) =
              (IF maker[c].mode = "record" \/ (maker[c].mode \in {"keep", "outside"} /\ maker[c].tells = "a failure")
               THEN 1 ELSE 0)
        BY <2>0, <2>3, <2>5, <2>6, <3>1, <3>2 DEF Modes
      <3> QED
        BY <3>1, <3>3, <3>4, <3>5
    <2> QED
      BY <2>2, <2>4, <2>7
  <1> QED
    BY <1>1, RunsInvHolds, PTL

----------------------------------------------------------------------------
\* PushRelay: within a sequence, and from one to the next, nothing of a message follows its deletion.
DeletionsLast(seq) == \A i, j \in DOMAIN seq : i < j /\ seq[i].id = seq[j].id => seq[i].kind # "delete"
Precedes(s, t) == \A i \in DOMAIN s, j \in DOMAIN t : s[i].id = t[j].id => s[i].kind # "delete"
TrulyDeleted(seq, lives) == \A i \in DOMAIN seq : seq[i].kind = "delete" => lives[seq[i].id] = "deleted"

RelayTyped ==
  /\ life \in [Ids -> {"none", "sent", "deleted"}]
  /\ wire \in [Conns -> Seq(Events)]
  /\ made \in 0 .. MaxConns /\ taken \subseteq 1 .. made
  /\ current \in 0 .. made /\ joining \in 0 .. made
  /\ early \in Seq(Events) /\ handing \in Seq(Events) /\ heard \in Seq(Events)
  /\ seen \in Seq(Ids) /\ Len(seen) <= SeenMax
  /\ replacing \in BOOLEAN /\ stale \in BOOLEAN /\ overlapped \in BOOLEAN
  /\ happened \in 0 .. MaxEvents

\* What MAX pushes is on the way over a connection it pushes to, or held for the login under way; until
\* two connections have been pushed to at once, there is one such way.
OneWay ==
  /\ \A k \in Conns : wire[k] # << >> => k \in taken
  /\ ~overlapped =>
       /\ ~replacing /\ taken \subseteq {current, joining} /\ (joining \in taken => current = 0)
       /\ early # << >> => joining \in taken

Pipeline ==
  /\ DeletionsLast(heard) /\ DeletionsLast(handing) /\ DeletionsLast(early)
  /\ TrulyDeleted(heard, life) /\ TrulyDeleted(handing, life) /\ TrulyDeleted(early, life)
  /\ Precedes(heard, handing) /\ Precedes(heard, early) /\ Precedes(handing, early)
  /\ \A k \in Conns : /\ DeletionsLast(wire[k]) /\ TrulyDeleted(wire[k], life)
                      /\ Precedes(heard, wire[k]) /\ Precedes(handing, wire[k]) /\ Precedes(early, wire[k])

\* The messages a watcher was sent after one; #seen has the last of them, in their order.
After(i) == { k \in DOMAIN heard : k > i /\ heard[k].kind = "message" }
SeenIsLast ==
  \A i \in DOMAIN heard : heard[i].kind = "message" /\ Cardinality(After(i)) < SeenMax =>
    /\ Len(seen) - Cardinality(After(i)) \in DOMAIN seen
    /\ seen[Len(seen) - Cardinality(After(i))] = heard[i].id
RarelyTwice ==
  \A i, j \in DOMAIN heard :
    i < j /\ heard[i].id = heard[j].id /\ heard[i].kind = "message" /\ heard[j].kind = "message" =>
      Cardinality(Messages(i, j)) >= SeenMax

RelayInv == RelayTyped /\ OneWay /\ (~overlapped => Pipeline) /\ SeenIsLast /\ RarelyTwice

LEMMA EmptyPipe ==
  ASSUME NEW lives
  PROVE  /\ DeletionsLast(<< >>) /\ TrulyDeleted(<< >>, lives)
         /\ \A t : Precedes(<< >>, t) /\ Precedes(t, << >>)
  BY DEF DeletionsLast, TrulyDeleted, Precedes

\* A push at the end of a sequence.
LEMMA PipeAppend ==
  ASSUME NEW s \in Seq(Events), NEW e \in Events, NEW t, NEW lives
  PROVE  /\ Append(s, e) \in Seq(Events)
         /\ DeletionsLast(s) /\ (\A i \in DOMAIN s : s[i].id = e.id => s[i].kind # "delete") => DeletionsLast(Append(s, e))
         /\ TrulyDeleted(s, lives) /\ (e.kind = "delete" => lives[e.id] = "deleted") => TrulyDeleted(Append(s, e), lives)
         /\ Precedes(s, t) /\ (\A j \in DOMAIN t : t[j].id = e.id => e.kind # "delete") => Precedes(Append(s, e), t)
         /\ Precedes(t, s) /\ (\A i \in DOMAIN t : t[i].id = e.id => t[i].kind # "delete") => Precedes(t, Append(s, e))
  <1> DEFINE all == Append(s, e)
  <1>1. /\ all \in Seq(Events) /\ Len(all) = Len(s) + 1 /\ all[Len(s) + 1] = e
        /\ \A i \in 1 .. Len(s) : all[i] = s[i]
    BY AppendProperties
  <1> DEFINE n == Len(s)
  <1>2. n \in Nat /\ DOMAIN s = 1 .. n /\ Len(all) = n + 1
    BY <1>1
  <1>3. DOMAIN all = 1 .. (n + 1)
    BY <1>1, <1>2
  <1>4. /\ all[n + 1] = e /\ \A i \in 1 .. n : all[i] = s[i]
    BY <1>1
  <1> HIDE DEF n, all
  <1>5. \A i \in DOMAIN all : i = n + 1 \/ i \in DOMAIN s
    BY <1>2, <1>3
  <1>6. \A i \in DOMAIN s : all[i] = s[i] /\ i # n + 1 /\ ~(n + 1 < i)
    BY <1>2, <1>4
  <1>10. ~(n + 1 < n + 1)
    BY <1>2
  <1>7. DeletionsLast(s) /\ (\A i \in DOMAIN s : s[i].id = e.id => s[i].kind # "delete") => DeletionsLast(all)
    BY <1>4, <1>5, <1>6, <1>10 DEF DeletionsLast
  <1>8. TrulyDeleted(s, lives) /\ (e.kind = "delete" => lives[e.id] = "deleted") => TrulyDeleted(all, lives)
    BY <1>4, <1>5, <1>6 DEF TrulyDeleted
  <1>9. /\ Precedes(s, t) /\ (\A j \in DOMAIN t : t[j].id = e.id => e.kind # "delete") => Precedes(all, t)
        /\ Precedes(t, s) /\ (\A i \in DOMAIN t : t[i].id = e.id => t[i].kind # "delete") => Precedes(t, all)
    BY <1>4, <1>5, <1>6 DEF Precedes
  <1> QED
    BY <1>1, <1>7, <1>8, <1>9 DEF all

\* The first of a sequence, and the rest of it.
LEMMA PipeTail ==
  ASSUME NEW s \in Seq(Events), s # << >>, NEW t, NEW lives
  PROVE  /\ Head(s) \in Events /\ Tail(s) \in Seq(Events)
         /\ DeletionsLast(s) => DeletionsLast(Tail(s))
         /\ DeletionsLast(s) => \A j \in DOMAIN Tail(s) : Tail(s)[j].id = Head(s).id => Head(s).kind # "delete"
         /\ TrulyDeleted(s, lives) => TrulyDeleted(Tail(s), lives) /\ (Head(s).kind = "delete" => lives[Head(s).id] = "deleted")
         /\ Precedes(s, t) => /\ Precedes(Tail(s), t)
                              /\ \A j \in DOMAIN t : t[j].id = Head(s).id => Head(s).kind # "delete"
         /\ Precedes(t, s) => /\ Precedes(t, Tail(s))
                              /\ \A i \in DOMAIN t : t[i].id = Head(s).id => t[i].kind # "delete"
  <1> DEFINE rest == Tail(s)
             first == Head(s)
  <1>1. /\ first \in Events /\ rest \in Seq(Events) /\ first = s[1] /\ Len(s) \in Nat \ {0} /\ Len(rest) = Len(s) - 1
        /\ DOMAIN s = 1 .. Len(s) /\ DOMAIN rest = 1 .. Len(rest)
        /\ \A i \in 1 .. Len(rest) : rest[i] = s[i + 1]
    OBVIOUS
  <1> DEFINE n == Len(s)
  <1>2. n \in Nat \ {0} /\ DOMAIN s = 1 .. n /\ DOMAIN rest = 1 .. (n - 1) /\ \A i \in 1 .. (n - 1) : rest[i] = s[i + 1]
    BY <1>1
  <1> HIDE DEF n, rest, first
  <1>3. 1 \in DOMAIN s /\ \A i \in DOMAIN rest : i + 1 \in DOMAIN s /\ 1 < i + 1 /\ rest[i] = s[i + 1]
    BY <1>2
  <1>4. \A i, j \in DOMAIN rest : i < j => i + 1 < j + 1
    BY <1>2
  <1>5. DeletionsLast(s) => DeletionsLast(rest)
    BY <1>3, <1>4 DEF DeletionsLast
  <1>6. DeletionsLast(s) => \A j \in DOMAIN rest : rest[j].id = first.id => first.kind # "delete"
    BY <1>1, <1>3 DEF DeletionsLast
  <1>7. TrulyDeleted(s, lives) => TrulyDeleted(rest, lives) /\ (first.kind = "delete" => lives[first.id] = "deleted")
    BY <1>1, <1>3 DEF TrulyDeleted
  <1>8. Precedes(s, t) => Precedes(rest, t) /\ \A j \in DOMAIN t : t[j].id = first.id => first.kind # "delete"
    BY <1>1, <1>3 DEF Precedes
  <1>9. Precedes(t, s) => Precedes(t, rest) /\ \A i \in DOMAIN t : t[i].id = first.id => t[i].kind # "delete"
    BY <1>1, <1>3 DEF Precedes
  <1> QED
    BY <1>1, <1>5, <1>6, <1>7, <1>8, <1>9 DEF first, rest

\* One sequence behind another.
LEMMA PipeConcat ==
  ASSUME NEW s \in Seq(Events), NEW u \in Seq(Events), NEW t, NEW lives
  PROVE  /\ s \o u \in Seq(Events)
         /\ DeletionsLast(s) /\ DeletionsLast(u) /\ Precedes(s, u) => DeletionsLast(s \o u)
         /\ TrulyDeleted(s, lives) /\ TrulyDeleted(u, lives) => TrulyDeleted(s \o u, lives)
         /\ Precedes(s, t) /\ Precedes(u, t) => Precedes(s \o u, t)
         /\ Precedes(t, s) /\ Precedes(t, u) => Precedes(t, s \o u)
  <1> DEFINE all == s \o u
             m == Len(s)
             n == Len(u)
  <1>1. /\ all \in Seq(Events) /\ Len(all) = m + n /\ m \in Nat /\ n \in Nat /\ DOMAIN s = 1 .. m /\ DOMAIN u = 1 .. n
        /\ \A i \in 1 .. (m + n) : all[i] = IF i <= m THEN s[i] ELSE u[i - m]
    OBVIOUS
  <1>2. DOMAIN all = 1 .. (m + n)
    BY <1>1
  <1> HIDE DEF all, m, n
  <1>3. \A i \in DOMAIN all : /\ i <= m => i \in DOMAIN s /\ all[i] = s[i]
                              /\ ~(i <= m) => i - m \in DOMAIN u /\ all[i] = u[i - m]
    BY <1>1, <1>2
  <1>4. \A i, j \in DOMAIN all : i < j => /\ j <= m => i <= m
                                          /\ ~(i <= m) => i - m < j - m
    BY <1>1, <1>2
  <1>5. DeletionsLast(s) /\ DeletionsLast(u) /\ Precedes(s, u) => DeletionsLast(all)
    <2> SUFFICES ASSUME DeletionsLast(s), DeletionsLast(u), Precedes(s, u), NEW i \in DOMAIN all, NEW j \in DOMAIN all,
                        i < j, all[i].id = all[j].id
                 PROVE  all[i].kind # "delete"
      BY DEF DeletionsLast
    <2>1. CASE j <= m
      BY <1>3, <1>4, <2>1 DEF DeletionsLast
    <2>2. CASE i <= m /\ ~(j <= m)
      BY <1>3, <2>2 DEF Precedes
    <2>3. CASE ~(i <= m) /\ ~(j <= m)
      BY <1>3, <1>4, <2>3 DEF DeletionsLast
    <2> QED
      BY <1>4, <2>1, <2>2, <2>3
  <1>6. TrulyDeleted(s, lives) /\ TrulyDeleted(u, lives) => TrulyDeleted(all, lives)
    BY <1>3 DEF TrulyDeleted
  <1>7. /\ Precedes(s, t) /\ Precedes(u, t) => Precedes(all, t)
        /\ Precedes(t, s) /\ Precedes(t, u) => Precedes(t, all)
    BY <1>3 DEF Precedes
  <1> QED
    BY <1>1, <1>5, <1>6, <1>7 DEF all

\* What is handed on is the first of what is being handed on.
LEMMA FirstRemoved ==
  ASSUME NEW s \in Seq(Events), s # << >>
  PROVE  RemoveAt(s, 1) = Tail(s)
  <1>1. SubSeq(s, 1, 1 - 1) = << >>
    BY SubSeqEmpty
  <1>2. SubSeq(s, 1 + 1, Len(s)) = Tail(s)
    BY TailIsSubSeq
  <1>3. << >> \o Tail(s) = Tail(s)
    OBVIOUS
  <1> QED
    BY <1>1, <1>2, <1>3, Zenon DEF RemoveAt

LEMMA PushedEvents ==
  ASSUME NEW events \in Seq(Events), handing \in Seq(Events), stale \in BOOLEAN, Pushed(events)
  PROVE  handing' = handing \o events /\ handing' \in Seq(Events) /\ stale' \in BOOLEAN
  <1>1. handing \o events \in Seq(Events)
    OBVIOUS
  <1>2. stale' \in BOOLEAN
    BY DEF Pushed
  <1> QED
    BY <1>1, <1>2 DEF Pushed

\* A connection that is closed has nothing on its way.
LEMMA ClosedWire ==
  ASSUME RelayTyped, NEW k, Closed(k)
  PROVE  /\ taken' = taken \ {k} /\ wire' \in [Conns -> Seq(Events)]
         /\ \A j \in Conns : wire'[j] = IF j = k THEN << >> ELSE wire[j]
  BY DEF Closed, RelayTyped

LEMMA RelayTypedNext ==
  ASSUME RelayTyped, RelayNext
  PROVE  RelayTyped'
  <1> USE RelayAssumption
  <1>0. \A e \in Events, s \in Seq(Events) : Append(s, e) \in Seq(Events)
    BY AppendProperties
  <1>1. ASSUME NEW kind \in {"message", "edit", "delete"}, NEW m \in Ids, Happens(kind, m) PROVE RelayTyped'
    <2>1. [kind |-> kind, id |-> m] \in Events
      BY DEF Events
    <2>2. wire' \in [Conns -> Seq(Events)]
      BY <1>0, <1>1, <2>1 DEF Happens, RelayTyped
    <2>3. life' \in [Ids -> {"none", "sent", "deleted"}]
      BY <1>1 DEF Happens, RelayTyped
    <2>4. happened' \in 0 .. MaxEvents
      BY <1>1 DEF Happens, RelayTyped
    <2> QED
      BY <1>1, <2>2, <2>3, <2>4 DEF Happens, RelayTyped
  <1>2. ASSUME BeginLogin PROVE RelayTyped'
    <2>1. made' \in 0 .. MaxConns /\ made' = made + 1 /\ made \in 0 .. MaxConns /\ joining' = made'
      BY <1>2 DEF BeginLogin, RelayTyped
    <2>2. 0 .. made \subseteq 0 .. made' /\ 1 .. made \subseteq 1 .. made' /\ made' \in 0 .. made'
      BY <2>1
    <2> QED
      BY <1>2, <2>1, <2>2 DEF BeginLogin, RelayTyped
  <1>3. ASSUME MaxTakesLogin PROVE RelayTyped'
    <2>1. joining \in 1 .. made
      BY <1>3 DEF MaxTakesLogin, RelayTyped
    <2> QED
      BY <1>3, <2>1 DEF MaxTakesLogin, RelayTyped
  <1>4. 0 \in 0 .. made /\ << >> \in Seq(Events)
    BY DEF RelayTyped
  <1>5. ASSUME ReloginFails PROVE RelayTyped'
    <2>1. taken' \subseteq taken /\ wire' \in [Conns -> Seq(Events)]
      BY <1>5, ClosedWire DEF ReloginFails
    <2> QED
      BY <1>4, <1>5, <2>1 DEF ReloginFails, RelayTyped
  <1>6. ASSUME LoginDone PROVE RelayTyped'
    <2>1. joining \in 0 .. made
      BY DEF RelayTyped
    <2>2. CASE current = 0
      <3>1. handing' \in Seq(Events) /\ stale' \in BOOLEAN
        BY <1>6, <2>2, PushedEvents DEF LoginDone, RelayTyped
      <3> QED
        BY <1>4, <1>6, <2>1, <2>2, <3>1 DEF LoginDone, RelayTyped
    <2>3. CASE current # 0
      <3>1. taken' \subseteq taken /\ wire' \in [Conns -> Seq(Events)]
        BY <1>6, <2>3, ClosedWire DEF LoginDone
      <3> QED
        BY <1>4, <1>6, <2>1, <2>3, <3>1 DEF LoginDone, RelayTyped
    <2> QED
      BY <2>2, <2>3
  <1>7. ASSUME Replaced PROVE RelayTyped'
    <2>1. handing' \in Seq(Events) /\ stale' \in BOOLEAN
      BY <1>7, PushedEvents DEF Replaced, RelayTyped
    <2> QED
      BY <1>4, <1>7, <2>1 DEF Replaced, RelayTyped
  <1>8. ASSUME Lost PROVE RelayTyped'
    <2>1. taken' \subseteq taken /\ wire' \in [Conns -> Seq(Events)]
      BY <1>8, ClosedWire DEF Lost
    <2> QED
      BY <1>4, <1>8, <2>1 DEF Lost, RelayTyped
  <1>9. ASSUME NEW k \in Conns, Arrives(k) PROVE RelayTyped'
    <2>1. wire[k] \in Seq(Events) /\ wire[k] # << >>
      BY <1>9 DEF Arrives, RelayTyped
    <2>2. Head(wire[k]) \in Events /\ Tail(wire[k]) \in Seq(Events) /\ << Head(wire[k]) >> \in Seq(Events)
      BY <2>1
    <2>3. wire' \in [Conns -> Seq(Events)]
      BY <1>9, <2>2 DEF Arrives, RelayTyped
    <2>4. handing' \in Seq(Events) /\ stale' \in BOOLEAN /\ early' \in Seq(Events)
      <3>1. CASE Pushed(<< Head(wire[k]) >>) /\ early' = early
        BY <2>2, <3>1, PushedEvents DEF RelayTyped
      <3>2. CASE early' = Append(early, Head(wire[k])) /\ handing' = handing /\ stale' = stale
        BY <1>0, <2>2, <3>2 DEF RelayTyped
      <3> QED
        BY <1>9, <3>1, <3>2 DEF Arrives
    <2> QED
      BY <1>9, <2>3, <2>4 DEF Arrives, RelayTyped
  <1>10. ASSUME NEW i, HandOn(i) \/ CannotBeRead(i) PROVE RelayTyped'
    <2>1. i = 1 /\ handing # << >> /\ handing \in Seq(Events) /\ handing' = Tail(handing)
      <3>1. i = 1 /\ handing # << >> /\ handing \in Seq(Events) /\ handing' = RemoveAt(handing, 1)
        BY <1>10 DEF HandOn, CannotBeRead, Ready, RelayTyped
      <3> QED
        BY <3>1, FirstRemoved
    <2>2. handing[1] \in Events /\ handing' \in Seq(Events)
      BY <2>1
    <2>3. handing[1].id \in Ids
      BY <2>2 DEF Events
    <2>4. CASE heard' = Append(heard, handing[1])
      <3>1. heard' \in Seq(Events)
        BY <1>0, <2>2, <2>4 DEF RelayTyped
      <3>2. seen' = seen \/ seen' = Remembered(handing[1].id)
        BY <1>10, <2>1 DEF HandOn, CannotBeRead
      <3>3. seen' \in Seq(Ids) /\ Len(seen') <= SeenMax
        <4>1. seen \in Seq(Ids) /\ Len(seen) <= SeenMax /\ Len(seen) \in Nat
          BY DEF RelayTyped
        <4> DEFINE all == Append(seen, handing[1].id)
        <4>2. all \in Seq(Ids) /\ Len(all) = Len(seen) + 1 /\ all # << >>
          BY <2>3, <4>1, AppendProperties
        <4> HIDE DEF all
        <4>3. Tail(all) \in Seq(Ids) /\ Len(Tail(all)) = Len(all) - 1
          BY <4>2
        <4>4. Remembered(handing[1].id) = IF Len(all) > SeenMax THEN Tail(all) ELSE all
          BY DEF Remembered, all
        <4>5. CASE Len(all) > SeenMax
          <5>1. Len(seen) \in Nat /\ SeenMax \in Nat
            BY <4>1 DEF RelayAssumption
          <5>2. Len(Tail(all)) <= SeenMax
            BY <4>1, <4>2, <4>3, <5>1
          <5> QED
            BY <3>2, <4>1, <4>3, <4>4, <4>5, <5>2
        <4>6. CASE ~(Len(all) > SeenMax)
          BY <3>2, <4>1, <4>2, <4>4, <4>6
        <4> QED
          BY <4>5, <4>6
      <3> QED
        BY <1>10, <2>2, <3>1, <3>3 DEF HandOn, CannotBeRead, RelayTyped
    <2>5. CASE heard' = heard /\ seen' = seen
      BY <1>10, <2>2, <2>5 DEF HandOn, CannotBeRead, RelayTyped
    <2> QED
      BY <1>10, <2>1, <2>4, <2>5 DEF HandOn, CannotBeRead
  <1> QED
    BY <1>1, <1>2, <1>3, <1>5, <1>6, <1>7, <1>8, <1>9, <1>10 DEF RelayNext

LEMMA OneWayNext ==
  ASSUME RelayTyped, RelayTyped', OneWay, RelayNext
  PROVE  OneWay'
  <1>0. joining \in 0 .. made /\ current \in 0 .. made /\ taken \subseteq 1 .. made /\ made \in Nat /\ 0 \notin taken
    BY DEF RelayTyped
  <1>1. ASSUME NEW kind \in {"message", "edit", "delete"}, NEW m \in Ids, Happens(kind, m) PROVE OneWay'
    BY <1>1 DEF Happens, OneWay
  <1>2. ASSUME BeginLogin PROVE OneWay'
    <2>1. made + 1 \notin taken /\ joining' = made + 1 /\ joining \notin taken
      BY <1>0, <1>2 DEF BeginLogin
    <2> QED
      BY <1>2, <2>1 DEF BeginLogin, OneWay
  <1>3. ASSUME MaxTakesLogin PROVE OneWay'
    BY <1>3 DEF MaxTakesLogin, OneWay
  <1>4. ASSUME ReloginFails PROVE OneWay'
    <2>1. /\ joining' = 0 /\ early' = << >> /\ taken' = taken \ {joining} /\ UNCHANGED << current, replacing, overlapped >>
          /\ \A j \in Conns : wire'[j] = IF j = joining THEN << >> ELSE wire[j]
      BY <1>4, ClosedWire DEF ReloginFails
    <2>2. \A k \in Conns : wire'[k] # << >> => k \in taken'
      BY <2>1 DEF OneWay
    <2>3. ~overlapped => ~replacing /\ taken \subseteq {current, joining}
      BY DEF OneWay
    <2>4. taken \subseteq {current, joining} => taken' \subseteq {current', joining'}
      BY <2>1
    <2> QED
      BY <1>0, <2>1, <2>2, <2>3, <2>4 DEF OneWay
  <1>5. ASSUME LoginDone PROVE OneWay'
    <2>1. CASE current = 0
      <3>1. /\ current' = joining /\ joining' = 0 /\ early' = << >>
            /\ UNCHANGED << taken, wire, replacing, overlapped >>
        BY <1>5, <2>1 DEF LoginDone
      <3>2. ~overlapped => ~replacing /\ taken \subseteq {0, joining}
        BY <2>1 DEF OneWay
      <3>3. \A k \in Conns : wire[k] # << >> => k \in taken
        BY DEF OneWay
      <3>4. taken \subseteq {0, joining} => taken' \subseteq {current', joining'}
        BY <3>1
      <3> QED
        BY <1>0, <3>1, <3>2, <3>3, <3>4 DEF OneWay
    <2>2. CASE current # 0
      <3>1. overlapped' /\ \A k \in Conns : wire'[k] # << >> => k \in taken'
        BY <1>5, <2>2, ClosedWire DEF LoginDone, OneWay, RelayTyped
      <3> QED
        BY <3>1 DEF OneWay
    <2> QED
      BY <2>1, <2>2
  <1>6. ASSUME Replaced PROVE OneWay'
    BY <1>6 DEF Replaced, OneWay
  <1>7. ASSUME Lost PROVE OneWay'
    BY <1>0, <1>7, ClosedWire DEF Lost, OneWay
  <1>8. ASSUME NEW k \in Conns, Arrives(k) PROVE OneWay'
    <2>1. wire[k] # << >> /\ k \in taken
      BY <1>8 DEF Arrives, OneWay
    <2>2. \A j \in Conns : wire'[j] # << >> => j \in taken
      BY <1>8, <2>1 DEF Arrives, OneWay, RelayTyped
    <2>3. early' # << >> => early # << >> \/ k = joining
      BY <1>8 DEF Arrives
    <2> QED
      BY <1>8, <2>1, <2>2, <2>3 DEF Arrives, OneWay
  <1>9. ASSUME NEW i, HandOn(i) \/ CannotBeRead(i) PROVE OneWay'
    BY <1>9 DEF HandOn, CannotBeRead, OneWay
  <1> QED
    BY <1>1, <1>2, <1>3, <1>4, <1>5, <1>6, <1>7, <1>8, <1>9 DEF RelayNext

LEMMA PipelineNext ==
  ASSUME RelayTyped, RelayTyped', OneWay, Pipeline, RelayNext, ~overlapped'
  PROVE  Pipeline'
  <1>0. /\ heard \in Seq(Events) /\ handing \in Seq(Events) /\ early \in Seq(Events) /\ \A k \in Conns : wire[k] \in Seq(Events)
        /\ taken \subseteq 1 .. made /\ 0 \notin taken
    BY DEF RelayTyped
  <1>1. ~overlapped /\ ~replacing /\ (joining \in taken => current = 0) /\ (early # << >> => joining \in taken)
    <2>1. ~overlapped
      BY DEF RelayNext, Happens, BeginLogin, MaxTakesLogin, ReloginFails, LoginDone, Replaced, Lost, Arrives, HandOn, CannotBeRead
    <2> QED
      BY <2>1 DEF OneWay
  <1>2. ASSUME NEW kind \in {"message", "edit", "delete"}, NEW m \in Ids, Happens(kind, m) PROVE Pipeline'
    <2> DEFINE e == [kind |-> kind, id |-> m]
    <2>1. e \in Events /\ e.kind = kind /\ e.id = m
      BY DEF Events
    <2>2. life[m] # "deleted" /\ (e.kind = "delete" => life'[m] = "deleted")
          /\ \A n \in Ids : life[n] = "deleted" => life'[n] = "deleted"
      BY <1>2, <2>1 DEF Happens, RelayTyped
    <2>3. \A s \in Seq(Events) : \A i \in DOMAIN s : s[i].id \in Ids
      <3>1. \A s \in Seq(Events) : \A i \in DOMAIN s : s[i] \in Events
        OBVIOUS
      <3> QED
        BY <3>1 DEF Events
    <2>4. \A s \in Seq(Events) : TrulyDeleted(s, life) => /\ TrulyDeleted(s, life')
                                                         /\ \A i \in DOMAIN s : s[i].id = e.id => s[i].kind # "delete"
      BY <2>1, <2>2, <2>3 DEF TrulyDeleted
    <2>5. \A k \in Conns : wire'[k] = wire[k] \/ wire'[k] = Append(wire[k], e)
      BY <1>2 DEF Happens
    <2>6. heard' = heard /\ handing' = handing /\ early' = early
      BY <1>2 DEF Happens
    <2> HIDE DEF e
    <2>7. ASSUME NEW k \in Conns
          PROVE  /\ DeletionsLast(wire'[k]) /\ TrulyDeleted(wire'[k], life')
                 /\ Precedes(heard, wire'[k]) /\ Precedes(handing, wire'[k]) /\ Precedes(early, wire'[k])
      <3>1. /\ DeletionsLast(wire[k]) /\ TrulyDeleted(wire[k], life)
            /\ Precedes(heard, wire[k]) /\ Precedes(handing, wire[k]) /\ Precedes(early, wire[k])
            /\ TrulyDeleted(heard, life) /\ TrulyDeleted(handing, life) /\ TrulyDeleted(early, life)
            /\ wire[k] \in Seq(Events)
        BY <1>0 DEF Pipeline
      <3>2. CASE wire'[k] = wire[k]
        BY <2>4, <3>1, <3>2
      <3>3. CASE wire'[k] = Append(wire[k], e)
        <4>1. DeletionsLast(wire'[k])
          BY <2>1, <2>4, <3>1, <3>3, PipeAppend
        <4>2. TrulyDeleted(wire'[k], life')
          BY <2>1, <2>2, <2>4, <3>1, <3>3, PipeAppend
        <4>3. Precedes(heard, wire'[k]) /\ Precedes(handing, wire'[k]) /\ Precedes(early, wire'[k])
          <5>1. ASSUME NEW t \in Seq(Events), Precedes(t, wire[k]), TrulyDeleted(t, life) PROVE Precedes(t, wire'[k])
            <6>1. \A i \in DOMAIN t : t[i].id = e.id => t[i].kind # "delete"
              BY <2>4, <5>1
            <6> QED
              BY <2>1, <3>1, <3>3, <5>1, <6>1, PipeAppend
          <5> QED
            BY <1>0, <3>1, <5>1
        <4> QED
          BY <4>1, <4>2, <4>3
      <3> QED
        BY <2>5, <3>2, <3>3
    <2>8. TrulyDeleted(heard, life') /\ TrulyDeleted(handing, life') /\ TrulyDeleted(early, life')
      BY <1>0, <2>4 DEF Pipeline
    <2> QED
      BY <2>6, <2>7, <2>8 DEF Pipeline
  <1>3. ASSUME UNCHANGED << heard, handing, life >>, early' = early \/ early' = << >>,
               \A k \in Conns : wire'[k] = wire[k] \/ wire'[k] = << >>
        PROVE  Pipeline'
    <2>1. ASSUME NEW k \in Conns
          PROVE  /\ DeletionsLast(wire'[k]) /\ TrulyDeleted(wire'[k], life)
                 /\ Precedes(heard, wire'[k]) /\ Precedes(handing, wire'[k]) /\ Precedes(early', wire'[k])
      BY <1>3, EmptyPipe DEF Pipeline
    <2>2. DeletionsLast(early') /\ TrulyDeleted(early', life) /\ Precedes(heard, early') /\ Precedes(handing, early')
      BY <1>3, EmptyPipe DEF Pipeline
    <2> QED
      BY <1>3, <2>1, <2>2 DEF Pipeline
  <1>4. ASSUME BeginLogin \/ MaxTakesLogin PROVE Pipeline'
    BY <1>3, <1>4 DEF BeginLogin, MaxTakesLogin
  <1>5. ASSUME ReloginFails \/ Lost PROVE Pipeline'
    <2>1. \A k \in Conns : wire'[k] = wire[k] \/ wire'[k] = << >>
      BY <1>5, ClosedWire DEF ReloginFails, Lost
    <2> QED
      BY <1>3, <1>5, <2>1 DEF ReloginFails, Lost
  <1>6. ASSUME LoginDone PROVE Pipeline'
    <2>1. Pushed(early) /\ early' = << >> /\ UNCHANGED << wire, heard, life >>
      BY <1>1, <1>6 DEF LoginDone
    <2>2. handing' = handing \o early
      BY <2>1 DEF Pushed
    <2>3. DeletionsLast(handing') /\ TrulyDeleted(handing', life) /\ Precedes(heard, handing')
      BY <1>0, <2>2, PipeConcat DEF Pipeline
    <2>4. \A k \in Conns : Precedes(handing', wire[k])
      BY <1>0, <2>2, PipeConcat DEF Pipeline
    <2> QED
      BY <2>1, <2>3, <2>4, EmptyPipe DEF Pipeline
  <1>7. ASSUME NEW k \in Conns, Arrives(k) PROVE Pipeline'
    <2> DEFINE e == Head(wire[k])
    <2>1. wire[k] \in Seq(Events) /\ wire[k] # << >> /\ wire' = [wire EXCEPT ![k] = Tail(wire[k])]
          /\ heard' = heard /\ life' = life
      BY <1>0, <1>7 DEF Arrives
    <2>2. wire'[k] = Tail(wire[k]) /\ \A j \in Conns : j # k => wire'[j] = wire[j]
      BY <2>1 DEF RelayTyped
    <2>3. /\ e \in Events /\ DeletionsLast(wire'[k]) /\ TrulyDeleted(wire'[k], life)
          /\ \A j \in DOMAIN wire'[k] : wire'[k][j].id = e.id => e.kind # "delete"
          /\ e.kind = "delete" => life[e.id] = "deleted"
      BY <2>1, <2>2, PipeTail DEF Pipeline
    <2>4. ASSUME NEW t, Precedes(t, wire[k])
          PROVE  Precedes(t, wire'[k]) /\ \A i \in DOMAIN t : t[i].id = e.id => t[i].kind # "delete"
      BY <2>1, <2>2, <2>4, PipeTail
    <2>5. wire[k] # << >> => k \in taken
      BY DEF OneWay
    <2>6. \A j \in Conns : j # k => wire[j] = << >>
      <3>1. (k = current \/ k = joining) /\ k \in taken /\ taken \subseteq {current, joining}
        BY <1>1, <1>7, <2>1, <2>5 DEF Arrives, OneWay
      <3>2. \A j \in taken : j = k
        BY <1>0, <1>1, <3>1
      <3> QED
        BY <3>2 DEF OneWay
    <2> HIDE DEF e
    <2>7. CASE k = current /\ Pushed(<< e >>) /\ early' = early
      <3>1. early = << >>
        BY <1>1, <2>1, <2>5, <2>7, <1>0
      <3>2. handing' = Append(handing, e)
        <4>1. handing' = handing \o << e >>
          BY <2>7 DEF Pushed
        <4> QED
          BY <1>0, <2>3, <4>1, AppendIsConcat
      <3>3. \A i \in DOMAIN handing : handing[i].id = e.id => handing[i].kind # "delete"
        BY <2>4 DEF Pipeline
      <3>4. \A i \in DOMAIN heard : heard[i].id = e.id => heard[i].kind # "delete"
        BY <2>4 DEF Pipeline
      <3>5. DeletionsLast(handing') /\ TrulyDeleted(handing', life) /\ Precedes(heard, handing')
        BY <1>0, <2>3, <3>2, <3>3, <3>4, PipeAppend DEF Pipeline
      <3>6. ASSUME NEW j \in Conns
            PROVE  /\ DeletionsLast(wire'[j]) /\ TrulyDeleted(wire'[j], life)
                   /\ Precedes(heard, wire'[j]) /\ Precedes(handing', wire'[j])
        <4>1. CASE j = k
          <5>1. Precedes(heard, wire'[k]) /\ Precedes(handing, wire'[k])
            BY <2>4 DEF Pipeline
          <5>2. Precedes(handing', wire'[k])
            BY <1>0, <2>3, <3>2, <5>1, PipeAppend
          <5> QED
            BY <2>3, <4>1, <5>1, <5>2
        <4>2. CASE j # k
          <5>1. wire[j] = << >>
            BY <2>6, <4>2
          <5> QED
            BY <2>2, <4>2, <5>1, EmptyPipe
        <4> QED
          BY <4>1, <4>2
      <3> QED
        BY <2>1, <2>7, <3>1, <3>5, <3>6, EmptyPipe DEF Pipeline
    <2>8. CASE early' = Append(early, e) /\ handing' = handing
      <3>1. /\ \A i \in DOMAIN handing : handing[i].id = e.id => handing[i].kind # "delete"
            /\ \A i \in DOMAIN heard : heard[i].id = e.id => heard[i].kind # "delete"
            /\ \A i \in DOMAIN early : early[i].id = e.id => early[i].kind # "delete"
        BY <2>4 DEF Pipeline
      <3>2. DeletionsLast(early') /\ TrulyDeleted(early', life) /\ Precedes(heard, early') /\ Precedes(handing, early')
        BY <1>0, <2>3, <2>8, <3>1, PipeAppend DEF Pipeline
      <3>3. ASSUME NEW j \in Conns
            PROVE  /\ DeletionsLast(wire'[j]) /\ TrulyDeleted(wire'[j], life)
                   /\ Precedes(heard, wire'[j]) /\ Precedes(handing, wire'[j]) /\ Precedes(early', wire'[j])
        <4>1. CASE j = k
          <5>1. Precedes(heard, wire'[k]) /\ Precedes(handing, wire'[k]) /\ Precedes(early, wire'[k])
            BY <2>4 DEF Pipeline
          <5>2. Precedes(early', wire'[k])
            BY <1>0, <2>3, <2>8, <5>1, PipeAppend
          <5> QED
            BY <2>3, <4>1, <5>1, <5>2
        <4>2. CASE j # k
          <5>1. wire[j] = << >>
            BY <2>6, <4>2
          <5> QED
            BY <2>2, <4>2, <5>1, EmptyPipe
        <4> QED
          BY <4>1, <4>2
      <3> QED
        BY <2>1, <2>8, <3>2, <3>3 DEF Pipeline
    <2> QED
      BY <1>7, <2>7, <2>8 DEF Arrives, e
  <1>8. ASSUME Replaced PROVE Pipeline'
    BY <1>1, <1>8 DEF Replaced
  <1>9. ASSUME NEW i, HandOn(i) \/ CannotBeRead(i) PROVE Pipeline'
    <2> DEFINE e == Head(handing)
    <2>1. /\ handing # << >> /\ handing' = Tail(handing) /\ UNCHANGED << wire, early, life >>
          /\ heard' = heard \/ heard' = Append(heard, e)
      <3>1. i = 1 /\ handing # << >> /\ handing' = RemoveAt(handing, i) /\ UNCHANGED << wire, early, life >>
            /\ (heard' = heard \/ heard' = Append(heard, handing[i]))
        BY <1>9 DEF HandOn, CannotBeRead, Ready
      <3>2. handing[1] = e
        BY <1>0, <3>1
      <3> QED
        BY <1>0, <3>1, <3>2, FirstRemoved
    <2>2. /\ e \in Events /\ DeletionsLast(handing') /\ TrulyDeleted(handing', life)
          /\ \A j \in DOMAIN handing' : handing'[j].id = e.id => e.kind # "delete"
          /\ e.kind = "delete" => life[e.id] = "deleted"
      BY <1>0, <2>1, PipeTail DEF Pipeline
    <2>3. /\ Precedes(heard, handing')
          /\ \A j \in DOMAIN heard : heard[j].id = e.id => heard[j].kind # "delete"
      BY <1>0, <2>1, PipeTail DEF Pipeline
    <2>4. ASSUME NEW t, Precedes(handing, t)
          PROVE  Precedes(handing', t) /\ \A j \in DOMAIN t : t[j].id = e.id => e.kind # "delete"
      BY <1>0, <2>1, <2>4, PipeTail
    <2> HIDE DEF e
    <2>5. DeletionsLast(heard') /\ TrulyDeleted(heard', life) /\ Precedes(heard', handing')
      BY <1>0, <2>1, <2>2, <2>3, PipeAppend DEF Pipeline
    <2>6. ASSUME NEW t, Precedes(heard, t), Precedes(handing, t) PROVE Precedes(heard', t) /\ Precedes(handing', t)
      BY <1>0, <2>1, <2>2, <2>4, <2>6, PipeAppend
    <2>7. Precedes(heard', early) /\ Precedes(handing', early)
      BY <2>6 DEF Pipeline
    <2>8. \A k \in Conns : Precedes(heard', wire[k]) /\ Precedes(handing', wire[k])
      BY <2>6 DEF Pipeline
    <2> QED
      BY <2>1, <2>2, <2>5, <2>7, <2>8 DEF Pipeline
  <1> QED
    BY <1>2, <1>4, <1>5, <1>6, <1>7, <1>8, <1>9 DEF RelayNext

\* #seen has the newest ids: one more moves the others one place away from its end.
LEMMA RememberedLast ==
  ASSUME RelayTyped, NEW m \in Ids, NEW new, new = Remembered(m)
  PROVE  /\ SeenMax > 0 => Len(new) \in DOMAIN new /\ new[Len(new)] = m
         /\ \A a \in Nat : a + 1 < SeenMax /\ Len(seen) - a \in DOMAIN seen =>
              Len(new) - (a + 1) \in DOMAIN new /\ new[Len(new) - (a + 1)] = seen[Len(seen) - a]
  <1> DEFINE all == Append(seen, m)
             n == Len(seen)
  <1>1. n \in Nat /\ n <= SeenMax /\ SeenMax \in Nat /\ DOMAIN seen = 1 .. n
    BY RelayAssumption DEF RelayTyped
  <1>2. all \in Seq(Ids) /\ Len(all) = n + 1 /\ all[n + 1] = m /\ \A i \in 1 .. n : all[i] = seen[i]
    BY AppendProperties DEF RelayTyped
  <1>3. DOMAIN all = 1 .. (n + 1) /\ all # << >>
    BY <1>1, <1>2
  <1>4. new = IF Len(all) > SeenMax THEN Tail(all) ELSE all
    BY DEF Remembered
  <1> HIDE DEF all, n
  <1>5. /\ Len(Tail(all)) = n /\ DOMAIN Tail(all) = 1 .. n /\ \A i \in 1 .. n : Tail(all)[i] = all[i + 1]
    BY <1>1, <1>2, <1>3
  <1>6. CASE n = SeenMax
    <2>1. new = Tail(all)
      BY <1>1, <1>2, <1>4, <1>6
    <2>2. SeenMax > 0 => n \in DOMAIN Tail(all) /\ Tail(all)[n] = m
      BY <1>1, <1>2, <1>5, <1>6
    <2>3. ASSUME NEW a \in Nat, a + 1 < SeenMax PROVE n - (a + 1) \in 1 .. n /\ Tail(all)[n - (a + 1)] = seen[n - a]
      <3>1. n - (a + 1) \in 1 .. n /\ (n - (a + 1)) + 1 = n - a /\ n - a \in 1 .. n
        BY <1>1, <1>6, <2>3
      <3>2. Tail(all)[n - (a + 1)] = all[(n - (a + 1)) + 1]
        BY <1>5, <3>1
      <3> QED
        BY <1>2, <3>1, <3>2
    <2> QED
      BY <1>5, <2>1, <2>2, <2>3 DEF n
  <1>7. CASE n # SeenMax
    <2>1. new = all
      BY <1>1, <1>2, <1>4, <1>7
    <2>2. n + 1 \in DOMAIN all /\ all[n + 1] = m
      BY <1>1, <1>2, <1>3
    <2>3. ASSUME NEW a \in Nat, n - a \in DOMAIN seen
          PROVE  (n + 1) - (a + 1) \in DOMAIN all /\ all[(n + 1) - (a + 1)] = seen[n - a]
      <3>1. (n + 1) - (a + 1) = n - a /\ n - a \in 1 .. n
        BY <1>1, <2>3
      <3>2. n - a \in 1 .. (n + 1)
        BY <1>1, <3>1
      <3> QED
        BY <1>2, <1>3, <3>1, <3>2
    <2> QED
      BY <1>2, <2>1, <2>2, <2>3 DEF n
  <1> QED
    BY <1>6, <1>7

LEMMA SeenNext ==
  ASSUME RelayTyped, RelayTyped', SeenIsLast, RarelyTwice, RelayNext
  PROVE  SeenIsLast' /\ RarelyTwice'
  <1>0. heard \in Seq(Events) /\ seen \in Seq(Ids) /\ handing \in Seq(Events) /\ SeenMax \in Nat
    BY RelayAssumption DEF RelayTyped
  <1>1. CASE heard' = heard /\ seen' = seen
    BY <1>1 DEF SeenIsLast, RarelyTwice, After, Messages
  <1>2. ASSUME ~(heard' = heard /\ seen' = seen)
        PROVE  \E e \in Events : /\ heard' = Append(heard, e)
                                 /\ e.kind # "message" => seen' = seen
                                 /\ e.kind = "message" => ~Contains(seen, e.id) /\ seen' = Remembered(e.id)
    <2>1. PICK i : HandOn(i)
      BY <1>2 DEF RelayNext, Happens, BeginLogin, MaxTakesLogin, ReloginFails, LoginDone, Replaced, Lost, Arrives, CannotBeRead
    <2>2. i = 1 /\ handing # << >>
      BY <2>1 DEF HandOn, Ready
    <2>3. handing[i] \in Events
      BY <1>0, <2>2
    <2> QED
      BY <1>2, <2>1, <2>3 DEF HandOn
  <1>3. ASSUME NEW e \in Events, heard' = Append(heard, e), e.kind # "message" => seen' = seen,
               e.kind = "message" => ~Contains(seen, e.id) /\ seen' = Remembered(e.id)
        PROVE  SeenIsLast' /\ RarelyTwice'
    <2>0. PICK n \in Nat : n = Len(heard)
      BY <1>0
    <2>1. /\ n \in Nat /\ DOMAIN heard = 1 .. n /\ DOMAIN heard' = 1 .. (n + 1) /\ heard'[n + 1] = e
          /\ \A i \in 1 .. n : heard'[i] = heard[i]
      <3>1. /\ Len(Append(heard, e)) = n + 1 /\ Append(heard, e) \in Seq(Events) /\ Append(heard, e)[n + 1] = e
            /\ \A i \in 1 .. n : Append(heard, e)[i] = heard[i]
        BY <1>0, <2>0, AppendProperties
      <3>2. DOMAIN Append(heard, e) = 1 .. (n + 1)
        BY <3>1
      <3>3. n \in Nat /\ DOMAIN heard = 1 .. n
        BY <1>0, <2>0
      <3> QED
        BY <1>3, <3>1, <3>2, <3>3
    <2>2. \A i \in 1 .. n : IsFiniteSet(After(i)) /\ Cardinality(After(i)) \in Nat /\ n + 1 \notin After(i)
      <3> TAKE i \in 1 .. n
      <3>1. IsFiniteSet(1 .. n)
        BY <2>1, FS_Interval
      <3>2. After(i) \subseteq 1 .. n /\ n + 1 \notin After(i)
        BY <2>1 DEF After
      <3> QED
        BY <3>1, <3>2, FS_Subset, FS_CardinalityType
    <2>3. \A i \in 1 .. n : After(i)' = IF e.kind = "message" THEN After(i) \cup {n + 1} ELSE After(i)
      <3> TAKE i \in 1 .. n
      <3>1. \A k : k \in After(i)' <=> k \in 1 .. (n + 1) /\ k > i /\ heard'[k].kind = "message"
        BY <2>1 DEF After
      <3>2. \A k : k \in After(i) <=> k \in 1 .. n /\ k > i /\ heard[k].kind = "message"
        BY <2>1 DEF After
      <3>3. \A k : k \in 1 .. (n + 1) <=> k \in 1 .. n \/ k = n + 1
        BY <2>1
      <3>4. n + 1 > i
        BY <2>1
      <3>5. \A k : k \in After(i)' <=> k \in After(i) \/ (k = n + 1 /\ e.kind = "message")
        BY <2>1, <3>1, <3>2, <3>3, <3>4
      <3> QED
        BY <3>5
    <2>4. \A i \in 1 .. n : Messages(i, n + 1)' = After(i)
      <3> TAKE i \in 1 .. n
      <3>1. \A k : k \in Messages(i, n + 1)' <=> k \in i + 1 .. (n + 1) - 1 /\ heard'[k].kind = "message"
        BY DEF Messages
      <3>2. \A k : k \in i + 1 .. (n + 1) - 1 <=> k \in 1 .. n /\ k > i
        BY <2>1
      <3>3. \A k : k \in Messages(i, n + 1)' <=> k \in After(i)
        BY <2>1, <3>1, <3>2 DEF After
      <3> QED
        BY <3>3
    <2>5. \A i, j \in 1 .. n : Messages(i, j)' = Messages(i, j)
      <3> TAKE i, j \in 1 .. n
      <3>1. \A k : k \in Messages(i, j)' <=> k \in i + 1 .. j - 1 /\ heard'[k].kind = "message"
        BY DEF Messages
      <3>2. \A k : k \in Messages(i, j) <=> k \in i + 1 .. j - 1 /\ heard[k].kind = "message"
        BY DEF Messages
      <3>3. i + 1 .. j - 1 \subseteq 1 .. n
        BY <2>1
      <3>4. \A k : k \in Messages(i, j)' <=> k \in Messages(i, j)
        BY <2>1, <3>1, <3>2, <3>3
      <3> QED
        BY <3>4
    <2>6. \A i \in 1 .. (n + 1) : i = n + 1 \/ i \in 1 .. n
      BY <2>1
    <2>7. Cardinality(After(n + 1)') = 0
      <3>1. After(n + 1)' = {}
        BY <2>1 DEF After
      <3> QED
        BY <3>1, FS_EmptySet
    <2>8. RarelyTwice'
      <3> SUFFICES ASSUME NEW i \in 1 .. (n + 1), NEW j \in 1 .. (n + 1), i < j, heard'[i].id = heard'[j].id,
                          heard'[i].kind = "message", heard'[j].kind = "message"
                   PROVE  Cardinality(Messages(i, j)') >= SeenMax
        BY <2>1 DEF RarelyTwice
      <3>1. i \in 1 .. n
        BY <2>1
      <3>2. CASE j \in 1 .. n
        BY <2>1, <2>5, <3>1, <3>2 DEF RarelyTwice
      <3>3. CASE j = n + 1
        <4>1. e.kind = "message" /\ ~Contains(seen, e.id) /\ heard[i].id = e.id /\ heard[i].kind = "message"
          BY <1>3, <2>1, <3>1, <3>3
        <4> DEFINE a == Cardinality(After(i))
        <4>2. a \in Nat /\ Messages(i, j)' = After(i)
          BY <2>2, <2>4, <3>1, <3>3
        <4>3. a < SeenMax => Len(seen) - a \in DOMAIN seen /\ seen[Len(seen) - a] = e.id
          BY <2>1, <3>1, <4>1 DEF SeenIsLast
        <4>4. DOMAIN seen = 1 .. Len(seen)
          BY <1>0
        <4> HIDE DEF a
        <4>5. ~(a < SeenMax)
          BY <4>1, <4>3, <4>4 DEF Contains
        <4>6. a >= SeenMax
          BY <1>0, <4>2, <4>5
        <4> QED
          BY <4>2, <4>6 DEF a
      <3> QED
        BY <2>6, <3>2, <3>3
    <2>9. SeenIsLast'
      <3> SUFFICES ASSUME NEW i \in 1 .. (n + 1), heard'[i].kind = "message", Cardinality(After(i)') < SeenMax
                   PROVE  /\ Len(seen') - Cardinality(After(i)') \in DOMAIN seen'
                          /\ seen'[Len(seen') - Cardinality(After(i)')] = heard'[i].id
        BY <2>1 DEF SeenIsLast
      <3>1. CASE i = n + 1
        <4>1. e.kind = "message" /\ seen' = Remembered(e.id) /\ e.id \in Ids /\ heard'[i] = e
          BY <1>3, <2>1, <3>1 DEF Events
        <4>2. Cardinality(After(i)') = 0 /\ SeenMax > 0
          BY <1>0, <2>7, <3>1
        <4>3. Len(seen') \in DOMAIN seen' /\ seen'[Len(seen')] = e.id
          BY <4>1, <4>2, RememberedLast
        <4>4. Len(seen') \in Nat
          BY DEF RelayTyped
        <4>5. Len(seen') - 0 = Len(seen')
          BY <4>4
        <4> QED
          BY <4>1, <4>2, <4>3, <4>5
      <3>2. CASE i \in 1 .. n /\ e.kind = "message"
        <4> DEFINE a == Cardinality(After(i))
        <4>1. a \in Nat /\ Cardinality(After(i)') = a + 1
          BY <2>2, <2>3, <3>2, FS_AddElement
        <4>2. seen' = Remembered(e.id) /\ e.id \in Ids
          BY <1>3, <3>2 DEF Events
        <4> HIDE DEF a
        <4>3. a + 1 < SeenMax /\ a < SeenMax
          BY <1>0, <4>1
        <4>4. Len(seen) - a \in DOMAIN seen /\ seen[Len(seen) - a] = heard[i].id
          BY <2>1, <3>2, <4>3 DEF SeenIsLast, a
        <4>5. Len(seen') - (a + 1) \in DOMAIN seen' /\ seen'[Len(seen') - (a + 1)] = seen[Len(seen) - a]
          BY <4>1, <4>2, <4>3, <4>4, RememberedLast
        <4> QED
          BY <2>1, <3>2, <4>1, <4>4, <4>5
      <3>3. CASE i \in 1 .. n /\ e.kind # "message"
        BY <1>3, <2>1, <2>3, <3>3 DEF SeenIsLast
      <3> QED
        BY <2>6, <3>1, <3>2, <3>3
    <2> QED
      BY <2>8, <2>9
  <1> QED
    BY <1>1, <1>2, <1>3

LEMMA RelayInvHolds == RelaySpec => []RelayInv
  <1>1. RelayInit => RelayInv
    <2> SUFFICES ASSUME RelayInit PROVE RelayInv
      OBVIOUS
    <2>1. << >> \in Seq(Events) /\ << >> \in Seq(Ids) /\ Len(<< >>) = 0 /\ DOMAIN << >> = {}
      OBVIOUS
    <2>2. RelayTyped
      <3>1. 0 \in 0 .. MaxConns /\ 0 \in 0 .. 0 /\ 0 \in 0 .. MaxEvents /\ 0 <= SeenMax
        BY RelayAssumption
      <3> QED
        BY <2>1, <3>1 DEF RelayInit, RelayTyped
    <2>3. OneWay
      BY DEF RelayInit, OneWay
    <2>4. Pipeline
      BY EmptyPipe DEF RelayInit, Pipeline
    <2>5. SeenIsLast /\ RarelyTwice
      BY <2>1 DEF RelayInit, SeenIsLast, RarelyTwice
    <2> QED
      BY <2>2, <2>3, <2>4, <2>5 DEF RelayInv
  <1>2. RelayInv /\ [RelayNext]_relayVars => RelayInv'
    <2> SUFFICES ASSUME RelayInv, [RelayNext]_relayVars PROVE RelayInv'
      OBVIOUS
    <2>1. CASE RelayNext
      <3>1. RelayTyped' /\ OneWay'
        BY <2>1, RelayTypedNext, OneWayNext DEF RelayInv
      <3>2. SeenIsLast' /\ RarelyTwice'
        BY <2>1, <3>1, SeenNext DEF RelayInv
      <3>3. ASSUME ~overlapped' PROVE Pipeline'
        <4>1. ~overlapped
          BY <2>1, <3>3
             DEF RelayNext, Happens, BeginLogin, MaxTakesLogin, ReloginFails, LoginDone, Replaced, Lost, Arrives, HandOn, CannotBeRead
        <4> QED
          BY <2>1, <3>1, <3>3, <4>1, PipelineNext DEF RelayInv
      <3> QED
        BY <3>1, <3>2, <3>3 DEF RelayInv
    <2>2. CASE UNCHANGED relayVars
      BY <2>2 DEF relayVars, RelayInv, RelayTyped, OneWay, Pipeline, SeenIsLast, RarelyTwice, After, Messages
    <2> QED
      BY <2>1, <2>2
  <1> QED
    BY <1>1, <1>2, PTL DEF RelaySpec

\* What is on its way, held, being handed on or heard is what MAX pushes, and #seen holds at most
\* SeenMax ids (src/src/server/server.ts).
THEOREM RelayTypeCorrect == RelaySpec => []RelayTypeOK
  <1>1. RelayInv => RelayTypeOK
    BY DEF RelayInv, RelayTyped, RelayTypeOK
  <1> QED
    BY <1>1, RelayInvHolds, PTL

\* A watcher of `max serve` (src/src/server/server.ts) hears a message once in any SeenMax, over any
\* number of connections, drops and logins; and nothing of a message after its deletion, unless MAX
\* has pushed to two connections at once.
THEOREM HeardAsItHappened == RelaySpec => []HeardInOrder
  <1>1. RelayInv => HeardInOrder
    <2> SUFFICES ASSUME RelayInv, NEW i \in DOMAIN heard, NEW j \in DOMAIN heard, i < j, heard[i].id = heard[j].id
                 PROVE  /\ heard[i].kind = "message" /\ heard[j].kind = "message" => Cardinality(Messages(i, j)) >= SeenMax
                        /\ ~overlapped => heard[i].kind # "delete"
      BY Zenon DEF HeardInOrder
    <2>1. heard[i].kind = "message" /\ heard[j].kind = "message" => Cardinality(Messages(i, j)) >= SeenMax
      BY Zenon DEF RelayInv, RarelyTwice
    <2>2. ~overlapped => heard[i].kind # "delete"
      BY DEF RelayInv, Pipeline, DeletionsLast
    <2> QED
      BY <2>1, <2>2
  <1> QED
    BY <1>1, RelayInvHolds, PTL

=============================================================================

-------------------------- MODULE SendGuardProofs --------------------------
(***************************************************************************)
(* For any number of commands, chats, hours and any limit: a place is held *)
(* from the check until the outcome is known, a delivered message keeps a  *)
(* place whatever crashes or is lost, and - while owners do not repeat     *)
(* unknown outcomes, or nothing is scheduled ahead - no hour of the        *)
(* journal goes past the limit.                                            *)
(***************************************************************************)
EXTENDS SendGuard, FiniteSetTheorems, WellFoundedInduction, TLAPS

-----------------------------------------------------------------------------
(***************************************************************************)
(* What the guard counts bounds what the hour holds: the places of the     *)
(* distinct messages in an hour are no more than withinLimit counts around *)
(* any moment of that hour, although it drops the unknown outcomes that a  *)
(* later line about the same send has replaced.                            *)
(***************************************************************************)

\* A finite set of line numbers has a last one.
LEMMA LastOne ==
  ASSUME NEW n \in Nat, NEW T, T \subseteq 1 .. n, T # {}
  PROVE  \E k \in T : \A j \in T : j <= k
  <1> DEFINE D == {d \in 0 .. n : n - d \in T}
  <1>1. D # {} /\ D \subseteq Nat
    <2>1. PICK i \in T : i \in 1 .. n
      OBVIOUS
    <2>2. n - i \in 0 .. n /\ n - (n - i) = i
      BY <2>1
    <2>3. n - i \in D
      BY <2>1, <2>2
    <2>4. D # {}
      <3> HIDE DEF D
      <3> QED
        BY <2>3
    <2> QED
      BY <2>4
  <1>2. PICK d \in D : \A e \in D : ~ (<<e, d>> \in OpToRel(<, Nat))
    BY <1>1, NatLessThanWellFounded, WFMin
  <1>3. \A e \in D : d <= e
    <2> SUFFICES ASSUME NEW e \in D, e < d PROVE FALSE
      BY <1>1
    <2>1. <<e, d>> \in Nat \X Nat /\ <<e, d>>[1] < <<e, d>>[2]
      BY <1>1
    <2>2. <<e, d>> \in OpToRel(<, Nat)
      BY <2>1, Zenon DEF OpToRel
    <2> QED
      BY <1>2, <2>2
  <1>4. ASSUME NEW j \in T PROVE j <= n - d
    <2>1. n - j \in 0 .. n /\ n - (n - j) = j
      OBVIOUS
    <2>2. n - j \in D
      BY <2>1
    <2> QED
      BY <1>1, <1>3, <2>2
  <1> QED
    BY <1>4

\* A journal as the guard writes it: lines with one cid and chat are about one message.
Sound(J) ==
  /\ \E n \in Nat : DOMAIN J = 1 .. n
  /\ \A i \in DOMAIN J : J[i].weight \in Nat /\ J[i].time \in Int
  /\ \A i, j \in DOMAIN J :
       SameSend(J[i], J[j]) => J[i].of = J[j].of /\ J[i].weight = J[j].weight

\* What dropping a replaced unknown outcome drops is counted by a later line.
LEMMA CountedOnce ==
  ASSUME NEW J, Sound(J), NEW t, NEW i \in Counted(J, t)
  PROVE  \E k \in Recent(J, t) :
           J[k].of = J[i].of /\ J[k].chat = J[i].chat /\ J[k].weight = J[i].weight
  <1> DEFINE T == {j \in Counted(J, t) : j = i \/ SameSend(J[j], J[i])}
  <1>1. PICK n \in Nat : DOMAIN J = 1 .. n
    BY DEF Sound
  <1>2. Counted(J, t) \subseteq DOMAIN J
    BY DEF Counted, Entries
  <1>3. T \subseteq 1 .. n /\ T # {}
    BY <1>1, <1>2
  <1>4. PICK k \in T : \A j \in T : j <= k
    BY <1>3, LastOne
  <1>5. ASSUME NEW j \in Counted(J, t), SameSend(J[j], J[k]) PROVE j \in T
    BY <1>5 DEF SameSend
  <1>6. k \in Recent(J, t)
    <2>1. ~ \E j \in Counted(J, t) : j > k /\ SameSend(J[j], J[k])
      BY <1>1, <1>2, <1>3, <1>4, <1>5
    <2> QED
      BY <2>1 DEF Recent
  <1>7. k = i \/ (SameSend(J[k], J[i]) /\ J[k].of = J[i].of /\ J[k].weight = J[i].weight)
    BY <1>2 DEF Sound
  <1> QED
    BY <1>6, <1>7 DEF SameSend

\* Places over a set of lines are finitely many.
LEMMA PlacesFinite ==
  ASSUME NEW J, Sound(J), NEW lines, lines \subseteq DOMAIN J
  PROVE  IsFiniteSet(Places(J, lines))
  <1> DEFINE of == [i \in lines |-> {i} \X (1 .. J[i].weight)]
  <1> DEFINE sets == {of[i] : i \in lines}
  <1>1. IsFiniteSet(lines)
    <2>1. PICK n \in Nat : DOMAIN J = 1 .. n
      BY DEF Sound
    <2>2. IsFiniteSet(1 .. n)
      BY FS_Interval
    <2> QED
      BY <2>1, <2>2, FS_Subset
  <1>2. of \in Surjection(lines, sets)
    BY DEF Surjection
  <1>3. IsFiniteSet(sets)
    BY <1>1, <1>2, FS_Surjection
  <1>4. ASSUME NEW s \in sets PROVE IsFiniteSet(s)
    <2>1. PICK i \in lines : s = {i} \X (1 .. J[i].weight)
      OBVIOUS
    <2>2. IsFiniteSet({i})
      BY FS_Singleton
    <2>3. IsFiniteSet(1 .. J[i].weight)
      BY FS_Interval DEF Sound
    <2> QED
      BY <2>1, <2>2, <2>3, FS_Product
  <1>5. IsFiniteSet(UNION sets)
    BY <1>3, <1>4, FS_UNION
  <1>6. Places(J, lines) = UNION sets
    BY DEF Places
  <1> QED
    BY <1>5, <1>6

\* The messages of an hour have no more places than withinLimit counts at a moment of it.
LEMMA UsedBoundsTheHour ==
  ASSUME NEW J, Sound(J), NEW w \in Int, NEW t \in Int, w <= t, t < w + Hour
  PROVE  /\ IsFiniteSet(MessagePlaces(J, w))
         /\ Used(J, t) \in Nat
         /\ Cardinality(MessagePlaces(J, w)) <= Used(J, t)
  <1> DEFINE M == MessagePlaces(J, w)
             P == Places(J, Recent(J, t))
             At(y) == <<<<J[y[1]].of, J[y[1]].chat>>, y[2]>>
             f == [x \in M |-> CHOOSE y \in P : x = At(y)]
  <1>1. Recent(J, t) \subseteq DOMAIN J
    BY DEF Recent, Counted, Entries
  <1>2. IsFiniteSet(P)
    BY <1>1, PlacesFinite
  <1>3. InWindow(J, w) \subseteq Counted(J, t)
    <2> SUFFICES ASSUME NEW i \in InWindow(J, w) PROVE i \in Counted(J, t)
      OBVIOUS
    <2>1. i \in Entries(J) /\ HoldsPlace(J[i]) /\ w <= J[i].time /\ J[i].time < w + Hour
      BY DEF InWindow
    <2>2. J[i].time \in Int
      BY <2>1 DEF Entries, Sound
    <2>3. Near(J[i].time, t)
      BY <2>1, <2>2, HourAssumption DEF Near
    <2> QED
      BY <2>1, <2>3 DEF Counted
  <1>4. ASSUME NEW x \in M PROVE \E y \in P : x = At(y)
    <2>1. PICK i \in InWindow(J, w) : x \in {<<J[i].of, J[i].chat>>} \X (1 .. J[i].weight)
      BY DEF MessagePlaces
    <2>2. PICK k \in Recent(J, t) :
            J[k].of = J[i].of /\ J[k].chat = J[i].chat /\ J[k].weight = J[i].weight
      BY <1>3, CountedOnce
    <2>3. PICK z \in 1 .. J[i].weight : x = <<<<J[i].of, J[i].chat>>, z>>
      BY <2>1
    <2>4. <<k, z>> \in P
      BY <2>2, <2>3 DEF Places
    <2>5. x = At(<<k, z>>)
      BY <2>2, <2>3
    <2> QED
      BY <2>4, <2>5
  <1>5. \A x \in M : f[x] \in P /\ x = At(f[x])
    <2> SUFFICES ASSUME NEW x \in M PROVE f[x] \in P /\ x = At(f[x])
      OBVIOUS
    <2>1. f[x] = CHOOSE y \in P : x = At(y)
      OBVIOUS
    <2> HIDE DEF M, P, f, At
    <2> QED
      BY <1>4, <2>1
  <1>6. f \in Injection(M, P)
    <2>1. f \in [M -> P]
      BY <1>5
    <2> HIDE DEF M, P, f, At
    <2>2. \A a, b \in M : f[a] = f[b] => a = b
      BY <1>5
    <2> QED
      BY <2>1, <2>2 DEF Injection, IsInjective
  <1>7. IsFiniteSet(M) /\ Cardinality(M) <= Cardinality(P)
    BY <1>2, <1>6, FS_Injection
  <1> QED
    BY <1>2, <1>7, FS_CardinalityType DEF Used

-----------------------------------------------------------------------------
\* What appending a line does to a journal.

LEMMA AppendLine ==
  ASSUME NEW J \in Seq(Line), NEW l \in Line
  PROVE  /\ Append(J, l) \in Seq(Line)
         /\ DOMAIN J = 1 .. Len(J) /\ Len(J) \in Nat
         /\ DOMAIN Append(J, l) = 1 .. Len(J) + 1
         /\ \A i \in 1 .. Len(J) : Append(J, l)[i] = J[i] /\ J[i] \in Line
         /\ Append(J, l)[Len(J) + 1] = l
  OBVIOUS

\* An entry stays one until a line settles the reservation it is.
LEMMA EntryStays ==
  ASSUME NEW J \in Seq(Line), NEW l \in Line, NEW i \in Entries(J),
         J[i].outcome = "reserved" => (l.outcome = "reserved" \/ l.reservation # J[i].reservation)
  PROVE  i \in Entries(Append(J, l)) /\ i \in 1 .. Len(J) /\ Append(J, l)[i] = J[i]
  <1>1. i \in 1 .. Len(J)
    BY AppendLine DEF Entries
  <1>2. i \in DOMAIN Append(J, l) /\ Append(J, l)[i] = J[i]
    BY <1>1, AppendLine
  <1>3. ASSUME J[i].outcome = "reserved", NEW j \in DOMAIN Append(J, l),
               Append(J, l)[j].outcome # "reserved",
               Append(J, l)[j].reservation = J[i].reservation
        PROVE  FALSE
    <2>1. CASE j \in 1 .. Len(J)
      <3>1. Append(J, l)[j] = J[j] /\ j \in DOMAIN J
        BY <2>1, AppendLine
      <3> QED
        BY <1>3, <3>1 DEF Entries
    <2>2. CASE j = Len(J) + 1
      <3>1. Append(J, l)[j] = l
        BY <2>2, AppendLine
      <3> QED
        BY <1>3, <3>1
    <2> QED
      BY <1>3, <2>1, <2>2, AppendLine
  <1> QED
    BY <1>1, <1>2, <1>3 DEF Entries

\* No line but the new one becomes an entry.
LEMMA NoOtherEntry ==
  ASSUME NEW J \in Seq(Line), NEW l \in Line, NEW i \in Entries(Append(J, l)), i # Len(J) + 1
  PROVE  i \in Entries(J) /\ Append(J, l)[i] = J[i]
  <1>1. i \in 1 .. Len(J)
    BY AppendLine DEF Entries
  <1>2. \A j \in 1 .. Len(J) : Append(J, l)[j] = J[j] /\ j \in DOMAIN Append(J, l) /\ j \in DOMAIN J
    BY AppendLine
  <1> QED
    BY <1>1, <1>2, AppendLine DEF Entries

\* A settled line is an entry, and so is a reservation no line settles.
LEMMA NewEntry ==
  ASSUME NEW J \in Seq(Line), NEW l \in Line,
         l.outcome = "reserved" => \A j \in 1 .. Len(J) : J[j].reservation # l.reservation
  PROVE  Len(J) + 1 \in Entries(Append(J, l)) /\ Append(J, l)[Len(J) + 1] = l
  <1>1. Append(J, l)[Len(J) + 1] = l /\ Len(J) + 1 \in DOMAIN Append(J, l)
    BY AppendLine
  <1>2. ASSUME l.outcome = "reserved", NEW j \in DOMAIN Append(J, l),
               Append(J, l)[j].outcome # "reserved", Append(J, l)[j].reservation = l.reservation
        PROVE  FALSE
    <2>1. CASE j \in 1 .. Len(J)
      BY <1>2, <2>1, AppendLine
    <2>2. CASE j = Len(J) + 1
      BY <1>1, <1>2, <2>2
    <2> QED
      BY <1>2, <2>1, <2>2, AppendLine
  <1> QED
    BY <1>1, <1>2 DEF Entries
-----------------------------------------------------------------------------
\* Types.

LEMMA LineOfType ==
  ASSUME TypeOK, NEW r \in Request, NEW cid \in Attempts \cup {NoCid},
         NEW outcome \in Outcomes \cup {"reserved", "refused"}, NEW settles \in Nat
  PROVE  /\ LineOf(r, cid, outcome, settles) \in Line
         /\ LineOf(r, cid, outcome, settles).outcome = outcome
         /\ LineOf(r, cid, outcome, settles).cid = cid
         /\ LineOf(r, cid, outcome, settles).reservation = settles
         /\ LineOf(r, cid, outcome, settles).time = TimeOf(r)
         /\ LineOf(r, cid, outcome, settles).weight = r.weight
         /\ IsAbout(LineOf(r, cid, outcome, settles), r.of, r.chat, r.kind)
  <1>1. TimeOf(r) \in Nat
    BY DEF TypeOK, TimeOf, Request, Immediate
  <1> QED
    BY <1>1 DEF Line, LineOf, IsAbout, Request

\* What a check asks for is the attempt's request, perhaps without its cid.
Asked(a, r) ==
  /\ r \in Request
  /\ r.cid \in {req[a].cid, NoCid}
  /\ \A f \in {"kind", "chat", "weight", "scheduledFor", "of", "route"} : r[f] = req[a][f]

Passes(a) ==
  /\ UNCHANGED <<journal, reservation, told>>
  /\ \/ pc' = [pc EXCEPT ![a] = "serverCheck"]
     \/ /\ pc' = [pc EXCEPT ![a] = "ask"]
        /\ ~ Counts(req[a].kind) \/ req[a].route = "fallback"

Holds(a, r) ==
  /\ Counts(r.kind)
  /\ ~ OverLimit(journal, r, TimeOf(r), Limit)
  /\ pc' = [pc EXCEPT ![a] = "ask"]
  /\ Hold(a, r)
  /\ UNCHANGED told

\* A check lets through without a place, refuses, or holds one.
LEMMA CheckCases ==
  ASSUME TypeOK, NEW a \in Attempts, CommandCheck(a) \/ ServerCheck(a)
  PROVE  /\ pc[a] \in {"check", "serverCheck"}
         /\ UNCHANGED <<now, delivered, req, tries, result>>
         /\ \/ Passes(a)
            \/ \E r : Asked(a, r) /\ \E answer \in {"failed", "outcome_unknown"} : Refuse(a, r, answer)
            \/ \E r : Asked(a, r) /\ Holds(a, r)
  <1>1. req[a] \in Request /\ Asked(a, req[a]) /\ Asked(a, CommandAsks(req[a]))
    <2>1. req[a] \in Request
      BY DEF TypeOK, CommandCheck, ServerCheck
    <2>2. CommandAsks(req[a]) \in Request
      BY <2>1 DEF CommandAsks, Request
    <2> QED
      BY <2>1, <2>2 DEF Asked, CommandAsks, Request
  <1>2. CASE CommandCheck(a)
    <2> DEFINE r == CommandAsks(req[a])
    <2>1. r.kind = req[a].kind /\ r.route = req[a].route
      BY <1>1 DEF Asked
    <2>2. req[a].route \in {"own", "server", "fallback"}
      BY <1>1, GuardAssumption DEF Request
    <2> HIDE DEF r
    <2>4. CASE ~ Counts(r.kind) /\ ~ Refuse(a, r, "failed")
      BY <1>2, <2>1, <2>4 DEF CommandCheck, Passes, r
    <2>5. CASE Refuse(a, r, "failed")
      BY <1>1, <1>2, <2>5 DEF CommandCheck, r
    <2>6. CASE Counts(r.kind) /\ ~ Refuse(a, r, "failed")
      <3>1. /\ ~ OverLimit(journal, r, TimeOf(r), Limit)
            /\ pc' = [pc EXCEPT ![a] = IF r.route = "server" THEN "serverCheck" ELSE "ask"]
            /\ IF r.route = "own" THEN Hold(a, r) ELSE UNCHANGED <<journal, reservation>>
            /\ UNCHANGED told
        BY <1>2, <2>6 DEF CommandCheck, r
      <3>2. CASE r.route = "own"
        <4>1. Holds(a, r)
          BY <2>6, <3>1, <3>2 DEF Holds
        <4> QED
          BY <1>1, <1>2, <4>1 DEF CommandCheck, r
      <3>3. CASE r.route # "own"
        BY <1>2, <2>1, <2>2, <3>1, <3>3 DEF Passes, CommandCheck
      <3> QED
        BY <3>2, <3>3
    <2> QED
      BY <2>4, <2>5, <2>6
  <1>3. CASE ServerCheck(a)
    <2> DEFINE r == req[a]
               answer == IF tries[a] = 2 THEN "outcome_unknown" ELSE "failed"
    <2>1. CASE ~ Counts(r.kind) /\ ~ Refuse(a, r, answer)
      BY <1>3, <2>1 DEF ServerCheck, Passes
    <2>2. CASE Refuse(a, r, answer)
      <3>1. answer \in {"failed", "outcome_unknown"}
        OBVIOUS
      <3> QED
        BY <1>1, <1>3, <2>2, <3>1 DEF ServerCheck
    <2>3. CASE Counts(r.kind) /\ ~ Refuse(a, r, answer)
      <3>1. Holds(a, r)
        BY <1>3, <2>3 DEF ServerCheck, Holds
      <3> QED
        BY <1>1, <1>3, <3>1 DEF ServerCheck
    <2> QED
      BY <2>1, <2>2, <2>3
  <1> QED
    BY <1>2, <1>3
\* An attempt's own line, whatever its check does with it.
LEMMA AskedLine ==
  ASSUME TypeOK, NEW a \in Attempts, NEW r, Asked(a, r),
         NEW outcome \in Outcomes \cup {"reserved", "refused"}, NEW settles \in Nat
  PROVE  /\ LineOf(r, r.cid, outcome, settles) \in Line
         /\ Append(journal, LineOf(r, r.cid, outcome, settles)) \in Seq(Line)
  <1>1. r \in Request /\ r.cid \in Attempts \cup {NoCid}
    BY DEF Asked, Request
  <1>2. LineOf(r, r.cid, outcome, settles) \in Line
    BY <1>1, LineOfType
  <1> QED
    BY <1>2, AppendLine DEF TypeOK

LEMMA TypeInit == Init => TypeOK
  BY DEF Init, TypeOK, Outcomes, Unsettled

LEMMA TypeType ==
  ASSUME TypeOK, NEW a \in Attempts, Type(a)
  PROVE  /\ pc[a] = "idle" /\ pc' = [pc EXCEPT ![a] = "check"]
         /\ \E r \in Request :
              /\ req' = [req EXCEPT ![a] = r]
              /\ r.kind # "delete" => r.weight = 1
              /\ r.cid = IF r.kind \in WithCid THEN r.of ELSE NoCid
              /\ r.of = a \/ (Repeats /\ pc[r.of] # "idle" /\ req[r.of].kind = r.kind)
              /\ r.given <=> r.of # a
              /\ r.of # a => told[r.of] = "outcome_unknown"
  <1>1. PICK kind \in SendKinds, chat \in Chats, route \in Routes :
        \E weight \in IF kind = "delete" THEN 1 .. MaxWeight ELSE {1},
           of \in {a} \cup Repeatable(kind) :
        \E due \in {Immediate} \cup
                   (IF kind = "message" /\ of = a THEN {now + d : d \in Ahead} ELSE {}) :
          req' = [req EXCEPT ![a] =
                   [ kind |-> kind, chat |-> chat, cid |-> IF kind \in WithCid THEN of ELSE NoCid,
                     weight |-> weight, scheduledFor |-> due, of |-> of, given |-> of # a,
                     route |-> route ]]
    BY Zenon DEF Type
  <1>2. PICK weight \in IF kind = "delete" THEN 1 .. MaxWeight ELSE {1},
             of \in {a} \cup Repeatable(kind) :
        \E due \in {Immediate} \cup
                   (IF kind = "message" /\ of = a THEN {now + d : d \in Ahead} ELSE {}) :
          req' = [req EXCEPT ![a] =
                   [ kind |-> kind, chat |-> chat, cid |-> IF kind \in WithCid THEN of ELSE NoCid,
                     weight |-> weight, scheduledFor |-> due, of |-> of, given |-> of # a,
                     route |-> route ]]
    BY <1>1, Zenon
  <1>3. PICK due \in {Immediate} \cup
                     (IF kind = "message" /\ of = a THEN {now + d : d \in Ahead} ELSE {}) :
          req' = [req EXCEPT ![a] =
                   [ kind |-> kind, chat |-> chat, cid |-> IF kind \in WithCid THEN of ELSE NoCid,
                     weight |-> weight, scheduledFor |-> due, of |-> of, given |-> of # a,
                     route |-> route ]]
    BY <1>2, Zenon
  <1> DEFINE r == [ kind |-> kind, chat |-> chat, cid |-> IF kind \in WithCid THEN of ELSE NoCid,
                    weight |-> weight, scheduledFor |-> due, of |-> of, given |-> of # a,
                    route |-> route ]
  <1>4. due \in Nat \cup {Immediate}
    BY GuardAssumption DEF TypeOK
  <1>5. weight \in Nat \ {0} /\ (kind # "delete" => weight = 1)
    BY GuardAssumption
  <1>6. of \in Attempts
    BY DEF Repeatable
  <1>7. r \in Request
    BY <1>4, <1>5, <1>6, GuardAssumption DEF Request
  <1>8. of = a \/ (Repeats /\ pc[of] # "idle" /\ req[of].kind = kind)
    <2> SUFFICES ASSUME of # a PROVE Repeats /\ pc[of] # "idle" /\ req[of].kind = kind
      OBVIOUS
    <2>1. of \in Repeatable(kind)
      OBVIOUS
    <2>2. Repeats /\ of \in Attempts /\ kind \in WithCid /\ req[of].kind = kind
      BY <2>1 DEF Repeatable
    <2>3. req[of] # NoRequest
      BY <2>2 DEF NoRequest, WithCid
    <2> QED
      BY <2>2, <2>3 DEF TypeOK
  <1>9. of # a => told[of] = "outcome_unknown"
    BY DEF Repeatable
  <1>10. r.given <=> r.of # a
    OBVIOUS
  <1> QED
    BY ZenonT(60), <1>3, <1>5, <1>7, <1>8, <1>9, <1>10 DEF Type
\* Every step keeps the types.
LEMMA TypeStep == TypeOK /\ [Next]_vars => TypeOK'
  <1> SUFFICES ASSUME TypeOK, [Next]_vars PROVE TypeOK'
    OBVIOUS
  <1>1. CASE Tick
    BY <1>1 DEF TypeOK, Tick
  <1>2. ASSUME NEW a \in Attempts, Type(a) PROVE TypeOK'
    <2>1. PICK r \in Request : req' = [req EXCEPT ![a] = r]
      BY <1>2, TypeType
    <2>2. pc' = [pc EXCEPT ![a] = "check"]
          /\ UNCHANGED <<now, journal, delivered, tries, reservation, result, told>>
      BY <1>2 DEF Type
    <2> QED
      BY <2>1, <2>2 DEF TypeOK
  <1>3. ASSUME NEW a \in Attempts, CommandCheck(a) \/ ServerCheck(a) PROVE TypeOK'
    <2>1. pc[a] \in {"check", "serverCheck"} /\ UNCHANGED <<now, delivered, req, tries, result>>
      BY <1>3, CheckCases
    <2>2. CASE Passes(a)
      BY <2>1, <2>2 DEF Passes, TypeOK
    <2>3. ASSUME NEW r, Asked(a, r), NEW answer \in {"failed", "outcome_unknown"},
                 Refuse(a, r, answer)
          PROVE  TypeOK'
      <3>1. journal' \in Seq(Line)
        BY <2>3, AskedLine DEF Refuse, Unsettled
      <3> QED
        BY <2>1, <2>3, <3>1 DEF Refuse, TypeOK, Unsettled, Outcomes
    <2>4. ASSUME NEW r, Asked(a, r), Holds(a, r) PROVE TypeOK'
      <3>1. Len(journal) + 1 \in Nat
        BY DEF TypeOK
      <3>2. journal' \in Seq(Line)
        <4>1. Append(journal, LineOf(r, r.cid, "reserved", Len(journal) + 1)) \in Seq(Line)
          BY <2>4, <3>1, AskedLine
        <4> QED
          BY <2>4, <4>1 DEF Holds, Hold, TypeOK
      <3>3. reservation' \in [Attempts -> Nat]
        BY <2>4, <3>1 DEF Holds, Hold, TypeOK, Unsettled
      <3> QED
        BY <2>1, <2>4, <3>2, <3>3 DEF Holds, TypeOK
    <2> QED
      BY <1>3, <2>2, <2>3, <2>4, CheckCases
  <1>4. ASSUME NEW a \in Attempts, MaxAnswers(a) PROVE TypeOK'
    <2>1. Delivery(a) \in [of : Attempts, chat : Chats, kind : Kinds]
      BY <1>4 DEF MaxAnswers, Delivery, TypeOK, Request
    <2>2. PICK answer \in {"sent", "failed"} :
            /\ told' = [told EXCEPT ![a] = answer]
            /\ result' = [result EXCEPT ![a] = IF ByServer(a) THEN "sent" ELSE answer]
      BY <1>4 DEF MaxAnswers
    <2> QED
      BY <1>4, <2>1, <2>2 DEF MaxAnswers, TypeOK, Outcomes
  <1>5. ASSUME NEW a \in Attempts, MaxRefuses(a) PROVE TypeOK'
    BY <1>5 DEF MaxRefuses, TypeOK, Outcomes
  <1>6. ASSUME NEW a \in Attempts, MaxNotReady(a) PROVE TypeOK'
    <2>1. reservation' \in [Attempts -> Nat]
      BY <1>6 DEF MaxNotReady, TypeOK, Unsettled
    <2>2. told' \in [Attempts -> Outcomes \cup {"none"}]
      BY <1>6 DEF MaxNotReady, TypeOK, Outcomes
    <2>3. pc[a] = "ask" /\ \E to \in {"serverCheck", "done"} : pc' = [pc EXCEPT ![a] = to]
      BY <1>6 DEF MaxNotReady
    <2>4. UNCHANGED <<now, journal, delivered, req, tries, result>>
      BY <1>6 DEF MaxNotReady
    <2> QED
      BY <2>1, <2>2, <2>3, <2>4 DEF TypeOK
  <1>7. ASSUME NEW a \in Attempts, NoAnswer(a) PROVE TypeOK'
    <2>1. Delivery(a) \in [of : Attempts, chat : Chats, kind : Kinds]
      BY <1>7 DEF NoAnswer, Delivery, TypeOK, Request
    <2>2. delivered' \subseteq [of : Attempts, chat : Chats, kind : Kinds]
      BY <1>7, <2>1 DEF NoAnswer, TypeOK
    <2>3. CASE AsksAgain(a) /\ ~ ByServer(a)
      BY <1>7, <2>2, <2>3 DEF NoAnswer, TypeOK
    <2>4. CASE ~ (AsksAgain(a) /\ ~ ByServer(a))
      BY ZenonT(60), <1>7, <2>2, <2>4 DEF NoAnswer, TypeOK, Outcomes
    <2> QED
      BY <2>3, <2>4
  <1>8. ASSUME NEW a \in Attempts, Record(a) PROVE TypeOK'
    <2>1. req[a] \in Request /\ req[a].cid \in Attempts \cup {NoCid}
          /\ result[a] \in Outcomes /\ reservation[a] \in Nat
      BY <1>8 DEF Record, TypeOK, Request
    <2>2. journal' \in Seq(Line)
      BY <1>8, <2>1, LineOfType, AppendLine DEF Record, TypeOK
    <2> QED
      BY <1>8, <2>2 DEF Record, AfterRecord, TypeOK, Unsettled
  <1>9. ASSUME NEW a \in Attempts, RecordFails(a) PROVE TypeOK'
    BY <1>9 DEF RecordFails, AfterRecord, TypeOK, Unsettled
  <1>10. ASSUME NEW a \in Attempts, Crash(a) PROVE TypeOK'
    BY <1>10 DEF Crash, InFlight, TypeOK
  <1>11. CASE UNCHANGED vars
    BY <1>11 DEF vars, TypeOK
  <1> QED
    BY <1>1, <1>2, <1>3, <1>4, <1>5, <1>6, <1>7, <1>8, <1>9, <1>10, <1>11 DEF Next, Step

\* Every variable keeps its type.
THEOREM TypeCorrect == Spec => []TypeOK
  BY TypeInit, TypeStep, PTL DEF Spec
-----------------------------------------------------------------------------
\* Reservations.

\* The line a check appends, refused or reserved.
LEMMA CheckLine ==
  ASSUME TypeOK, NEW a \in Attempts, NEW r, Asked(a, r),
         NEW outcome \in {"reserved", "refused"}, NEW settles \in Nat
  PROVE  \E l \in Line :
           /\ l = LineOf(r, r.cid, outcome, settles)
           /\ l.outcome = outcome /\ l.reservation = settles
           /\ l.cid = r.cid /\ l.weight = r.weight /\ l.time = TimeOf(r)
           /\ l.kind = r.kind
           /\ IsAbout(l, req[a].of, req[a].chat, req[a].kind)
  <1>1. r \in Request /\ r.cid \in Attempts \cup {NoCid}
    BY DEF Asked, Request
  <1>2. r.of = req[a].of /\ r.chat = req[a].chat /\ r.kind = req[a].kind
    BY DEF Asked
  <1> DEFINE l == LineOf(r, r.cid, outcome, settles)
  <1>3. /\ l \in Line /\ l.outcome = outcome /\ l.cid = r.cid /\ l.reservation = settles
        /\ l.time = TimeOf(r) /\ l.weight = r.weight /\ IsAbout(l, r.of, r.chat, r.kind)
    <2>1. outcome \in Outcomes \cup {"reserved", "refused"}
      OBVIOUS
    <2> HIDE DEF l
    <2>2. \A x \in {l} : x = LineOf(r, r.cid, outcome, settles)
      BY DEF l
    <2> QED
      BY <1>1, <2>1, <2>2, LineOfType
  <1>4. l = LineOf(r, r.cid, outcome, settles)
    OBVIOUS
  <1> HIDE DEF l
  <1>5. l.kind = r.kind /\ IsAbout(l, req[a].of, req[a].chat, req[a].kind)
    BY <1>2, <1>3 DEF IsAbout
  <1> QED
    BY <1>3, <1>4, <1>5, Zenon

\* The line a command records.
LEMMA RecordLine ==
  ASSUME TypeOK, NEW a \in Attempts, Record(a)
  PROVE  \E l \in Line :
           /\ journal' = Append(journal, l)
           /\ l.outcome = result[a] /\ l.outcome # "reserved" /\ l.reservation = reservation[a]
           /\ l.cid = req[a].cid /\ l.weight = req[a].weight /\ l.time = TimeOf(req[a])
           /\ IsAbout(l, req[a].of, req[a].chat, req[a].kind)
  <1>1. req[a] \in Request /\ req[a].cid \in Attempts \cup {NoCid}
        /\ result[a] \in Outcomes /\ reservation[a] \in Nat
    BY DEF Record, TypeOK, Request
  <1> DEFINE l == LineOf(req[a], req[a].cid, result[a], reservation[a])
  <1>2. journal' = Append(journal, l)
    BY DEF Record
  <1>3. /\ l \in Line /\ l.outcome = result[a] /\ l.cid = req[a].cid
        /\ l.reservation = reservation[a] /\ l.time = TimeOf(req[a])
        /\ l.weight = req[a].weight /\ IsAbout(l, req[a].of, req[a].chat, req[a].kind)
    BY <1>1, LineOfType
  <1> HIDE DEF l
  <1> QED
    BY <1>1, <1>2, <1>3 DEF Outcomes

LEMMA NumberedAppend ==
  ASSUME TypeOK, LinesAreNumbered, NEW l \in Line, journal' = Append(journal, l),
         l.reservation <= Len(journal) + 1,
         l.outcome = "reserved" => l.reservation = Len(journal) + 1 /\ Counts(l.kind)
  PROVE  LinesAreNumbered'
  <1> SUFFICES ASSUME NEW i \in DOMAIN journal'
               PROVE  /\ journal'[i].reservation <= i
                      /\ journal'[i].outcome = "reserved" =>
                           journal'[i].reservation = i /\ Counts(journal'[i].kind)
    BY DEF LinesAreNumbered
  <1>1. journal \in Seq(Line)
    BY DEF TypeOK
  <1>2. CASE i \in 1 .. Len(journal)
    BY <1>1, <1>2, AppendLine DEF LinesAreNumbered
  <1>3. CASE i = Len(journal) + 1
    BY <1>1, <1>3, AppendLine
  <1> QED
    BY <1>1, <1>2, <1>3, AppendLine

LEMMA NumberedStep ==
  ASSUME TypeOK, LinesAreNumbered, ReservationsAreOpen, [Next]_vars
  PROVE  LinesAreNumbered'
  <1>1. CASE UNCHANGED journal
    BY <1>1 DEF LinesAreNumbered
  <1>2. journal \in Seq(Line) /\ Len(journal) + 1 \in Nat
    BY DEF TypeOK
  <1>3. ASSUME NEW a \in Attempts, CommandCheck(a) \/ ServerCheck(a) PROVE LinesAreNumbered'
    <2>1. CASE Passes(a)
      BY <1>1, <2>1 DEF Passes
    <2>2. ASSUME NEW r, Asked(a, r), NEW answer, Refuse(a, r, answer) PROVE LinesAreNumbered'
      <3>1. PICK l \in Line : l = LineOf(r, r.cid, "refused", Unsettled)
                              /\ l.outcome = "refused" /\ l.reservation = Unsettled
        BY <2>2, CheckLine DEF Unsettled
      <3>2. journal' = Append(journal, l)
        BY <2>2, <3>1 DEF Refuse
      <3> QED
        BY <1>2, <3>1, <3>2, NumberedAppend DEF Unsettled
    <2>3. ASSUME NEW r, Asked(a, r), Holds(a, r) PROVE LinesAreNumbered'
      <3>1. CASE FreeRetry(journal, r, TimeOf(r))
        BY <1>1, <2>3, <3>1 DEF Holds, Hold
      <3>2. CASE ~ FreeRetry(journal, r, TimeOf(r))
        <4>1. PICK l \in Line : /\ l = LineOf(r, r.cid, "reserved", Len(journal) + 1)
                                /\ l.outcome = "reserved" /\ l.reservation = Len(journal) + 1
                                /\ l.kind = r.kind
          BY <1>2, <2>3, CheckLine
        <4>2. journal' = Append(journal, l) /\ Counts(l.kind)
          BY <2>3, <3>2, <4>1 DEF Holds, Hold
        <4> QED
          BY <1>2, <4>1, <4>2, NumberedAppend
      <3> QED
        BY <3>1, <3>2
    <2> QED
      BY <1>3, <2>1, <2>2, <2>3, CheckCases
  <1>4. ASSUME NEW a \in Attempts, Record(a) PROVE LinesAreNumbered'
    <2>1. PICK l \in Line : journal' = Append(journal, l) /\ l.outcome # "reserved"
                            /\ l.reservation = reservation[a]
      BY <1>4, RecordLine
    <2>2. reservation[a] <= Len(journal) + 1
      <3>1. reservation[a] = Unsettled \/ reservation[a] \in 1 .. Len(journal)
        BY <1>2, AppendLine DEF ReservationsAreOpen, Entries
      <3> QED
        BY <1>2, <3>1 DEF Unsettled
    <2> QED
      BY <2>1, <2>2, NumberedAppend
  <1>5. ASSUME NEW a \in Attempts,
               Type(a) \/ MaxAnswers(a) \/ MaxRefuses(a) \/ MaxNotReady(a) \/ NoAnswer(a)
                 \/ RecordFails(a) \/ Crash(a)
        PROVE  UNCHANGED journal
    BY <1>5 DEF Type, MaxAnswers, MaxRefuses, MaxNotReady, NoAnswer, RecordFails, Crash
  <1> QED
    BY <1>1, <1>3, <1>4, <1>5 DEF Next, Step, Tick, vars
\* A step that appends one line, settling at most the reservation its attempt gives up.
LEMMA OpenAppend ==
  ASSUME TypeOK, LinesAreNumbered, ReservationsAreOpen,
         NEW a \in Attempts, NEW l \in Line, journal' = Append(journal, l),
         l.outcome = "reserved" \/ l.reservation = Unsettled \/ l.reservation = reservation[a],
         reservation' = [reservation EXCEPT ![a] = Unsettled],
         \A b \in Attempts : b # a => pc'[b] = pc[b] /\ req'[b] = req[b]
  PROVE  ReservationsAreOpen'
  <1> SUFFICES ASSUME NEW b \in Attempts, reservation'[b] # Unsettled
               PROVE  /\ pc'[b] \in {"ask", "record", "dead"}
                      /\ reservation'[b] \in Entries(journal')
                      /\ journal'[reservation'[b]].outcome = "reserved"
                      /\ IsAbout(journal'[reservation'[b]], req'[b].of, req'[b].chat, req'[b].kind)
                      /\ \A c \in Attempts : reservation'[c] = reservation'[b] => c = b
    BY Zenon DEF ReservationsAreOpen
  <1>1. journal \in Seq(Line) /\ reservation \in [Attempts -> Nat]
    BY DEF TypeOK
  <1>2. b # a /\ reservation'[b] = reservation[b] /\ pc'[b] = pc[b] /\ req'[b] = req[b]
    BY <1>1
  <1> DEFINE i == reservation[b]
  <1>3. /\ i \in Entries(journal) /\ journal[i].outcome = "reserved"
        /\ pc[b] \in {"ask", "record", "dead"}
        /\ IsAbout(journal[i], req[b].of, req[b].chat, req[b].kind)
        /\ \A c \in Attempts : reservation[c] = i => c = b
    BY <1>2 DEF ReservationsAreOpen
  <1>4. journal[i].reservation = i /\ i # Unsettled
    BY <1>2, <1>3 DEF LinesAreNumbered, Entries
  <1>5. l.outcome = "reserved" \/ l.reservation # i
    BY <1>2, <1>3, <1>4
  <1>6. i \in Entries(journal') /\ journal'[i] = journal[i]
    BY <1>1, <1>3, <1>4, <1>5, EntryStays
  <1>7. \A c \in Attempts : reservation'[c] = i => c = b
    BY <1>1, <1>2, <1>3, <1>4
  <1> QED
    BY <1>2, <1>3, <1>6, <1>7

\* A step that leaves the journal and gives no reservation.
LEMMA OpenQuiet ==
  ASSUME TypeOK, ReservationsAreOpen, UNCHANGED journal, NEW a \in Attempts,
         reservation' \in {reservation, [reservation EXCEPT ![a] = Unsettled]},
         reservation'[a] # Unsettled =>
           pc'[a] \in {"ask", "record", "dead"} /\ req'[a] = req[a],
         \A b \in Attempts : b # a => pc'[b] = pc[b] /\ req'[b] = req[b]
  PROVE  ReservationsAreOpen'
  <1>1. reservation \in [Attempts -> Nat]
    BY DEF TypeOK
  <1>2. \A b \in Attempts : reservation'[b] # Unsettled =>
          /\ reservation'[b] = reservation[b]
          /\ req'[b] = req[b]
          /\ pc'[b] \in {"ask", "record", "dead"}
    BY <1>1 DEF ReservationsAreOpen
  <1>3. \A b, c \in Attempts : reservation'[b] # Unsettled /\ reservation'[c] = reservation'[b] =>
          reservation[c] = reservation[b]
    BY <1>1, <1>2
  <1> QED
    BY <1>2, <1>3 DEF ReservationsAreOpen

LEMMA OpenHold ==
  ASSUME TypeOK, LinesAreNumbered, ReservationsAreOpen,
         NEW a \in Attempts, NEW r, Asked(a, r), Holds(a, r), ~ FreeRetry(journal, r, TimeOf(r)),
         UNCHANGED req, reservation[a] = Unsettled
  PROVE  ReservationsAreOpen'
  <1>1. journal \in Seq(Line) /\ reservation \in [Attempts -> Nat] /\ Len(journal) + 1 \in Nat
        /\ pc \in [Attempts -> {"idle", "check", "serverCheck", "ask", "record", "done", "dead"}]
    BY DEF TypeOK
  <1>2. PICK l \in Line : /\ l = LineOf(r, r.cid, "reserved", Len(journal) + 1)
                          /\ l.outcome = "reserved" /\ l.reservation = Len(journal) + 1
                          /\ IsAbout(l, req[a].of, req[a].chat, req[a].kind)
    BY <1>1, CheckLine
  <1>3. /\ journal' = Append(journal, l)
        /\ reservation' = [reservation EXCEPT ![a] = Len(journal) + 1]
        /\ pc' = [pc EXCEPT ![a] = "ask"]
    BY <1>2 DEF Holds, Hold
  <1>4. ASSUME NEW j \in 1 .. Len(journal) PROVE journal[j].reservation # l.reservation
    <2>1. journal[j] \in Line /\ j \in DOMAIN journal
      BY <1>1, AppendLine
    <2>2. journal[j].reservation \in Nat /\ journal[j].reservation <= j
      BY <2>1 DEF LinesAreNumbered, Line
    <2> QED
      BY <1>1, <1>2, <2>2
  <1>5. Len(journal) + 1 \in Entries(journal') /\ journal'[Len(journal) + 1] = l
    BY <1>1, <1>3, <1>4, NewEntry
  <1>6. \A b \in Attempts : reservation[b] # Unsettled => reservation[b] \in 1 .. Len(journal)
    BY <1>1, AppendLine DEF ReservationsAreOpen, Entries
  <1>7. \A b \in Attempts : reservation[b] # Len(journal) + 1
    BY <1>1, <1>6 DEF Unsettled
  <1>8. ASSUME NEW b \in Attempts, b # a, reservation[b] # Unsettled
        PROVE  reservation[b] \in Entries(journal') /\ journal'[reservation[b]] = journal[reservation[b]]
    <2>1. reservation[b] \in Entries(journal)
      BY <1>8 DEF ReservationsAreOpen
    <2> QED
      BY <1>1, <1>2, <1>3, <2>1, EntryStays
  <1> SUFFICES ASSUME NEW b \in Attempts, reservation'[b] # Unsettled
               PROVE  /\ pc'[b] \in {"ask", "record", "dead"}
                      /\ reservation'[b] \in Entries(journal')
                      /\ journal'[reservation'[b]].outcome = "reserved"
                      /\ IsAbout(journal'[reservation'[b]], req'[b].of, req'[b].chat, req'[b].kind)
                      /\ \A c \in Attempts : reservation'[c] = reservation'[b] => c = b
    BY Zenon DEF ReservationsAreOpen
  <1>9. CASE b = a
    BY <1>1, <1>2, <1>3, <1>5, <1>7, <1>9
  <1>10. CASE b # a
    <2>1. reservation'[b] = reservation[b] /\ pc'[b] = pc[b]
      BY <1>1, <1>3, <1>10
    <2>2. \A c \in Attempts : reservation'[c] = reservation'[b] => c = b
      BY <1>1, <1>3, <1>7, <1>10, <2>1 DEF ReservationsAreOpen
    <2> QED
      BY <1>8, <1>10, <2>1, <2>2 DEF ReservationsAreOpen
  <1> QED
    BY <1>9, <1>10
LEMMA OpenStep ==
  ASSUME TypeOK, LinesAreNumbered, ReservationsAreOpen, [Next]_vars
  PROVE  ReservationsAreOpen'
  <1>1. CASE Tick \/ UNCHANGED vars
    BY <1>1 DEF Tick, vars, ReservationsAreOpen
  <1>2. \A a \in Attempts : pc[a] \notin {"ask", "record", "dead"} => reservation[a] = Unsettled
    BY DEF ReservationsAreOpen
  <1>3. ASSUME NEW a \in Attempts, Type(a) PROVE ReservationsAreOpen'
    <2>1. PICK r \in Request : req' = [req EXCEPT ![a] = r]
      BY <1>3, TypeType
    <2>2. /\ pc[a] = "idle" /\ pc' = [pc EXCEPT ![a] = "check"]
          /\ UNCHANGED <<journal, reservation>>
      BY <1>3 DEF Type
    <2>3. \A b \in Attempts : b # a => pc'[b] = pc[b] /\ req'[b] = req[b]
      BY <2>1, <2>2 DEF TypeOK
    <2> QED
      BY <1>2, <2>2, <2>3, OpenQuiet
  <1>4. ASSUME NEW a \in Attempts, CommandCheck(a) \/ ServerCheck(a) PROVE ReservationsAreOpen'
    <2>1. /\ pc[a] \in {"check", "serverCheck"} /\ reservation[a] = Unsettled
          /\ UNCHANGED req
      BY <1>2, <1>4, CheckCases
    <2>2. CASE Passes(a)
      <3>1. UNCHANGED <<journal, reservation>> /\ \A b \in Attempts : b # a => pc'[b] = pc[b]
        BY <2>2 DEF Passes, TypeOK
      <3> QED
        BY <2>1, <3>1, OpenQuiet
    <2>3. ASSUME NEW r, Asked(a, r), NEW answer, Refuse(a, r, answer) PROVE ReservationsAreOpen'
      <3>1. PICK l \in Line : l = LineOf(r, r.cid, "refused", Unsettled) /\ l.reservation = Unsettled
        BY <2>3, CheckLine DEF Unsettled
      <3>2. /\ journal' = Append(journal, l)
            /\ reservation' = [reservation EXCEPT ![a] = Unsettled]
            /\ \A b \in Attempts : b # a => pc'[b] = pc[b]
        BY <2>3, <3>1 DEF Refuse, TypeOK
      <3> QED
        BY <2>1, <3>1, <3>2, OpenAppend
    <2>4. ASSUME NEW r, Asked(a, r), Holds(a, r) PROVE ReservationsAreOpen'
      <3>1. CASE FreeRetry(journal, r, TimeOf(r))
        <4>1. /\ UNCHANGED journal /\ reservation' = [reservation EXCEPT ![a] = Unsettled]
              /\ \A b \in Attempts : b # a => pc'[b] = pc[b]
          BY <2>4, <3>1 DEF Holds, Hold, TypeOK
        <4>2. reservation'[a] = Unsettled
          BY <4>1 DEF TypeOK
        <4> QED
          BY <2>1, <4>1, <4>2, OpenQuiet
      <3>2. CASE ~ FreeRetry(journal, r, TimeOf(r))
        BY <2>1, <2>4, <3>2, OpenHold
      <3> QED
        BY <3>1, <3>2
    <2> QED
      BY <1>4, <2>2, <2>3, <2>4, CheckCases
  <1>5. ASSUME NEW a \in Attempts, MaxAnswers(a) \/ MaxRefuses(a) \/ NoAnswer(a) \/ Crash(a)
        PROVE  ReservationsAreOpen'
    <2>1. /\ UNCHANGED <<journal, reservation, req>>
          /\ UNCHANGED pc \/ \E to \in {"record", "dead"} : pc' = [pc EXCEPT ![a] = to]
      BY <1>5 DEF MaxAnswers, MaxRefuses, NoAnswer, Crash
    <2>2. /\ \A b \in Attempts : b # a => pc'[b] = pc[b]
          /\ reservation[a] # Unsettled => pc'[a] \in {"ask", "record", "dead"}
      BY <1>2, <2>1 DEF TypeOK
    <2> QED
      BY <2>1, <2>2, OpenQuiet
  <1>6. ASSUME NEW a \in Attempts, MaxNotReady(a) \/ RecordFails(a) PROVE ReservationsAreOpen'
    <2>1. /\ UNCHANGED <<journal, req>> /\ reservation' = [reservation EXCEPT ![a] = Unsettled]
          /\ \E to \in {"serverCheck", "done"} : pc' = [pc EXCEPT ![a] = to]
      BY <1>6 DEF MaxNotReady, RecordFails, AfterRecord
    <2>2. /\ \A b \in Attempts : b # a => pc'[b] = pc[b]
          /\ reservation'[a] = Unsettled
      BY <2>1 DEF TypeOK
    <2> QED
      BY <2>1, <2>2, OpenQuiet
  <1>7. ASSUME NEW a \in Attempts, Record(a) PROVE ReservationsAreOpen'
    <2>1. PICK l \in Line : journal' = Append(journal, l) /\ l.reservation = reservation[a]
      BY <1>7, RecordLine
    <2>2. /\ reservation' = [reservation EXCEPT ![a] = Unsettled] /\ UNCHANGED req
          /\ \A b \in Attempts : b # a => pc'[b] = pc[b]
      BY <1>7 DEF Record, AfterRecord, TypeOK
    <2> QED
      BY <2>1, <2>2, OpenAppend
  <1> QED
    BY <1>1, <1>3, <1>4, <1>5, <1>6, <1>7 DEF Next, Step

-----------------------------------------------------------------------------
\* Cids.

LEMMA LineInJournal ==
  ASSUME TypeOK, NEW i \in DOMAIN journal
  PROVE  journal[i] \in Line /\ i \in 1 .. Len(journal)
  BY DEF TypeOK

\* A step that appends a line about the request of an attempt under way.
LEMMA CidsAppend ==
  ASSUME TypeOK, CidsNameMessages, UNCHANGED req, NEW a \in Attempts, pc[a] # "idle",
         \A b \in Attempts : pc[b] # "idle" => pc'[b] # "idle",
         \A b \in Attempts : pc'[b] # "idle" => pc[b] # "idle",
         NEW l \in Line, journal' = Append(journal, l),
         l.cid \in {req[a].cid, NoCid}, l.weight = req[a].weight,
         IsAbout(l, req[a].of, req[a].chat, req[a].kind)
  PROVE  CidsNameMessages'
  <1>1. journal \in Seq(Line)
    BY DEF TypeOK
  <1>2. ASSUME NEW i \in DOMAIN journal'
        PROVE  /\ journal'[i].cid # NoCid => journal'[i].cid = journal'[i].of /\ journal'[i].weight = 1
               /\ pc'[journal'[i].of] # "idle"
               /\ req'[journal'[i].of].kind = journal'[i].kind
    <2>1. CASE i \in 1 .. Len(journal)
      <3>1. journal'[i] = journal[i] /\ journal[i] \in Line /\ i \in DOMAIN journal
        BY <1>1, <2>1, AppendLine
      <3> QED
        BY <3>1 DEF CidsNameMessages, Line
    <2>2. CASE i = Len(journal) + 1
      <3>1. journal'[i] = l
        BY <1>1, <2>2, AppendLine
      <3>2. req[a] \in Request
        BY DEF TypeOK
      <3>3. l.of = req[a].of /\ l.kind = req[a].kind
        BY DEF IsAbout
      <3>4. l.cid # NoCid => l.cid = l.of /\ l.weight = 1
        BY <3>3 DEF CidsNameMessages, WithCid
      <3> QED
        BY <3>1, <3>2, <3>3, <3>4 DEF CidsNameMessages, Request
    <2> QED
      BY <1>1, <2>1, <2>2, AppendLine
  <1>3. \A b \in Attempts : pc'[b] # "idle" => req[b] \in Request
    BY DEF TypeOK
  <1> QED
    BY <1>2, <1>3 DEF CidsNameMessages, Request

\* A step that leaves the journal and the requests, and starts no attempt.
LEMMA CidsQuiet ==
  ASSUME TypeOK, CidsNameMessages, UNCHANGED <<journal, req>>,
         \A b \in Attempts : pc'[b] # "idle" <=> pc[b] # "idle"
  PROVE  CidsNameMessages'
  <1>1. \A i \in DOMAIN journal : journal[i].of \in Attempts
    BY LineInJournal DEF Line
  <1>2. \A b \in Attempts : pc[b] # "idle" => req[b].of \in Attempts
    BY DEF TypeOK, Request
  <1> QED
    BY <1>1, <1>2 DEF CidsNameMessages
LEMMA CidsStep ==
  ASSUME TypeOK, CidsNameMessages, [Next]_vars
  PROVE  CidsNameMessages'
  <1>1. CASE Tick \/ UNCHANGED vars
    BY <1>1 DEF Tick, vars, CidsNameMessages
  <1>2. ASSUME NEW a \in Attempts, Type(a) PROVE CidsNameMessages'
    <2>1. /\ pc[a] = "idle" /\ pc' = [pc EXCEPT ![a] = "check"] /\ UNCHANGED journal
      BY <1>2 DEF Type
    <2>2. PICK r \in Request :
              /\ req' = [req EXCEPT ![a] = r]
              /\ r.kind # "delete" => r.weight = 1
              /\ r.cid = IF r.kind \in WithCid THEN r.of ELSE NoCid
              /\ r.of = a \/ (Repeats /\ pc[r.of] # "idle" /\ req[r.of].kind = r.kind)
              /\ r.given <=> r.of # a
              /\ r.of # a => told[r.of] = "outcome_unknown"
      BY <1>2, TypeType
    <2>3. /\ \A b \in Attempts : pc'[b] # "idle" <=> (b = a \/ pc[b] # "idle")
          /\ \A b \in Attempts : b # a => req'[b] = req[b]
          /\ req'[a] = r
      BY <2>1, <2>2 DEF TypeOK
    <2>4. ASSUME NEW i \in DOMAIN journal'
          PROVE  /\ journal'[i].cid # NoCid =>
                      journal'[i].cid = journal'[i].of /\ journal'[i].weight = 1
                 /\ pc'[journal'[i].of] # "idle"
                 /\ req'[journal'[i].of].kind = journal'[i].kind
      <3>1. journal[i].of \in Attempts /\ journal[i].of # a
        BY <2>1, LineInJournal DEF Line, CidsNameMessages
      <3> QED
        BY <2>1, <2>3, <3>1 DEF CidsNameMessages
    <2>5. ASSUME NEW b \in Attempts, pc'[b] # "idle"
          PROVE  /\ req'[b].cid = (IF req'[b].kind \in WithCid THEN req'[b].of ELSE NoCid)
                 /\ req'[b].kind # "delete" => req'[b].weight = 1
                 /\ pc'[req'[b].of] # "idle"
                 /\ req'[req'[b].of].kind = req'[b].kind
      <3>1. CASE b = a
        <4>1. r.of \in Attempts
          BY DEF Request
        <4> QED
          BY <2>2, <2>3, <3>1, <4>1
      <3>2. CASE b # a
        <4>1. pc[b] # "idle" /\ req[b] \in Request
          BY <2>3, <2>5, <3>2 DEF TypeOK
        <4>2. req[b].of \in Attempts /\ req[b].of # a
          BY <2>1, <4>1 DEF Request, CidsNameMessages
        <4> QED
          BY <2>3, <3>2, <4>1, <4>2 DEF CidsNameMessages
      <3> QED
        BY <3>1, <3>2
    <2> QED
      BY <2>4, <2>5, Zenon DEF CidsNameMessages
  <1>3. ASSUME NEW a \in Attempts, CommandCheck(a) \/ ServerCheck(a) PROVE CidsNameMessages'
    <2>1. pc[a] # "idle" /\ UNCHANGED req
      BY <1>3, CheckCases
    <2>2. CASE Passes(a)
      <3>1. UNCHANGED journal /\ \A b \in Attempts : pc'[b] # "idle" <=> pc[b] # "idle"
        BY <2>1, <2>2 DEF Passes, TypeOK
      <3> QED
        BY <2>1, <3>1, CidsQuiet
    <2>3. ASSUME NEW r, Asked(a, r), NEW answer, Refuse(a, r, answer) PROVE CidsNameMessages'
      <3>1. PICK l \in Line : /\ l = LineOf(r, r.cid, "refused", Unsettled)
                              /\ l.cid = r.cid /\ l.weight = r.weight
                              /\ IsAbout(l, req[a].of, req[a].chat, req[a].kind)
        BY <2>3, CheckLine DEF Unsettled
      <3>2. l.cid \in {req[a].cid, NoCid} /\ l.weight = req[a].weight
        BY <2>3, <3>1 DEF Asked
      <3>3. /\ journal' = Append(journal, l)
            /\ \A b \in Attempts : pc'[b] # "idle" <=> pc[b] # "idle"
        BY <2>1, <2>3, <3>1 DEF Refuse, TypeOK
      <3> QED
        BY <2>1, <3>1, <3>2, <3>3, CidsAppend
    <2>4. ASSUME NEW r, Asked(a, r), Holds(a, r) PROVE CidsNameMessages'
      <3>1. \A b \in Attempts : pc'[b] # "idle" <=> pc[b] # "idle"
        BY <2>1, <2>4 DEF Holds, TypeOK
      <3>2. CASE FreeRetry(journal, r, TimeOf(r))
        BY <2>1, <2>4, <3>1, <3>2, CidsQuiet DEF Holds, Hold
      <3>3. CASE ~ FreeRetry(journal, r, TimeOf(r))
        <4>1. Len(journal) + 1 \in Nat
          BY DEF TypeOK
        <4>2. PICK l \in Line : /\ l = LineOf(r, r.cid, "reserved", Len(journal) + 1)
                                /\ l.cid = r.cid /\ l.weight = r.weight
                                /\ IsAbout(l, req[a].of, req[a].chat, req[a].kind)
          BY <2>4, <4>1, CheckLine
        <4>3. l.cid \in {req[a].cid, NoCid} /\ l.weight = req[a].weight
          BY <2>4, <4>2 DEF Asked
        <4>4. journal' = Append(journal, l)
          BY <2>4, <3>3, <4>2 DEF Holds, Hold
        <4> QED
          BY <2>1, <3>1, <4>2, <4>3, <4>4, CidsAppend
      <3> QED
        BY <3>2, <3>3
    <2> QED
      BY <1>3, <2>2, <2>3, <2>4, CheckCases
  <1>4. ASSUME NEW a \in Attempts,
               MaxAnswers(a) \/ MaxRefuses(a) \/ MaxNotReady(a) \/ NoAnswer(a)
                 \/ RecordFails(a) \/ Crash(a)
        PROVE  CidsNameMessages'
    <2>1. /\ UNCHANGED <<journal, req>> /\ pc[a] # "idle"
          /\ UNCHANGED pc \/ \E to \in {"serverCheck", "record", "done", "dead"} : pc' = [pc EXCEPT ![a] = to]
      BY <1>4 DEF MaxAnswers, MaxRefuses, MaxNotReady, NoAnswer, RecordFails, AfterRecord, Crash,
         InFlight
    <2>2. \A b \in Attempts : pc'[b] # "idle" <=> pc[b] # "idle"
      BY <2>1 DEF TypeOK
    <2> QED
      BY <2>1, <2>2, CidsQuiet
  <1>5. ASSUME NEW a \in Attempts, Record(a) PROVE CidsNameMessages'
    <2>1. PICK l \in Line : /\ journal' = Append(journal, l)
                            /\ l.cid = req[a].cid /\ l.weight = req[a].weight
                            /\ IsAbout(l, req[a].of, req[a].chat, req[a].kind)
      BY <1>5, RecordLine
    <2>2. /\ UNCHANGED req /\ pc[a] # "idle"
          /\ \A b \in Attempts : pc'[b] # "idle" <=> pc[b] # "idle"
      BY <1>5 DEF Record, AfterRecord, TypeOK
    <2> QED
      BY <2>1, <2>2, CidsAppend
  <1> QED
    BY <1>1, <1>2, <1>3, <1>4, <1>5 DEF Next, Step
-----------------------------------------------------------------------------
\* Places that stay.

\* What any step does to the journal and to the reservations.
LEMMA JournalStep ==
  ASSUME TypeOK, ReservationsAreOpen, [Next]_vars
  PROVE  /\ \/ UNCHANGED journal
            \/ \E l \in Line :
                 /\ journal' = Append(journal, l)
                 /\ \/ l.outcome = "reserved" \/ l.reservation = Unsettled
                    \/ \E a \in Attempts : l.reservation = reservation[a] /\ pc[a] = "record"
         /\ \A b \in Attempts : reservation'[b] \in {reservation[b], Unsettled, Len(journal) + 1}
         /\ \A b \in Attempts : pc[b] = "dead" => pc'[b] = "dead"
  <1>1. CASE Tick \/ UNCHANGED vars
    BY <1>1 DEF Tick, vars
  <1>2. ASSUME NEW a \in Attempts,
               Type(a) \/ MaxAnswers(a) \/ MaxRefuses(a) \/ MaxNotReady(a) \/ NoAnswer(a)
                 \/ RecordFails(a) \/ Crash(a)
        PROVE  /\ UNCHANGED journal
               /\ reservation' \in {reservation, [reservation EXCEPT ![a] = Unsettled]}
               /\ pc[a] # "dead" /\ (UNCHANGED pc \/ \E to : pc' = [pc EXCEPT ![a] = to])
    BY <1>2 DEF Type, MaxAnswers, MaxRefuses, MaxNotReady, NoAnswer, RecordFails, AfterRecord, Crash,
       InFlight
  <1>3. ASSUME NEW a \in Attempts, CommandCheck(a) \/ ServerCheck(a)
        PROVE  /\ \/ UNCHANGED journal
                  \/ \E l \in Line : journal' = Append(journal, l)
                                     /\ (l.outcome = "reserved" \/ l.reservation = Unsettled)
               /\ \E x \in {reservation[a], Unsettled, Len(journal) + 1} :
                    reservation' = [reservation EXCEPT ![a] = x]
               /\ pc[a] # "dead" /\ \E to : pc' = [pc EXCEPT ![a] = to]
    <2>1. pc[a] # "dead"
      BY <1>3, CheckCases
    <2>2. CASE Passes(a)
      BY <2>1, <2>2 DEF Passes, TypeOK
    <2>3. ASSUME NEW r, Asked(a, r), NEW answer, Refuse(a, r, answer)
          PROVE  /\ \E l \in Line : journal' = Append(journal, l) /\ l.reservation = Unsettled
                 /\ reservation' = [reservation EXCEPT ![a] = Unsettled]
                 /\ \E to : pc' = [pc EXCEPT ![a] = to]
      <3>1. PICK l \in Line : l = LineOf(r, r.cid, "refused", Unsettled) /\ l.reservation = Unsettled
        BY <2>3, CheckLine DEF Unsettled
      <3> QED
        BY <2>3, <3>1 DEF Refuse
    <2>4. ASSUME NEW r, Asked(a, r), Holds(a, r)
          PROVE  /\ \/ UNCHANGED journal
                    \/ \E l \in Line : journal' = Append(journal, l) /\ l.outcome = "reserved"
                 /\ \E x \in {Unsettled, Len(journal) + 1} : reservation' = [reservation EXCEPT ![a] = x]
                 /\ \E to : pc' = [pc EXCEPT ![a] = to]
      <3>1. PICK l \in Line : /\ l = LineOf(r, r.cid, "reserved", Len(journal) + 1)
                              /\ l.outcome = "reserved"
        BY <2>4, CheckLine DEF TypeOK
      <3> QED
        BY <2>4, <3>1 DEF Holds, Hold
    <2> QED
      BY <1>3, <2>1, <2>2, <2>3, <2>4, CheckCases
  <1>4. ASSUME NEW a \in Attempts, Record(a)
        PROVE  /\ \E l \in Line : journal' = Append(journal, l) /\ l.reservation = reservation[a]
               /\ pc[a] = "record"
               /\ reservation' = [reservation EXCEPT ![a] = Unsettled]
               /\ \E to : pc' = [pc EXCEPT ![a] = to]
    <2>1. PICK l \in Line : journal' = Append(journal, l) /\ l.reservation = reservation[a]
      BY <1>4, RecordLine
    <2> QED
      BY <1>4, <2>1 DEF Record, AfterRecord
  <1>5. /\ reservation \in [Attempts -> Nat]
        /\ pc \in [Attempts -> {"idle", "check", "serverCheck", "ask", "record", "done", "dead"}]
    BY DEF TypeOK
  <1>6. ASSUME NEW a \in Attempts, Step(a)
        PROVE  /\ \A b \in Attempts : reservation'[b] \in {reservation[b], Unsettled, Len(journal) + 1}
               /\ \A b \in Attempts : pc[b] = "dead" => pc'[b] = "dead"
    <2>1. /\ \E x \in {reservation[a], Unsettled, Len(journal) + 1} :
               reservation' = [reservation EXCEPT ![a] = x]
          /\ pc[a] # "dead" /\ (UNCHANGED pc \/ \E to : pc' = [pc EXCEPT ![a] = to])
      BY <1>2, <1>3, <1>4, <1>5, <1>6 DEF Step
    <2> QED
      BY <1>5, <2>1
  <1>7. ASSUME NEW a \in Attempts, Step(a)
        PROVE  \/ UNCHANGED journal
               \/ \E l \in Line :
                    /\ journal' = Append(journal, l)
                    /\ \/ l.outcome = "reserved" \/ l.reservation = Unsettled
                       \/ \E b \in Attempts : l.reservation = reservation[b] /\ pc[b] = "record"
    BY <1>2, <1>3, <1>4, <1>7 DEF Step
  <1> QED
    BY <1>1, <1>6, <1>7 DEF Next

\* An entry nobody alive can settle stays.
LEMMA EntryKept ==
  ASSUME TypeOK, LinesAreNumbered, ReservationsAreOpen, [Next]_vars, NEW i \in Entries(journal),
         \A a \in Attempts : reservation[a] = i => pc[a] = "dead"
  PROVE  /\ i \in Entries(journal') /\ journal'[i] = journal[i]
         /\ \A a \in Attempts : reservation'[a] = i => pc'[a] = "dead"
  <1>1. journal \in Seq(Line) /\ i \in 1 .. Len(journal)
    BY LineInJournal DEF TypeOK, Entries
  <1>2. i \in Entries(journal') /\ journal'[i] = journal[i]
    <2>1. CASE UNCHANGED journal
      BY <2>1
    <2>2. ASSUME NEW l \in Line, journal' = Append(journal, l),
                 \/ l.outcome = "reserved" \/ l.reservation = Unsettled
                 \/ \E a \in Attempts : l.reservation = reservation[a] /\ pc[a] = "record"
          PROVE  i \in Entries(journal') /\ journal'[i] = journal[i]
      <3>1. journal[i].outcome = "reserved" => journal[i].reservation = i
        BY DEF LinesAreNumbered, Entries
      <3>2. l.outcome = "reserved" \/ l.reservation # i
        BY <1>1, <2>2 DEF Unsettled
      <3> QED
        BY <1>1, <2>2, <3>1, <3>2, EntryStays
    <2> QED
      BY <2>1, <2>2, JournalStep
  <1>3. ASSUME NEW a \in Attempts, reservation'[a] = i PROVE pc'[a] = "dead"
    <2>1. reservation[a] = i
      BY <1>1, <1>3, JournalStep DEF Unsettled
    <2> QED
      BY <2>1, JournalStep
  <1> QED
    BY <1>2, <1>3

\* A place kept for good is kept.
LEMMA KeptStays ==
  ASSUME TypeOK, LinesAreNumbered, ReservationsAreOpen, [Next]_vars,
         NEW of, NEW chat, NEW kind, KeptForGood(of, chat, kind)
  PROVE  KeptForGood(of, chat, kind)'
  <1>1. PICK i \in Entries(journal) :
          /\ HoldsPlace(journal[i])
          /\ IsAbout(journal[i], of, chat, kind)
          /\ \A a \in Attempts : reservation[a] = i => pc[a] = "dead"
    BY DEF KeptForGood
  <1> QED
    BY <1>1, EntryKept DEF KeptForGood

\* A repeat let through on a place that exists already: that place is kept.
LEMMA FreeRetryKept ==
  ASSUME TypeOK, ReservationsAreOpen, CidsNameMessages,
         NEW a \in Attempts, pc[a] # "idle", NEW r, Asked(a, r), NEW t, FreeRetry(journal, r, t)
  PROVE  \E i \in Entries(journal) :
           /\ HoldsPlace(journal[i])
           /\ IsAbout(journal[i], req[a].of, req[a].chat, req[a].kind)
           /\ \A b \in Attempts : reservation[b] # i
           /\ Near(journal[i].time, t) /\ journal[i].weight = 1 /\ req[a].cid # NoCid
  <1>1. PICK i \in Counted(journal, t) : SameSend(journal[i], r) /\ Unsure(journal[i])
    BY DEF FreeRetry
  <1>2. i \in Entries(journal) /\ HoldsPlace(journal[i]) /\ i \in DOMAIN journal
    BY DEF Counted, Entries
  <1>3. r.cid = req[a].cid /\ r.chat = req[a].chat /\ r.cid # NoCid
    BY <1>1 DEF Asked, SameSend
  <1>4. journal[i].of = req[a].of /\ journal[i].chat = req[a].chat
    BY <1>1, <1>2, <1>3 DEF SameSend, CidsNameMessages
  <1>5. journal[i].kind = req[a].kind
    BY <1>2, <1>4 DEF CidsNameMessages
  <1>6. \A b \in Attempts : reservation[b] # i
    <2> SUFFICES ASSUME NEW b \in Attempts, reservation[b] = i PROVE FALSE
      OBVIOUS
    <2>1. i # Unsettled
      BY <1>2, LineInJournal DEF Unsettled
    <2> QED
      BY <1>1, <2>1 DEF ReservationsAreOpen, Unsure
  <1>7. Near(journal[i].time, t) /\ journal[i].weight = 1
    BY <1>1, <1>2, <1>3 DEF Counted, SameSend, CidsNameMessages
  <1> QED
    BY <1>2, <1>3, <1>4, <1>5, <1>6, <1>7 DEF IsAbout

LEMMA InHandStep ==
  ASSUME TypeOK, LinesAreNumbered, ReservationsAreOpen, CidsNameMessages, PlaceInHand, [Next]_vars
  PROVE  PlaceInHand'
  <1> SUFFICES ASSUME NEW b \in Attempts, pc'[b] \in {"ask", "record"}, Counts(req'[b].kind),
                      req'[b].route # "fallback"
               PROVE  \/ reservation'[b] # Unsettled
                      \/ KeptForGood(req[b].of, req[b].chat, req[b].kind)' /\ req'[b] = req[b]
    BY DEF PlaceInHand, KeptForGood
  <1>1. /\ reservation \in [Attempts -> Nat]
        /\ pc \in [Attempts -> {"idle", "check", "serverCheck", "ask", "record", "done", "dead"}]
        /\ req \in [Attempts -> Request \cup {NoRequest}]
        /\ Len(journal) + 1 # Unsettled
    BY DEF TypeOK, Unsettled
  <1>2. CASE pc[b] \in {"ask", "record"} /\ req'[b] = req[b] /\ reservation'[b] = reservation[b]
    BY <1>2, KeptStays DEF PlaceInHand
  <1>3. CASE Tick \/ UNCHANGED vars
    BY <1>2, <1>3 DEF Tick, vars
  <1>4. ASSUME NEW a \in Attempts, Type(a)
        PROVE  pc[b] \in {"ask", "record"} /\ req'[b] = req[b] /\ reservation'[b] = reservation[b]
    BY <1>1, <1>4 DEF Type
  <1>5. ASSUME NEW a \in Attempts, CommandCheck(a) \/ ServerCheck(a)
        PROVE  \/ pc[b] \in {"ask", "record"} /\ req'[b] = req[b] /\ reservation'[b] = reservation[b]
               \/ reservation'[b] # Unsettled
               \/ KeptForGood(req[b].of, req[b].chat, req[b].kind) /\ req'[b] = req[b]
    <2>1. pc[a] \in {"check", "serverCheck"} /\ UNCHANGED req
      BY <1>5, CheckCases
    <2>2. CASE Passes(a)
      BY <1>1, <2>1, <2>2 DEF Passes
    <2>3. ASSUME NEW r, NEW answer, Refuse(a, r, answer)
          PROVE  pc[b] \in {"ask", "record"} /\ req'[b] = req[b] /\ reservation'[b] = reservation[b]
      BY <1>1, <2>1, <2>3 DEF Refuse
    <2>4. ASSUME NEW r, Asked(a, r), Holds(a, r), b = a
          PROVE  \/ reservation'[b] # Unsettled
                 \/ KeptForGood(req[b].of, req[b].chat, req[b].kind)
      <3>1. CASE FreeRetry(journal, r, TimeOf(r))
        BY <2>1, <2>4, <3>1, FreeRetryKept DEF KeptForGood
      <3>2. CASE ~ FreeRetry(journal, r, TimeOf(r))
        BY <1>1, <2>4, <3>2 DEF Holds, Hold
      <3> QED
        BY <3>1, <3>2
    <2>5. ASSUME NEW r, Holds(a, r), b # a
          PROVE  pc[b] \in {"ask", "record"} /\ req'[b] = req[b] /\ reservation'[b] = reservation[b]
      BY <1>1, <2>1, <2>5 DEF Holds, Hold
    <2> QED
      BY <1>5, <2>1, <2>2, <2>3, <2>4, <2>5, CheckCases
  <1>6. ASSUME NEW a \in Attempts,
               MaxAnswers(a) \/ MaxRefuses(a) \/ MaxNotReady(a) \/ NoAnswer(a)
                 \/ Record(a) \/ RecordFails(a) \/ Crash(a)
        PROVE  pc[b] \in {"ask", "record"} /\ req'[b] = req[b] /\ reservation'[b] = reservation[b]
    BY <1>1, <1>6 DEF MaxAnswers, MaxRefuses, MaxNotReady, NoAnswer, Record, RecordFails,
       AfterRecord, Crash
  <1> QED
    BY <1>2, <1>3, <1>4, <1>5, <1>6, KeptStays DEF Next, Step
\* A reservation whose attempt died or gave it up unsettled is kept for good.
LEMMA AbandonedKept ==
  ASSUME TypeOK, LinesAreNumbered, ReservationsAreOpen, NEW a \in Attempts,
         reservation[a] # Unsettled, UNCHANGED <<journal, req>>,
         \/ UNCHANGED reservation /\ pc'[a] = "dead"
         \/ reservation' = [reservation EXCEPT ![a] = Unsettled]
  PROVE  KeptForGood(req[a].of, req[a].chat, req[a].kind)'
  <1> DEFINE i == reservation[a]
  <1>1. /\ i \in Entries(journal) /\ journal[i].outcome = "reserved" /\ i \in DOMAIN journal
        /\ IsAbout(journal[i], req[a].of, req[a].chat, req[a].kind)
        /\ \A b \in Attempts : reservation[b] = i => b = a
    BY DEF ReservationsAreOpen, Entries
  <1>2. HoldsPlace(journal[i])
    BY <1>1 DEF LinesAreNumbered, HoldsPlace
  <1>3. \A b \in Attempts : reservation'[b] = i => pc'[b] = "dead"
    BY <1>1 DEF TypeOK
  <1> QED
    BY <1>1, <1>2, <1>3 DEF KeptForGood

\* A recorded outcome that holds a place holds it for good.
LEMMA RecordedKept ==
  ASSUME TypeOK, ReservationsAreOpen, NEW a \in Attempts, Record(a),
         result[a] \in {"sent", "outcome_unknown"}, Counts(req[a].kind)
  PROVE  KeptForGood(req[a].of, req[a].chat, req[a].kind)'
  <1>1. PICK l \in Line : /\ journal' = Append(journal, l)
                          /\ l.outcome = result[a] /\ l.outcome # "reserved"
                          /\ IsAbout(l, req[a].of, req[a].chat, req[a].kind)
    BY RecordLine
  <1>2. Len(journal) + 1 \in Entries(journal') /\ journal'[Len(journal) + 1] = l
    BY <1>1, NewEntry DEF TypeOK
  <1>3. HoldsPlace(l)
    BY <1>1 DEF HoldsPlace, IsAbout
  <1>4. ASSUME NEW b \in Attempts PROVE reservation'[b] # Len(journal) + 1
    <2>1. reservation'[b] \in {reservation[b], Unsettled} /\ Len(journal) \in Nat
      BY DEF Record, TypeOK
    <2>2. reservation[b] = Unsettled \/ reservation[b] \in 1 .. Len(journal)
      BY LineInJournal DEF ReservationsAreOpen, Entries
    <2> QED
      BY <2>1, <2>2 DEF Unsettled
  <1>5. UNCHANGED req
    BY DEF Record
  <1> QED
    BY <1>1, <1>2, <1>3, <1>4, <1>5 DEF KeptForGood

\* What an attempt that will count does next keeps its place.
LEMMA WillCountStep ==
  ASSUME TypeOK, LinesAreNumbered, ReservationsAreOpen, ~ CacheMayFail,
         NEW a \in Attempts, WillCount(a), req[a].kind \in WithCid, NEW b \in Attempts, Step(b)
  PROVE  /\ Delivery(a)' = Delivery(a)
         /\ WillCount(a)' \/ KeptForGood(req[a].of, req[a].chat, req[a].kind)'
  <1>1. pc[a] \in {"ask", "record"} /\ Counts(req[a].kind) /\ reservation[a] # Unsettled
    BY DEF WillCount, WithCid, Counts
  <1>2. /\ req \in [Attempts -> Request \cup {NoRequest}]
        /\ pc \in [Attempts -> {"idle", "check", "serverCheck", "ask", "record", "done", "dead"}]
        /\ tries \in [Attempts -> {1, 2}] /\ reservation \in [Attempts -> Nat]
        /\ result \in [Attempts -> Outcomes \cup {"none"}]
    BY DEF TypeOK
  <1>3. CASE b # a
    <2>1. \/ pc'[a] = pc[a] /\ req'[a] = req[a] /\ tries'[a] = tries[a] /\ result'[a] = result[a]
             /\ reservation'[a] = reservation[a]
      <3>1. CASE Type(b)
        BY <1>2, <1>3, <3>1 DEF Type
      <3>2. CASE CommandCheck(b) \/ ServerCheck(b)
        <4>1. UNCHANGED <<req, tries, result>>
          BY <3>2, CheckCases
        <4>2. pc'[a] = pc[a] /\ reservation'[a] = reservation[a]
          BY <1>2, <1>3, <3>2, CheckCases DEF Passes, Refuse, Holds, Hold
        <4> QED
          BY <4>1, <4>2
      <3>3. CASE MaxAnswers(b) \/ MaxRefuses(b) \/ MaxNotReady(b) \/ NoAnswer(b) \/ Crash(b)
        BY <1>2, <1>3, <3>3 DEF MaxAnswers, MaxRefuses, MaxNotReady, NoAnswer, Crash
      <3>4. CASE Record(b) \/ RecordFails(b)
        BY <1>2, <1>3, <3>4 DEF Record, RecordFails, AfterRecord
      <3> QED
        BY <3>1, <3>2, <3>3, <3>4 DEF Step
    <2> QED
      BY <2>1 DEF WillCount, Delivery, ByServer
  <1>4. CASE b = a
    <2>1. UNCHANGED req
      BY <1>1, <1>4 DEF Step, Type, CommandCheck, ServerCheck, MaxAnswers, MaxRefuses, MaxNotReady,
         NoAnswer, Record, RecordFails, Crash
    <2>2. CASE MaxAnswers(a) \/ MaxRefuses(a) \/ NoAnswer(a)
      <3>1. /\ pc[a] = "ask" /\ tries[a] = 2 /\ ~ ByServer(a) /\ ~ AsksAgain(a)
        <4>1. pc[a] = "ask"
          BY <2>2 DEF MaxAnswers, MaxRefuses, NoAnswer
        <4> QED
          BY <4>1 DEF WillCount, AsksAgain
      <3>2. /\ pc'[a] = "record" /\ reservation'[a] = reservation[a]
            /\ result'[a] \in {"sent", "outcome_unknown"}
        BY <1>2, <2>2, <3>1 DEF MaxAnswers, MaxRefuses, NoAnswer
      <3> QED
        BY <1>1, <2>1, <3>2 DEF WillCount, Delivery
    <2>3. CASE Record(a)
      BY <1>1, <2>1, <2>3, RecordedKept DEF WillCount, Record, Delivery
    <2>4. CASE RecordFails(a) \/ Crash(a)
      <3>1. /\ UNCHANGED journal
            /\ \/ UNCHANGED reservation /\ pc'[a] = "dead"
               \/ reservation' = [reservation EXCEPT ![a] = Unsettled]
        BY <1>2, <2>4 DEF RecordFails, Crash
      <3> QED
        BY <1>1, <2>1, <3>1, AbandonedKept DEF Delivery
    <2>5. ~ (Type(a) \/ CommandCheck(a) \/ ServerCheck(a) \/ MaxNotReady(a))
      BY <1>1 DEF Type, CommandCheck, ServerCheck, MaxNotReady, WillCount
    <2> QED
      BY <1>4, <2>2, <2>3, <2>4, <2>5 DEF Step
  <1> QED
    BY <1>3, <1>4

LEMMA DeliveredStep ==
  ASSUME TypeOK, LinesAreNumbered, ReservationsAreOpen, PlaceInHand, DeliveredIsKept, [Next]_vars
  PROVE  DeliveredIsKept'
  <1> SUFFICES ASSUME ~ CacheMayFail, "fallback" \notin Routes,
                      NEW d \in delivered', d.kind \in WithCid
               PROVE  \/ KeptForGood(d.of, d.chat, d.kind)'
                      \/ \E a \in Attempts : WillCount(a)' /\ Delivery(a)' = d
    BY DEF DeliveredIsKept, KeptForGood, WillCount, Delivery, ByServer
  <1>1. CASE d \in delivered
    <2>1. CASE KeptForGood(d.of, d.chat, d.kind)
      BY <2>1, KeptStays
    <2>2. ASSUME NEW a \in Attempts, WillCount(a), Delivery(a) = d
          PROVE  \/ KeptForGood(d.of, d.chat, d.kind)'
                 \/ WillCount(a)' /\ Delivery(a)' = d
      <3>1. d.of = req[a].of /\ d.chat = req[a].chat /\ d.kind = req[a].kind
        BY <2>2 DEF Delivery
      <3>2. CASE Tick \/ UNCHANGED vars
        BY <2>2, <3>2 DEF Tick, vars, WillCount, Delivery, ByServer
      <3>3. ASSUME NEW b \in Attempts, Step(b)
            PROVE  \/ KeptForGood(d.of, d.chat, d.kind)'
                   \/ WillCount(a)' /\ Delivery(a)' = d
        <4>1. /\ Delivery(a)' = Delivery(a)
              /\ WillCount(a)' \/ KeptForGood(req[a].of, req[a].chat, req[a].kind)'
          BY <2>2, <3>1, <3>3, WillCountStep
        <4>2. /\ req'[a].of = req[a].of /\ req'[a].chat = req[a].chat
              /\ req'[a].kind = req[a].kind
          BY <4>1 DEF Delivery
        <4> QED
          BY <2>2, <3>1, <4>1, <4>2 DEF KeptForGood
      <3> QED
        BY <3>2, <3>3 DEF Next
    <2> QED
      BY <1>1, <2>1, <2>2 DEF DeliveredIsKept
  <1>2. CASE d \notin delivered
    <2>1. PICK a \in Attempts : (MaxAnswers(a) \/ NoAnswer(a)) /\ d = Delivery(a)
      BY <1>2 DEF Next, Step, Tick, vars, Type, CommandCheck, ServerCheck, MaxAnswers, MaxRefuses,
         MaxNotReady, NoAnswer, Record, RecordFails, Crash
    <2>2. pc[a] = "ask" /\ UNCHANGED <<req, reservation>>
      BY <2>1 DEF MaxAnswers, NoAnswer
    <2>3. Counts(req[a].kind) /\ req[a].kind \in WithCid /\ req[a].route # "fallback"
      BY <2>1, <2>2 DEF Delivery, WithCid, Counts, TypeOK, Request
    <2>4. CASE KeptForGood(req[a].of, req[a].chat, req[a].kind)
      BY <2>1, <2>4, KeptStays DEF Delivery
    <2>5. CASE reservation[a] # Unsettled
      <3>1. WillCount(a)'
        <4>1. /\ pc \in [Attempts -> {"idle", "check", "serverCheck", "ask", "record", "done", "dead"}]
              /\ tries \in [Attempts -> {1, 2}] /\ result \in [Attempts -> Outcomes \cup {"none"}]
          BY DEF TypeOK
        <4>2. CASE MaxAnswers(a)
          BY <2>2, <2>5, <4>1, <4>2 DEF MaxAnswers, WillCount
        <4>3. CASE NoAnswer(a) /\ AsksAgain(a) /\ ~ ByServer(a)
          BY <2>2, <2>5, <4>1, <4>3 DEF NoAnswer, WillCount, ByServer
        <4>4. CASE NoAnswer(a) /\ ~ (AsksAgain(a) /\ ~ ByServer(a))
          BY <2>2, <2>3, <2>5, <4>1, <4>4 DEF NoAnswer, WillCount
        <4> QED
          BY <2>1, <4>2, <4>3, <4>4
      <3> QED
        BY <2>1, <2>2, <3>1 DEF Delivery
    <2> QED
      BY <2>2, <2>3, <2>4, <2>5 DEF PlaceInHand
  <1> QED
    BY <1>1, <1>2
-----------------------------------------------------------------------------
\* Lines about attempts in flight, while owners do not repeat.

LEMMA FlightAppend ==
  ASSUME TypeOK, LinesInFlight, UNCHANGED <<now, req>>, NEW a \in Attempts, pc[a] # "idle",
         \A b \in Attempts : InFlight(b)' => InFlight(b),
         \A b \in Attempts : pc'[b] # "idle" => pc[b] # "idle",
         NEW l \in Line, journal' = Append(journal, l), l.time = TimeOf(req[a]),
         l.weight = req[a].weight, IsAbout(l, req[a].of, req[a].chat, req[a].kind)
  PROVE  LinesInFlight'
  <1>1. ASSUME ~ Repeats, NEW i \in DOMAIN journal', InFlight(journal[i].of)'
        PROVE  /\ journal'[i].time = TimeOf(req[journal[i].of])'
               /\ journal'[i].chat = req[journal'[i].of].chat
               /\ journal'[i].weight = req[journal'[i].of].weight
    <2>1. CASE i \in 1 .. Len(journal)
      <3>1. journal'[i] = journal[i] /\ journal[i] \in Line /\ i \in DOMAIN journal
        BY <2>1, AppendLine DEF TypeOK
      <3>2. journal[i].of \in Attempts /\ InFlight(journal[i].of)
        BY <1>1, <3>1 DEF Line, InFlight
      <3> QED
        BY <1>1, <3>1, <3>2 DEF LinesInFlight, TimeOf
    <2>2. CASE i = Len(journal) + 1
      <3>1. journal'[i] = l
        BY <2>2, AppendLine DEF TypeOK
      <3>2. l.of = a /\ l.chat = req[a].chat
        BY <1>1 DEF LinesInFlight, IsAbout
      <3> QED
        BY <3>1, <3>2 DEF TimeOf
    <2> QED
      BY <2>1, <2>2, AppendLine DEF TypeOK
  <1>2. ~ Repeats => \A b \in Attempts : pc'[b] # "idle" => req'[b].of = b
    BY DEF LinesInFlight
  <1> QED
    BY <1>1, <1>2 DEF LinesInFlight

LEMMA FlightQuiet ==
  ASSUME TypeOK, LinesInFlight, UNCHANGED <<now, journal, req>>,
         \A b \in Attempts : InFlight(b)' => InFlight(b),
         \A b \in Attempts : pc'[b] # "idle" => pc[b] # "idle"
  PROVE  LinesInFlight'
  <1>1. \A i \in DOMAIN journal : journal[i].of \in Attempts
    BY LineInJournal DEF Line
  <1> QED
    BY <1>1 DEF LinesInFlight, TimeOf, InFlight

LEMMA FlightStep ==
  ASSUME TypeOK, CidsNameMessages, LinesInFlight, [Next]_vars
  PROVE  LinesInFlight'
  <1>0. /\ pc \in [Attempts -> {"idle", "check", "serverCheck", "ask", "record", "done", "dead"}]
        /\ \A i \in DOMAIN journal : journal[i].of \in Attempts
    BY LineInJournal DEF TypeOK, Line
  <1>1. CASE Tick
    BY <1>0, <1>1 DEF Tick, LinesInFlight, InFlight
  <1>2. CASE UNCHANGED vars
    BY <1>2 DEF vars, LinesInFlight, InFlight, TimeOf
  <1>3. ASSUME NEW a \in Attempts, Type(a) PROVE LinesInFlight'
    <2>1. /\ pc[a] = "idle" /\ pc' = [pc EXCEPT ![a] = "check"] /\ UNCHANGED <<now, journal>>
      BY <1>3 DEF Type
    <2>2. PICK r \in Request :
              /\ req' = [req EXCEPT ![a] = r]
              /\ r.of = a \/ (Repeats /\ pc[r.of] # "idle" /\ req[r.of].kind = r.kind)
              /\ r.given <=> r.of # a
              /\ r.of # a => told[r.of] = "outcome_unknown"
      BY <1>3, TypeType
    <2>3. /\ \A b \in Attempts : b # a => pc'[b] = pc[b] /\ req'[b] = req[b]
          /\ req'[a] = r
      BY <2>1, <2>2 DEF TypeOK
    <2>4. \A i \in DOMAIN journal : journal[i].of # a
      BY <2>1 DEF CidsNameMessages
    <2> QED
      BY <1>0, <2>1, <2>2, <2>3, <2>4 DEF LinesInFlight, InFlight, TimeOf
  <1>4. ASSUME NEW a \in Attempts, CommandCheck(a) \/ ServerCheck(a) PROVE LinesInFlight'
    <2>1. pc[a] \in {"check", "serverCheck"} /\ UNCHANGED <<now, req>>
      BY <1>4, CheckCases
    <2>2. \E to : pc' = [pc EXCEPT ![a] = to]
      BY <1>4, CheckCases DEF Passes, Refuse, Holds
    <2>3. /\ \A b \in Attempts : InFlight(b)' => InFlight(b)
          /\ \A b \in Attempts : pc'[b] # "idle" => pc[b] # "idle"
      BY <1>0, <2>1, <2>2 DEF InFlight
    <2>4. CASE UNCHANGED journal
      BY <2>1, <2>3, <2>4, FlightQuiet
    <2>5. ASSUME NEW r, Asked(a, r), NEW outcome \in {"reserved", "refused"}, NEW settles \in Nat,
                 journal' = Append(journal, LineOf(r, r.cid, outcome, settles))
          PROVE  LinesInFlight'
      <3>1. PICK l \in Line : /\ l = LineOf(r, r.cid, outcome, settles)
                              /\ l.weight = r.weight /\ l.time = TimeOf(r)
                              /\ IsAbout(l, req[a].of, req[a].chat, req[a].kind)
        BY <2>5, CheckLine
      <3>2. l.weight = req[a].weight /\ l.time = TimeOf(req[a])
        BY <2>5, <3>1 DEF Asked, TimeOf
      <3> QED
        BY <2>1, <2>3, <2>5, <3>1, <3>2, FlightAppend
    <2>6. CASE Passes(a)
      BY <2>4, <2>6 DEF Passes
    <2>7. ASSUME NEW r, Asked(a, r), NEW answer, Refuse(a, r, answer) PROVE LinesInFlight'
      BY <2>5, <2>7 DEF Refuse, Unsettled
    <2>8. ASSUME NEW r, Asked(a, r), Holds(a, r) PROVE LinesInFlight'
      <3>1. Len(journal) + 1 \in Nat
        BY DEF TypeOK
      <3> QED
        BY <2>4, <2>5, <2>8, <3>1 DEF Holds, Hold
    <2> QED
      BY <1>4, <2>6, <2>7, <2>8, CheckCases
  <1>5. ASSUME NEW a \in Attempts,
               MaxAnswers(a) \/ MaxRefuses(a) \/ MaxNotReady(a) \/ NoAnswer(a)
                 \/ RecordFails(a) \/ Crash(a)
        PROVE  LinesInFlight'
    <2>1. /\ UNCHANGED <<now, journal, req>> /\ InFlight(a)
          /\ UNCHANGED pc \/ \E to : pc' = [pc EXCEPT ![a] = to]
      BY <1>5 DEF MaxAnswers, MaxRefuses, MaxNotReady, NoAnswer, RecordFails, AfterRecord, Crash,
         InFlight
    <2>2. /\ \A b \in Attempts : InFlight(b)' => InFlight(b)
          /\ \A b \in Attempts : pc'[b] # "idle" => pc[b] # "idle"
      BY <1>0, <2>1 DEF InFlight
    <2> QED
      BY <2>1, <2>2, FlightQuiet
  <1>6. ASSUME NEW a \in Attempts, Record(a) PROVE LinesInFlight'
    <2>1. PICK l \in Line : /\ journal' = Append(journal, l)
                            /\ l.weight = req[a].weight /\ l.time = TimeOf(req[a])
                            /\ IsAbout(l, req[a].of, req[a].chat, req[a].kind)
      BY <1>6, RecordLine
    <2>2. UNCHANGED <<now, req>> /\ pc[a] = "record" /\ \E to : pc' = [pc EXCEPT ![a] = to]
      BY <1>6 DEF Record, AfterRecord
    <2>3. /\ \A b \in Attempts : InFlight(b)' => InFlight(b)
          /\ \A b \in Attempts : pc'[b] # "idle" => pc[b] # "idle"
      BY <1>0, <2>2 DEF InFlight
    <2> QED
      BY <2>1, <2>2, <2>3, FlightAppend
  <1> QED
    BY <1>1, <1>2, <1>3, <1>4, <1>5, <1>6 DEF Next, Step

-----------------------------------------------------------------------------
\* The inductive invariant, and what it says of places.

LEMMA PlacesInit == Init => PlacesInv
  BY DEF Init, PlacesInv, LinesAreNumbered, ReservationsAreOpen, CidsNameMessages, PlaceInHand,
     DeliveredIsKept, LinesInFlight

LEMMA PlacesStep == TypeOK /\ PlacesInv /\ [Next]_vars => PlacesInv'
  BY NumberedStep, OpenStep, CidsStep, InHandStep, DeliveredStep, FlightStep DEF PlacesInv

LEMMA PlacesHold == Spec => [](TypeOK /\ PlacesInv)
  BY TypeInit, TypeStep, PlacesInit, PlacesStep, PTL DEF Spec

LEMMA KeptKeeps ==
  ASSUME NEW of, NEW chat, NEW kind, KeptForGood(of, chat, kind)
  PROVE  KeepsPlace(of, chat, kind)
  BY DEF KeptForGood, KeepsPlace, IsAbout

\* An attempt that holds a reservation keeps the place of its write.
LEMMA ReservationKeeps ==
  ASSUME LinesAreNumbered, ReservationsAreOpen, NEW a \in Attempts, reservation[a] # Unsettled
  PROVE  KeepsPlace(req[a].of, req[a].chat, req[a].kind)
  <1> DEFINE i == reservation[a]
  <1>1. /\ i \in Entries(journal) /\ journal[i].outcome = "reserved"
        /\ IsAbout(journal[i], req[a].of, req[a].chat, req[a].kind)
    BY DEF ReservationsAreOpen
  <1>2. HoldsPlace(journal[i])
    BY <1>1 DEF LinesAreNumbered, HoldsPlace, Entries
  <1> QED
    BY <1>1, <1>2 DEF KeepsPlace, IsAbout

\* Whatever the routes, repeats, uploads and crashes: no write that counts is out
\* while the journal holds no place for it.
THEOREM PlaceHeldWhileAsking == Spec => []HeldWhileAsking
  <1>1. PlacesInv => HeldWhileAsking
    BY KeptKeeps, ReservationKeeps DEF PlacesInv, PlaceInHand, HeldWhileAsking
  <1> QED
    BY <1>1, PlacesHold, PTL

\* Off the fallback route, and while the cache does not fail, no delivered message is lost to
\* the count: not by a crash, a lost answer, a repeat or a journal that cannot be written.
THEOREM DeliveredIsCounted ==
  ASSUME CacheMayFail = FALSE, "fallback" \notin Routes
  PROVE  Spec => []DeliveredMessageCounts
  <1>1. PlacesInv => DeliveredMessageCounts
    <2> SUFFICES ASSUME PlacesInv, NEW d \in delivered, d.kind \in WithCid
                 PROVE  KeepsPlace(d.of, d.chat, d.kind)
      BY DEF DeliveredMessageCounts
    <2>1. ASSUME NEW a \in Attempts, WillCount(a), Delivery(a) = d
          PROVE  KeepsPlace(d.of, d.chat, d.kind)
      <3>1. KeepsPlace(req[a].of, req[a].chat, req[a].kind)
        BY <2>1, ReservationKeeps DEF PlacesInv, WillCount
      <3>2. d.of = req[a].of /\ d.chat = req[a].chat /\ d.kind = req[a].kind
        BY <2>1 DEF Delivery
      <3> QED
        BY <3>1, <3>2
    <2> QED
      BY <2>1, KeptKeeps DEF PlacesInv, DeliveredIsKept
  <1> QED
    BY <1>1, PlacesHold, PTL
-----------------------------------------------------------------------------
\* The hour.

LEMMA JournalIsSound ==
  ASSUME TypeOK, CidsNameMessages
  PROVE  Sound(journal)
  <1>1. DOMAIN journal = 1 .. Len(journal) /\ Len(journal) \in Nat
    BY DEF TypeOK
  <1>2. \A i \in DOMAIN journal : journal[i].weight \in Nat /\ journal[i].time \in Int
    BY LineInJournal DEF Line
  <1>3. \A i, j \in DOMAIN journal :
          SameSend(journal[i], journal[j]) =>
            journal[i].of = journal[j].of /\ journal[i].weight = journal[j].weight
    BY DEF SameSend, CidsNameMessages
  <1> QED
    BY <1>1, <1>2, <1>3 DEF Sound

\* What a new line adds to the messages of an hour.
LEMMA PlacesAppend ==
  ASSUME NEW J \in Seq(Line), NEW l \in Line, NEW w \in Nat
  PROVE  MessagePlaces(Append(J, l), w) \subseteq
           MessagePlaces(J, w) \cup
             (IF HoldsPlace(l) /\ w <= l.time /\ l.time < w + Hour
              THEN {<<l.of, l.chat>>} \X (1 .. l.weight) ELSE {})
  <1> SUFFICES ASSUME NEW i \in InWindow(Append(J, l), w),
                      NEW x \in {<<Append(J, l)[i].of, Append(J, l)[i].chat>>}
                                  \X (1 .. Append(J, l)[i].weight)
               PROVE  \/ x \in MessagePlaces(J, w)
                      \/ /\ HoldsPlace(l) /\ w <= l.time /\ l.time < w + Hour
                         /\ x \in {<<l.of, l.chat>>} \X (1 .. l.weight)
    BY Zenon DEF MessagePlaces
  <1>1. /\ i \in Entries(Append(J, l)) /\ HoldsPlace(Append(J, l)[i])
        /\ w <= Append(J, l)[i].time /\ Append(J, l)[i].time < w + Hour
    BY DEF InWindow
  <1>2. CASE i = Len(J) + 1
    <2>1. Append(J, l)[i] = l
      BY <1>2, AppendLine
    <2> QED
      BY <1>1, <2>1
  <1>3. CASE i # Len(J) + 1
    <2>1. i \in Entries(J) /\ Append(J, l)[i] = J[i]
      BY <1>1, <1>3, NoOtherEntry
    <2>2. i \in InWindow(J, w)
      BY <1>1, <2>1 DEF InWindow
    <2> QED
      BY <2>1, <2>2 DEF MessagePlaces
  <1> QED
    BY <1>2, <1>3

\* Every hour, not only those that start with a line.
EveryHour == \A w \in Nat : Cardinality(MessagePlaces(journal, w)) <= Limit

\* A line that holds no place, or the place of a line at the same time, adds nothing.
LEMMA HourSettled ==
  ASSUME TypeOK, CidsNameMessages, EveryHour, NEW l \in Line, journal' = Append(journal, l),
         HoldsPlace(l) =>
           \E i \in Entries(journal) :
             /\ HoldsPlace(journal[i])
             /\ \A f \in {"of", "chat", "weight", "time"} : journal[i][f] = l[f]
  PROVE  EveryHour'
  <1> SUFFICES ASSUME NEW w \in Nat PROVE Cardinality(MessagePlaces(journal', w)) <= Limit
    BY DEF EveryHour
  <1>1. Sound(journal) /\ journal \in Seq(Line)
    BY JournalIsSound DEF TypeOK
  <1>2. IsFiniteSet(MessagePlaces(journal, w))
    <2>1. w \in Int /\ w <= w /\ w < w + Hour
      BY HourAssumption
    <2> QED
      BY <1>1, <2>1, UsedBoundsTheHour
  <1>3. MessagePlaces(journal', w) \subseteq MessagePlaces(journal, w)
    <2>1. CASE HoldsPlace(l) /\ w <= l.time /\ l.time < w + Hour
      <3>1. PICK i \in Entries(journal) :
              /\ HoldsPlace(journal[i])
              /\ journal[i].of = l.of /\ journal[i].chat = l.chat
              /\ journal[i].weight = l.weight /\ journal[i].time = l.time
        BY <2>1
      <3>2. {<<l.of, l.chat>>} \X (1 .. l.weight) \subseteq MessagePlaces(journal, w)
        BY <2>1, <3>1 DEF MessagePlaces, InWindow
      <3> QED
        BY <1>1, <2>1, <3>2, PlacesAppend
    <2>2. CASE ~ (HoldsPlace(l) /\ w <= l.time /\ l.time < w + Hour)
      BY <1>1, <2>2, PlacesAppend
    <2> QED
      BY <2>1, <2>2
  <1>4. IsFiniteSet(MessagePlaces(journal', w))
        /\ Cardinality(MessagePlaces(journal', w)) <= Cardinality(MessagePlaces(journal, w))
    BY <1>2, <1>3, FS_Subset
  <1> QED
    BY <1>2, <1>4, GuardAssumption, FS_CardinalityType DEF EveryHour

\* A place taken while withinLimit counts room for it.
LEMMA HourTaken ==
  ASSUME TypeOK, CidsNameMessages, EveryHour, NEW l \in Line, journal' = Append(journal, l),
         Used(journal, l.time) + l.weight <= Limit
  PROVE  EveryHour'
  <1> SUFFICES ASSUME NEW w \in Nat PROVE Cardinality(MessagePlaces(journal', w)) <= Limit
    BY DEF EveryHour
  <1> DEFINE Old == MessagePlaces(journal, w)
             New == {<<l.of, l.chat>>} \X (1 .. l.weight)
  <1>1. Sound(journal) /\ journal \in Seq(Line) /\ l.time \in Nat /\ l.weight \in Nat /\ Limit \in Nat
    BY JournalIsSound, GuardAssumption DEF TypeOK, Line
  <1>2. IsFiniteSet(Old) /\ Cardinality(Old) \in Nat
    <2>1. w \in Int /\ w <= w /\ w < w + Hour
      BY HourAssumption
    <2>2. IsFiniteSet(Old)
      BY <1>1, <2>1, UsedBoundsTheHour
    <2> QED
      BY <2>2, FS_CardinalityType
  <1>3. CASE w <= l.time /\ l.time < w + Hour
    <2>1. Used(journal, l.time) \in Nat /\ Cardinality(Old) <= Used(journal, l.time)
      BY <1>1, <1>3, UsedBoundsTheHour
    <2>2. IsFiniteSet(New) /\ Cardinality(New) = l.weight
      <3>1. IsFiniteSet({<<l.of, l.chat>>}) /\ Cardinality({<<l.of, l.chat>>}) = 1
        BY FS_Singleton
      <3>2. IsFiniteSet(1 .. l.weight) /\ Cardinality(1 .. l.weight) = l.weight
        <4>1. 1 \in Int /\ l.weight \in Int /\ l.weight >= 0
          BY <1>1
        <4> QED
          BY <4>1, FS_Interval
      <3>3. IsFiniteSet(New) /\ Cardinality(New) = 1 * l.weight
        BY ZenonT(60), <3>1, <3>2, FS_Product
      <3> QED
        BY <1>1, <3>3
    <2>3. MessagePlaces(journal', w) \subseteq Old \cup New
      BY <1>1, PlacesAppend
    <2> HIDE DEF Old, New
    <2>4. /\ IsFiniteSet(Old \cup New)
          /\ Cardinality(Old \cup New) = Cardinality(Old) + Cardinality(New) - Cardinality(Old \cap New)
      BY <1>2, <2>2, FS_Union
    <2>5. IsFiniteSet(Old \cap New) /\ Cardinality(Old \cap New) \in Nat
      BY <1>2, FS_Intersection, FS_CardinalityType
    <2>6. IsFiniteSet(MessagePlaces(journal', w))
          /\ Cardinality(MessagePlaces(journal', w)) <= Cardinality(Old \cup New)
      BY <2>3, <2>4, FS_Subset
    <2>7. Cardinality(MessagePlaces(journal', w)) \in Nat
      BY <2>6, FS_CardinalityType
    <2> QED
      BY <1>1, <1>2, <2>1, <2>2, <2>4, <2>5, <2>6, <2>7
  <1>4. CASE ~ (w <= l.time /\ l.time < w + Hour)
    <2>1. MessagePlaces(journal', w) \subseteq Old
      BY <1>1, <1>4, PlacesAppend
    <2>2. IsFiniteSet(MessagePlaces(journal', w))
          /\ Cardinality(MessagePlaces(journal', w)) <= Cardinality(Old)
      BY <1>2, <2>1, FS_Subset
    <2>3. Cardinality(MessagePlaces(journal', w)) \in Nat
      BY <2>2, FS_CardinalityType
    <2> QED
      BY <1>1, <1>2, <2>2, <2>3 DEF EveryHour
  <1> QED
    BY <1>3, <1>4
\* A check keeps every hour: what it lets through has a place already, or is given one that was left.
LEMMA HourChecked ==
  ASSUME TypeOK, PlacesInv, EveryHour, NEW a \in Attempts, CommandCheck(a) \/ ServerCheck(a)
  PROVE  EveryHour'
  <1> USE DEF PlacesInv
  <1>1. CASE Passes(a)
    BY <1>1 DEF Passes, EveryHour
  <1>2. ASSUME NEW r, Asked(a, r), NEW answer, Refuse(a, r, answer) PROVE EveryHour'
    <2>1. PICK l \in Line : l = LineOf(r, r.cid, "refused", Unsettled) /\ l.outcome = "refused"
      BY <1>2, CheckLine DEF Unsettled
    <2>2. journal' = Append(journal, l) /\ ~ HoldsPlace(l)
      BY <1>2, <2>1 DEF Refuse, HoldsPlace
    <2> QED
      BY <2>2, HourSettled
  <1>3. ASSUME NEW r, Asked(a, r), Holds(a, r) PROVE EveryHour'
    <2>1. CASE FreeRetry(journal, r, TimeOf(r))
      BY <1>3, <2>1 DEF Holds, Hold, EveryHour
    <2>2. CASE ~ FreeRetry(journal, r, TimeOf(r))
      <3>1. PICK l \in Line : /\ l = LineOf(r, r.cid, "reserved", Len(journal) + 1)
                              /\ l.weight = r.weight /\ l.time = TimeOf(r)
        BY <1>3, CheckLine DEF TypeOK
      <3>2. journal' = Append(journal, l)
        BY <1>3, <2>2, <3>1 DEF Holds, Hold
      <3>3. Used(journal, l.time) + l.weight <= Limit
        <4>1. ~ (Used(journal, TimeOf(r)) + r.weight > Limit)
          BY <1>3, <2>2 DEF Holds, OverLimit
        <4>2. Used(journal, l.time) \in Nat /\ l.weight \in Nat /\ Limit \in Nat
          <5>1. l.time \in Int /\ l.time <= l.time /\ l.time < l.time + Hour
            BY HourAssumption DEF Line
          <5>2. Used(journal, l.time) \in Nat
            BY <5>1, JournalIsSound, UsedBoundsTheHour
          <5> QED
            BY <5>2, GuardAssumption DEF Line
        <4> QED
          BY <3>1, <4>1, <4>2
      <3> QED
        BY <3>2, <3>3, HourTaken
    <2> QED
      BY <2>1, <2>2
  <1> QED
    BY <1>1, <1>2, <1>3, CheckCases

LEMMA HourStep ==
  ASSUME Repeats = FALSE, "fallback" \notin Routes,
         TypeOK, PlacesInv, EveryHour, [Next]_vars
  PROVE  EveryHour'
  <1> USE DEF PlacesInv
  <1>1. CASE UNCHANGED journal
    BY <1>1 DEF EveryHour
  <1>2. ASSUME NEW a \in Attempts, CommandCheck(a) \/ ServerCheck(a) PROVE EveryHour'
    BY <1>2, HourChecked
  <1>3. ASSUME NEW a \in Attempts, Record(a) PROVE EveryHour'
    <2>1. PICK l \in Line : /\ journal' = Append(journal, l)
                            /\ l.weight = req[a].weight /\ l.time = TimeOf(req[a])
                            /\ IsAbout(l, req[a].of, req[a].chat, req[a].kind)
      BY <1>3, RecordLine
    <2>2. /\ pc[a] = "record" /\ InFlight(a) /\ req[a] \in Request /\ req[a].route # "fallback"
          /\ req[a].of = a
      BY <1>3 DEF Record, InFlight, TypeOK, Request, LinesInFlight
    <2>3. HoldsPlace(l) =>
            \E i \in Entries(journal) :
              HoldsPlace(journal[i]) /\ IsAbout(journal[i], req[a].of, req[a].chat, req[a].kind)
      <3>1. HoldsPlace(l) => KeepsPlace(req[a].of, req[a].chat, req[a].kind)
        BY <2>1, <2>2, KeptKeeps, ReservationKeeps DEF PlaceInHand, HoldsPlace, IsAbout
      <3> QED
        BY <3>1 DEF KeepsPlace, IsAbout
    <2>4. ASSUME NEW i \in Entries(journal), IsAbout(journal[i], req[a].of, req[a].chat, req[a].kind)
          PROVE  \A f \in {"of", "chat", "weight", "time"} : journal[i][f] = l[f]
      <3>1. i \in DOMAIN journal /\ journal[i].of = a
        BY <2>2, <2>4 DEF Entries, IsAbout
      <3>2. /\ journal[i].time = TimeOf(req[a]) /\ journal[i].weight = req[a].weight
        BY <2>2, <3>1 DEF LinesInFlight
      <3> QED
        BY <2>1, <2>4, <3>2 DEF IsAbout
    <2> QED
      BY <2>1, <2>3, <2>4, HourSettled
  <1>4. ASSUME NEW a \in Attempts,
               Type(a) \/ MaxAnswers(a) \/ MaxRefuses(a) \/ MaxNotReady(a) \/ NoAnswer(a)
                 \/ RecordFails(a) \/ Crash(a)
        PROVE  UNCHANGED journal
    BY <1>4 DEF Type, MaxAnswers, MaxRefuses, MaxNotReady, NoAnswer, RecordFails, Crash
  <1> QED
    BY <1>1, <1>2, <1>3, <1>4 DEF Next, Step, Tick, vars

LEMMA HourInit == Init => EveryHour
  <1> SUFFICES ASSUME Init, NEW w \in Nat PROVE Cardinality(MessagePlaces(journal, w)) <= Limit
    BY DEF EveryHour
  <1>1. MessagePlaces(journal, w) = {}
    BY DEF Init, MessagePlaces, InWindow, Entries
  <1> QED
    BY <1>1, FS_EmptySet, GuardAssumption

\* While owners repeat no unknown outcome and no write falls back to an unreserved send, no hour
\* of the journal holds more messages than the limit: however many commands run at once, and
\* whatever is scheduled ahead, crashes, is lost or is asked for again by #deliver.
THEOREM LimitHolds ==
  ASSUME Repeats = FALSE, "fallback" \notin Routes
  PROVE  Spec => []HourlyLimit
  <1>1. TypeOK /\ PlacesInv /\ EveryHour /\ [Next]_vars => EveryHour'
    BY HourStep
  <1>2. Spec => []EveryHour
    BY <1>1, HourInit, PlacesHold, PTL DEF Spec
  <1>3. TypeOK /\ EveryHour => HourlyLimit
    BY LineInJournal DEF EveryHour, HourlyLimit, Line
  <1> QED
    BY <1>2, <1>3, TypeCorrect, PTL
-----------------------------------------------------------------------------
\* Owners who repeat, while nothing is scheduled ahead.

\* What is in the journal has been, and what is asked for goes out at once.
LinesPassed ==
  /\ \A a \in Attempts : pc[a] # "idle" => req[a].scheduledFor = Immediate
  /\ \A i \in DOMAIN journal : journal[i].time <= now

\* A place of the last hour for the write of an attempt, that only it may still settle.
NearPlace(a, i) ==
  /\ HoldsPlace(journal[i]) /\ IsAbout(journal[i], req[a].of, req[a].chat, req[a].kind)
  /\ journal[i].weight = req[a].weight /\ now - journal[i].time < Hour
  /\ i = reservation[a] \/ \A b \in Attempts : reservation[b] = i => pc[b] = "dead"

PlaceIsNear ==
  \A a \in Attempts :
    pc[a] \in {"ask", "record"} /\ Counts(req[a].kind) /\ req[a].route # "fallback" =>
      \E i \in Entries(journal) : NearPlace(a, i)

RepeatInv == LinesPassed /\ PlaceIsNear

LEMMA PassedStep ==
  ASSUME Ahead = {}, TypeOK, LinesPassed, [Next]_vars
  PROVE  LinesPassed'
  <1>0. /\ now \in Nat /\ journal \in Seq(Line) /\ pc \in [Attempts -> {"idle", "check", "serverCheck", "ask", "record", "done", "dead"}]
        /\ req \in [Attempts -> Request \cup {NoRequest}]
        /\ \A i \in DOMAIN journal : journal[i].time \in Nat
    BY LineInJournal DEF TypeOK, Line
  <1>1. CASE UNCHANGED <<journal, req>> /\ now' \in {now, now + 1} /\ \A a \in Attempts : pc'[a] # "idle" => pc[a] # "idle"
    BY <1>0, <1>1 DEF LinesPassed
  <1>2. ASSUME NEW l \in Line, journal' = Append(journal, l), l.time <= now, UNCHANGED <<now, req>>,
               \A a \in Attempts : pc'[a] # "idle" => pc[a] # "idle"
        PROVE  LinesPassed'
    <2>1. \A i \in DOMAIN journal' : journal'[i].time <= now
      BY <1>0, <1>2, AppendLine DEF LinesPassed
    <2> QED
      BY <1>2, <2>1 DEF LinesPassed
  <1>3. CASE Tick \/ UNCHANGED vars
    BY <1>1, <1>3 DEF Tick, vars
  <1>4. ASSUME NEW a \in Attempts, Type(a) PROVE LinesPassed'
    <2>0. PICK kind \in SendKinds, chat \in Chats, route \in Routes :
           \E weight \in IF kind = "delete" THEN 1 .. MaxWeight ELSE {1}, of \in {a} \cup Repeatable(kind) :
           \E due \in {Immediate} \cup (IF kind = "message" /\ of = a THEN {now + d : d \in Ahead} ELSE {}) :
             req' = [req EXCEPT ![a] =
                      [ kind |-> kind, chat |-> chat, cid |-> IF kind \in WithCid THEN of ELSE NoCid, weight |-> weight,
                        scheduledFor |-> due, of |-> of, given |-> of # a, route |-> route ]]
      BY <1>4 DEF Type
    <2>1. PICK weight, of : \E due \in {Immediate} \cup (IF kind = "message" /\ of = a THEN {now + d : d \in Ahead} ELSE {}) :
             req' = [req EXCEPT ![a] =
                      [ kind |-> kind, chat |-> chat, cid |-> IF kind \in WithCid THEN of ELSE NoCid, weight |-> weight,
                        scheduledFor |-> due, of |-> of, given |-> of # a, route |-> route ]]
      BY <2>0
    <2>2. {Immediate} \cup (IF kind = "message" /\ of = a THEN {now + d : d \in Ahead} ELSE {}) = {Immediate}
      OBVIOUS
    <2>3. req' = [req EXCEPT ![a] =
                   [ kind |-> kind, chat |-> chat, cid |-> IF kind \in WithCid THEN of ELSE NoCid, weight |-> weight,
                     scheduledFor |-> Immediate, of |-> of, given |-> of # a, route |-> route ]]
      BY <2>1, <2>2
    <2>4. UNCHANGED <<now, journal>> /\ pc' = [pc EXCEPT ![a] = "check"]
      BY <1>4 DEF Type
    <2>5. req'[a].scheduledFor = Immediate /\ \A b \in Attempts \ {a} : req'[b] = req[b] /\ pc'[b] = pc[b]
      BY <1>0, <2>3, <2>4
    <2> QED
      BY <1>0, <2>4, <2>5 DEF LinesPassed
  <1>5. ASSUME NEW a \in Attempts, CommandCheck(a) \/ ServerCheck(a) PROVE LinesPassed'
    <2>1. pc[a] \in {"check", "serverCheck"} /\ UNCHANGED <<now, req>>
      BY <1>5, CheckCases
    <2>2. \E to : pc' = [pc EXCEPT ![a] = to]
      BY <1>5, CheckCases DEF Passes, Refuse, Holds
    <2>3. \A b \in Attempts : pc'[b] # "idle" => pc[b] # "idle"
      BY <1>0, <2>1, <2>2
    <2>4. CASE UNCHANGED journal
      BY <1>1, <2>1, <2>3, <2>4
    <2>5. ASSUME NEW r, Asked(a, r), NEW outcome \in {"reserved", "refused"}, NEW settles \in Nat,
                 journal' = Append(journal, LineOf(r, r.cid, outcome, settles))
          PROVE  LinesPassed'
      <3>1. PICK l \in Line : l = LineOf(r, r.cid, outcome, settles) /\ l.time = TimeOf(r)
        BY <2>5, CheckLine
      <3>2. r.scheduledFor = Immediate
        BY <2>1, <2>5 DEF Asked, LinesPassed
      <3>3. l.time <= now
        BY <1>0, <3>1, <3>2 DEF TimeOf
      <3> QED
        BY <1>2, <2>1, <2>3, <2>5, <3>1, <3>3
    <2>6. CASE Passes(a)
      BY <2>4, <2>6 DEF Passes
    <2>7. ASSUME NEW r, Asked(a, r), NEW answer, Refuse(a, r, answer) PROVE LinesPassed'
      BY <2>5, <2>7 DEF Refuse, Unsettled
    <2>8. ASSUME NEW r, Asked(a, r), Holds(a, r) PROVE LinesPassed'
      <3>1. Len(journal) + 1 \in Nat
        BY <1>0
      <3> QED
        BY <2>4, <2>5, <2>8, <3>1 DEF Holds, Hold
    <2> QED
      BY <1>5, <2>6, <2>7, <2>8, CheckCases
  <1>6. ASSUME NEW a \in Attempts,
               MaxAnswers(a) \/ MaxRefuses(a) \/ MaxNotReady(a) \/ NoAnswer(a) \/ RecordFails(a) \/ Crash(a)
        PROVE  LinesPassed'
    <2>1. UNCHANGED <<now, journal, req>> /\ pc[a] # "idle" /\ (UNCHANGED pc \/ \E to : pc' = [pc EXCEPT ![a] = to])
      BY <1>6 DEF MaxAnswers, MaxRefuses, MaxNotReady, NoAnswer, RecordFails, AfterRecord, Crash, InFlight
    <2> QED
      BY <1>0, <1>1, <2>1
  <1>7. ASSUME NEW a \in Attempts, Record(a) PROVE LinesPassed'
    <2>1. PICK l \in Line : journal' = Append(journal, l) /\ l.time = TimeOf(req[a])
      BY <1>7, RecordLine
    <2>2. UNCHANGED <<now, req>> /\ pc[a] = "record" /\ \E to : pc' = [pc EXCEPT ![a] = to]
      BY <1>7 DEF Record, AfterRecord
    <2>3. l.time <= now
      BY <1>0, <2>1, <2>2 DEF LinesPassed, TimeOf
    <2> QED
      BY <1>0, <1>2, <2>1, <2>2, <2>3
  <1> QED
    BY <1>3, <1>4, <1>5, <1>6, <1>7 DEF Next, Step

\* A check that lets a write through knows a place of the last hour for it.
LEMMA HeldNear ==
  ASSUME TypeOK, PlacesInv, LinesPassed, [Next]_vars, NEW a \in Attempts, pc[a] \in {"check", "serverCheck"},
         NEW r, Asked(a, r), Holds(a, r), UNCHANGED <<now, req>>
  PROVE  \E i \in Entries(journal') : NearPlace(a, i)'
  <1>0. /\ journal \in Seq(Line) /\ now \in Nat /\ Len(journal) + 1 \in Nat /\ reservation \in [Attempts -> Nat]
        /\ TimeOf(r) = now /\ req[a] \in Request /\ r.kind = req[a].kind /\ r.weight = req[a].weight
        /\ pc' = [pc EXCEPT ![a] = "ask"] /\ Counts(r.kind)
    BY DEF TypeOK, LinesPassed, Asked, TimeOf, Holds
  <1>1. CASE FreeRetry(journal, r, TimeOf(r))
    <2>1. PICK i \in Entries(journal) :
            /\ HoldsPlace(journal[i]) /\ IsAbout(journal[i], req[a].of, req[a].chat, req[a].kind)
            /\ \A b \in Attempts : reservation[b] # i
            /\ Near(journal[i].time, TimeOf(r)) /\ journal[i].weight = 1 /\ req[a].cid # NoCid
      BY <1>1, FreeRetryKept DEF PlacesInv
    <2>2. req[a].weight = 1
      BY <2>1 DEF PlacesInv, CidsNameMessages, WithCid
    <2>3. /\ i \in Entries(journal') /\ journal'[i] = journal[i]
          /\ \A b \in Attempts : reservation'[b] = i => pc'[b] = "dead"
      BY <2>1, EntryKept DEF PlacesInv
    <2>4. now - journal[i].time < Hour
      BY <1>0, <2>1 DEF Near
    <2> QED
      BY <2>1, <2>2, <2>3, <2>4 DEF NearPlace
  <1>2. CASE ~ FreeRetry(journal, r, TimeOf(r))
    <2> DEFINE n == Len(journal) + 1
    <2>1. PICK l \in Line :
            /\ l = LineOf(r, r.cid, "reserved", n) /\ l.outcome = "reserved" /\ l.reservation = n
            /\ l.weight = r.weight /\ l.time = TimeOf(r) /\ l.kind = r.kind
            /\ IsAbout(l, req[a].of, req[a].chat, req[a].kind)
      BY <1>0, CheckLine
    <2>2. journal' = Append(journal, l) /\ reservation' = [reservation EXCEPT ![a] = n]
      BY <1>2, <2>1 DEF Holds, Hold
    <2>3. n \in Entries(journal') /\ journal'[n] = l
      <3>1. \A i \in DOMAIN journal : journal[i].reservation # n
        BY <1>0 DEF PlacesInv, LinesAreNumbered
      <3> QED
        BY <1>0, <2>1, <2>2, <3>1, AppendLine DEF Entries
    <2>4. HoldsPlace(l)
      BY <1>0, <2>1 DEF HoldsPlace
    <2>5. reservation'[a] = n /\ now - l.time < Hour
      BY <1>0, <2>1, <2>2, HourAssumption
    <2> QED
      BY <1>0, <2>1, <2>3, <2>4, <2>5 DEF NearPlace
  <1> QED
    BY <1>1, <1>2

\* Only a recorded outcome settles a reservation.
LEMMA AppendsUnlessRecord ==
  ASSUME TypeOK, [Next]_vars, ~ \E a \in Attempts : Record(a)
  PROVE  \/ UNCHANGED journal
         \/ \E l \in Line : journal' = Append(journal, l) /\ (l.outcome = "reserved" \/ l.reservation = Unsettled)
  <1>1. CASE Tick \/ UNCHANGED vars
    BY <1>1 DEF Tick, vars
  <1>2. ASSUME NEW a \in Attempts,
               Type(a) \/ MaxAnswers(a) \/ MaxRefuses(a) \/ MaxNotReady(a) \/ NoAnswer(a) \/ RecordFails(a) \/ Crash(a)
        PROVE  UNCHANGED journal
    BY <1>2 DEF Type, MaxAnswers, MaxRefuses, MaxNotReady, NoAnswer, RecordFails, Crash
  <1>3. ASSUME NEW a \in Attempts, CommandCheck(a) \/ ServerCheck(a)
        PROVE  \/ UNCHANGED journal
               \/ \E l \in Line : journal' = Append(journal, l) /\ (l.outcome = "reserved" \/ l.reservation = Unsettled)
    <2>1. CASE Passes(a)
      BY <2>1 DEF Passes
    <2>2. ASSUME NEW r, Asked(a, r), NEW answer, Refuse(a, r, answer)
          PROVE  \E l \in Line : journal' = Append(journal, l) /\ l.reservation = Unsettled
      <3>1. PICK l \in Line : l = LineOf(r, r.cid, "refused", Unsettled) /\ l.reservation = Unsettled
        BY <2>2, CheckLine DEF Unsettled
      <3> QED
        BY <2>2, <3>1 DEF Refuse
    <2>3. ASSUME NEW r, Asked(a, r), Holds(a, r)
          PROVE  UNCHANGED journal \/ \E l \in Line : journal' = Append(journal, l) /\ l.outcome = "reserved"
      <3>1. PICK l \in Line : l = LineOf(r, r.cid, "reserved", Len(journal) + 1) /\ l.outcome = "reserved"
        BY <2>3, CheckLine DEF TypeOK
      <3> QED
        BY <2>3, <3>1 DEF Holds, Hold
    <2> QED
      BY <1>3, <2>1, <2>2, <2>3, CheckCases
  <1> QED
    BY <1>1, <1>2, <1>3 DEF Next, Step

LEMMA NearStep ==
  ASSUME "fallback" \notin Routes, TypeOK, PlacesInv, LinesPassed, PlaceIsNear, [Next]_vars
  PROVE  PlaceIsNear'
  <1> SUFFICES ASSUME NEW b \in Attempts, pc'[b] \in {"ask", "record"}, Counts(req'[b].kind), req'[b].route # "fallback"
               PROVE  \E i \in Entries(journal') : NearPlace(b, i)'
    BY DEF PlaceIsNear
  <1>0. /\ pc \in [Attempts -> {"idle", "check", "serverCheck", "ask", "record", "done", "dead"}]
        /\ req \in [Attempts -> Request \cup {NoRequest}] /\ reservation \in [Attempts -> Nat]
        /\ journal \in Seq(Line)
    BY DEF TypeOK
  \* Who waits or records has its place already.
  <1>1. ASSUME pc[b] \in {"ask", "record"}, req'[b] = req[b], reservation'[b] = reservation[b], now' = now
        PROVE  \E i \in Entries(journal') : NearPlace(b, i)'
    <2>1. PICK i \in Entries(journal) : NearPlace(b, i)
      BY <1>1 DEF PlaceIsNear
    <2>2. CASE \A a \in Attempts : reservation[a] = i => pc[a] = "dead"
      <3>1. /\ i \in Entries(journal') /\ journal'[i] = journal[i]
            /\ \A a \in Attempts : reservation'[a] = i => pc'[a] = "dead"
        BY <2>2, EntryKept DEF PlacesInv
      <3> QED
        BY <1>1, <2>1, <3>1 DEF NearPlace
    <2>3. CASE i = reservation[b]
      <3>1. i \in Entries(journal') /\ journal'[i] = journal[i]
        <4>1. i \in 1 .. Len(journal) /\ i # Unsettled
          BY <1>0 DEF Entries, Unsettled
        <4>2. /\ journal[i].outcome = "reserved" /\ journal[i].reservation = i
              /\ \A a \in Attempts : reservation[a] = i => a = b
          BY <2>3, <4>1 DEF PlacesInv, ReservationsAreOpen, LinesAreNumbered
        <4>3. CASE UNCHANGED journal
          BY <4>3
        <4>4. ASSUME NEW l \in Line, journal' = Append(journal, l), l.outcome = "reserved" \/ l.reservation # i
              PROVE  i \in Entries(journal') /\ journal'[i] = journal[i]
          BY <1>0, <4>1, <4>2, <4>4, EntryStays
        <4>5. ASSUME NEW a \in Attempts, Record(a) PROVE i \in Entries(journal') /\ journal'[i] = journal[i]
          <5>1. PICK l \in Line : journal' = Append(journal, l) /\ l.reservation = reservation[a]
            BY <4>5, RecordLine
          <5>2. a # b
            BY <1>0, <4>5 DEF Record, AfterRecord
          <5> QED
            BY <4>2, <4>4, <5>1, <5>2
        <4>6. ASSUME ~ \E a \in Attempts : Record(a) PROVE i \in Entries(journal') /\ journal'[i] = journal[i]
          <5>1. UNCHANGED journal \/ \E l \in Line : journal' = Append(journal, l) /\ (l.outcome = "reserved" \/ l.reservation = Unsettled)
            BY <4>6, AppendsUnlessRecord
          <5> QED
            BY <4>1, <4>3, <4>4, <5>1
        <4> QED
          BY <4>5, <4>6
      <3> QED
        BY <1>1, <2>1, <2>3, <3>1 DEF NearPlace
    <2> QED
      BY <2>1, <2>2, <2>3 DEF NearPlace
  <1>2. CASE Tick
    BY <1>2 DEF Tick, InFlight
  <1>3. CASE UNCHANGED vars
    BY <1>1, <1>3 DEF vars
  <1>4. ASSUME NEW a \in Attempts, Type(a) PROVE pc[b] \in {"ask", "record"} /\ req'[b] = req[b] /\ reservation'[b] = reservation[b] /\ now' = now
    BY <1>0, <1>4 DEF Type
  <1>5. ASSUME NEW a \in Attempts, CommandCheck(a) \/ ServerCheck(a)
        PROVE  \E i \in Entries(journal') : NearPlace(b, i)'
    <2>1. pc[a] \in {"check", "serverCheck"} /\ UNCHANGED <<now, req>>
      BY <1>5, CheckCases
    <2>2. CASE Passes(a)
      <3>1. b # a \/ ~ Counts(req[a].kind) \/ req[a].route = "fallback"
        BY <1>0, <2>1, <2>2 DEF Passes
      <3> QED
        BY <1>0, <1>1, <2>1, <2>2, <3>1 DEF Passes
    <2>3. ASSUME NEW r, NEW answer, Refuse(a, r, answer) PROVE \E i \in Entries(journal') : NearPlace(b, i)'
      BY <1>0, <1>1, <2>1, <2>3 DEF Refuse
    <2>4. ASSUME NEW r, Asked(a, r), Holds(a, r) PROVE \E i \in Entries(journal') : NearPlace(b, i)'
      <3>1. CASE b = a
        BY <2>1, <2>4, <3>1, HeldNear
      <3>2. CASE b # a
        <4>1. pc[b] \in {"ask", "record"} /\ reservation'[b] = reservation[b]
          BY <1>0, <2>4, <3>2 DEF Holds, Hold
        <4> QED
          BY <1>1, <2>1, <4>1
      <3> QED
        BY <3>1, <3>2
    <2> QED
      BY <1>5, <2>2, <2>3, <2>4, CheckCases
  <1>6. ASSUME NEW a \in Attempts,
               MaxAnswers(a) \/ MaxRefuses(a) \/ MaxNotReady(a) \/ NoAnswer(a) \/ Record(a) \/ RecordFails(a) \/ Crash(a)
        PROVE  pc[b] \in {"ask", "record"} /\ req'[b] = req[b] /\ reservation'[b] = reservation[b] /\ now' = now
    BY <1>0, <1>6 DEF MaxAnswers, MaxRefuses, MaxNotReady, NoAnswer, Record, RecordFails, AfterRecord, Crash
  <1> QED
    BY <1>1, <1>2, <1>3, <1>4, <1>5, <1>6 DEF Next, Step

\* What is recorded now of a message that has a place in the last hour adds nothing to any hour: all that
\* an hour with this moment in it has is in the last hour too.
LEMMA HourRepeated ==
  ASSUME TypeOK, CidsNameMessages, LinesPassed, EveryHour, NEW l \in Line, journal' = Append(journal, l), l.time = now,
         HoldsPlace(l) =>
           \E i \in Entries(journal) :
             /\ HoldsPlace(journal[i]) /\ now - journal[i].time < Hour
             /\ \A f \in {"of", "chat", "weight"} : journal[i][f] = l[f]
  PROVE  EveryHour'
  <1> SUFFICES ASSUME NEW w \in Nat PROVE Cardinality(MessagePlaces(journal', w)) <= Limit
    BY DEF EveryHour
  <1> DEFINE v == IF now < Hour THEN 0 ELSE now - Hour + 1
  <1>0. /\ Sound(journal) /\ journal \in Seq(Line) /\ now \in Nat /\ Hour \in Nat \ {0} /\ Limit \in Nat
        /\ \A i \in DOMAIN journal : journal[i].time \in Nat /\ journal[i].time <= now
    BY JournalIsSound, LineInJournal, HourAssumption, GuardAssumption DEF TypeOK, Line, LinesPassed
  <1>1. v \in Nat /\ v <= now /\ now < v + Hour 
    BY <1>0
  <1>5. ASSUME NEW t \in Nat, t <= now, now - t < Hour PROVE v <= t /\ t < v + Hour
    BY <1>0, <1>5
  <1> HIDE DEF v
  <1>2. ASSUME NEW u \in Nat, MessagePlaces(journal', w) \subseteq MessagePlaces(journal, u)
        PROVE  Cardinality(MessagePlaces(journal', w)) <= Limit
    <2>1. IsFiniteSet(MessagePlaces(journal, u))
      <3>1. u \in Int /\ u <= u /\ u < u + Hour
        BY <1>0
      <3> QED
        BY <1>0, <3>1, UsedBoundsTheHour
    <2>2. /\ IsFiniteSet(MessagePlaces(journal', w))
          /\ Cardinality(MessagePlaces(journal', w)) <= Cardinality(MessagePlaces(journal, u))
      BY <1>2, <2>1, FS_Subset
    <2>3. Cardinality(MessagePlaces(journal, u)) <= Limit
      BY DEF EveryHour
    <2>4. Cardinality(MessagePlaces(journal', w)) \in Nat /\ Cardinality(MessagePlaces(journal, u)) \in Nat
      BY <2>1, <2>2, FS_CardinalityType
    <2> QED
      BY <1>0, <2>2, <2>3, <2>4
  <1>3. CASE ~ (HoldsPlace(l) /\ w <= l.time /\ l.time < w + Hour)
    <2>1. MessagePlaces(journal', w) \subseteq MessagePlaces(journal, w)
      BY <1>0, <1>3, PlacesAppend
    <2> QED
      BY <1>2, <2>1
  <1>4. CASE HoldsPlace(l) /\ w <= l.time /\ l.time < w + Hour
    <2>1. PICK i \in Entries(journal) :
            /\ HoldsPlace(journal[i]) /\ now - journal[i].time < Hour
            /\ journal[i].of = l.of /\ journal[i].chat = l.chat /\ journal[i].weight = l.weight
      BY <1>4
    <2>2. InWindow(journal, w) \subseteq InWindow(journal, v)
      <3> SUFFICES ASSUME NEW j \in InWindow(journal, w) PROVE j \in InWindow(journal, v)
        OBVIOUS
      <3>1. j \in Entries(journal) /\ HoldsPlace(journal[j]) /\ w <= journal[j].time /\ j \in DOMAIN journal
        BY DEF InWindow, Entries
      <3>2. v <= journal[j].time /\ journal[j].time < v + Hour
        <4>1. journal[j].time \in Nat /\ journal[j].time <= now
          BY <1>0, <3>1
        <4>2. now - journal[j].time < Hour
          BY <1>0, <1>4, <3>1, <4>1
        <4> QED
          BY <1>5, <4>1, <4>2
      <3> QED
        BY <3>1, <3>2 DEF InWindow
    <2>3. MessagePlaces(journal, w) \subseteq MessagePlaces(journal, v)
      BY <2>2 DEF MessagePlaces
    <2>4. i \in InWindow(journal, v)
      <3>1. journal[i].time \in Nat /\ journal[i].time <= now
        BY <1>0 DEF Entries
      <3>2. v <= journal[i].time /\ journal[i].time < v + Hour
        BY <1>5, <2>1, <3>1
      <3> QED
        BY <2>1, <3>2 DEF InWindow
    <2>5. {<<l.of, l.chat>>} \X (1 .. l.weight) \subseteq MessagePlaces(journal, v)
      BY <2>1, <2>4 DEF MessagePlaces
    <2>6. MessagePlaces(journal', w) \subseteq MessagePlaces(journal, w) \cup ({<<l.of, l.chat>>} \X (1 .. l.weight))
      BY <1>0, <1>4, PlacesAppend
    <2>7. MessagePlaces(journal', w) \subseteq MessagePlaces(journal, v)
      BY <2>3, <2>5, <2>6
    <2> QED
      BY <1>1, <1>2, <2>7
  <1> QED
    BY <1>3, <1>4

LEMMA HourRepeatStep ==
  ASSUME Ahead = {}, "fallback" \notin Routes, TypeOK, PlacesInv, RepeatInv, EveryHour, [Next]_vars
  PROVE  EveryHour'
  <1>1. CASE UNCHANGED journal
    BY <1>1 DEF EveryHour
  <1>2. ASSUME NEW a \in Attempts, Record(a) PROVE EveryHour'
    <2>1. PICK l \in Line : /\ journal' = Append(journal, l)
                            /\ l.weight = req[a].weight /\ l.time = TimeOf(req[a])
                            /\ IsAbout(l, req[a].of, req[a].chat, req[a].kind)
      BY <1>2, RecordLine
    <2>2. pc[a] = "record" /\ req[a].route # "fallback" /\ l.time = now
      BY <1>2, <2>1 DEF Record, TypeOK, Request, RepeatInv, LinesPassed, TimeOf
    <2>3. HoldsPlace(l) =>
            \E i \in Entries(journal) :
              /\ HoldsPlace(journal[i]) /\ now - journal[i].time < Hour
              /\ \A f \in {"of", "chat", "weight"} : journal[i][f] = l[f]
      BY <2>1, <2>2 DEF RepeatInv, PlaceIsNear, NearPlace, HoldsPlace, IsAbout
    <2> QED
      BY <2>1, <2>2, <2>3, HourRepeated DEF PlacesInv, RepeatInv
  <1>3. ASSUME NEW a \in Attempts,
               Type(a) \/ MaxAnswers(a) \/ MaxRefuses(a) \/ MaxNotReady(a) \/ NoAnswer(a) \/ RecordFails(a) \/ Crash(a)
        PROVE  UNCHANGED journal
    BY <1>3 DEF Type, MaxAnswers, MaxRefuses, MaxNotReady, NoAnswer, RecordFails, Crash
  <1> QED
    BY <1>1, <1>2, <1>3, HourChecked DEF Next, Step, Tick, vars

\* Owners may repeat their unknown outcomes, with the cid they were shown and as often as they like: as long as
\* nothing is scheduled ahead no hour of the journal holds more messages than the limit, though a repeat
\* takes no place of its own and is recorded in an hour its message was not in (withinLimit, freeRetry).
THEOREM LimitHoldsWithRepeats ==
  ASSUME Ahead = {}, "fallback" \notin Routes
  PROVE  Spec => []HourlyLimit
  <1>1. Init => RepeatInv
    BY DEF Init, RepeatInv, LinesPassed, PlaceIsNear
  <1>2. TypeOK /\ PlacesInv /\ RepeatInv /\ [Next]_vars => RepeatInv'
    BY PassedStep, NearStep DEF RepeatInv
  <1>3. TypeOK /\ PlacesInv /\ RepeatInv /\ EveryHour /\ [Next]_vars => EveryHour'
    BY HourRepeatStep
  <1>4. Spec => []EveryHour
    BY <1>1, <1>2, <1>3, HourInit, PlacesHold, PTL DEF Spec
  <1>5. TypeOK /\ EveryHour => HourlyLimit
    BY LineInJournal DEF EveryHour, HourlyLimit, Line
  <1> QED
    BY <1>4, <1>5, TypeCorrect, PTL
-----------------------------------------------------------------------------
\* What commands are told.

\* The delivery of what a command drew is nobody else's until it has said "outcome_unknown".
OwnMessage(a) ==
  pc[a] # "idle" /\ req[a].kind \in WithCid /\ ~ req[a].given

OnlyUnknownRepeated ==
  \A a \in Attempts :
    pc[a] # "idle" =>
      /\ req[a].given <=> req[a].of # a
      /\ req[a].of # a => told[req[a].of] = "outcome_unknown"

ToldAtTheEnd ==
  \A a \in Attempts :
    /\ told[a] # "none" => pc[a] \in {"record", "done", "dead"}
    /\ pc[a] \in {"idle", "check"} => tries[a] = 1

DeliveredWasTyped ==
  \A d \in delivered : pc[d.of] # "idle"

OwnIsKnown ==
  \A a \in Attempts :
    OwnMessage(a) =>
      /\ told[a] = "sent" => Delivery(a) \in delivered
      /\ told[a] = "failed" => Delivery(a) \notin delivered
      /\ told[a] = "none" /\ tries[a] = 1 /\ pc[a] \in {"check", "serverCheck", "ask"} =>
           Delivery(a) \notin delivered

ToldInv == OnlyUnknownRepeated /\ ToldAtTheEnd /\ DeliveredWasTyped /\ OwnIsKnown

LEMMA ToldInit == Init => ToldInv
  BY DEF Init, ToldInv, OnlyUnknownRepeated, ToldAtTheEnd, DeliveredWasTyped, OwnIsKnown, OwnMessage

\* A step of one command that knows its request.
OnlyOf(a) ==
  /\ pc[a] # "idle" /\ pc'[a] \notin {"idle", "check"}
  /\ req' = req
  /\ delivered' \in {delivered, delivered \cup {Delivery(a)}}
  /\ \A b \in Attempts \ {a} : pc'[b] = pc[b] /\ told'[b] = told[b] /\ tries'[b] = tries[b]

\* What it says is said once, at the end, and is so of its own message.
SaysTruly(a) ==
  /\ told[a] # "none" => told'[a] = told[a]
  /\ told'[a] # "none" => pc'[a] \in {"record", "done", "dead"}
  /\ OwnMessage(a) =>
       /\ told'[a] = "sent" => Delivery(a) \in delivered'
       /\ told'[a] = "failed" => Delivery(a) \notin delivered'
       /\ told'[a] = "none" /\ tries'[a] = 1 /\ pc'[a] \in {"serverCheck", "ask"} =>
            Delivery(a) \notin delivered'

LEMMA ToldMove ==
  ASSUME TypeOK, ToldInv, NEW a \in Attempts, OnlyOf(a), SaysTruly(a)
  PROVE  ToldInv'
  <1>1. \A b \in Attempts : pc[b] # "idle" <=> pc'[b] # "idle"
    BY DEF OnlyOf
  <1>2. \A b \in Attempts : told[b] # "none" => told'[b] = told[b]
    BY DEF OnlyOf, SaysTruly
  <1>3. \A b \in Attempts : OwnMessage(b)' <=> OwnMessage(b)
    BY <1>1 DEF OnlyOf, OwnMessage
  <1>4. \A b \in Attempts : Delivery(b)' = Delivery(b)
    BY DEF OnlyOf, Delivery
  <1>5. OnlyUnknownRepeated'
    <2> SUFFICES ASSUME NEW b \in Attempts, pc'[b] # "idle"
                 PROVE  /\ req[b].given <=> req[b].of # b
                        /\ req[b].of # b => told'[req[b].of] = "outcome_unknown"
      BY DEF OnlyUnknownRepeated, OnlyOf
    <2>1. req[b] \in Request /\ req[b].of \in Attempts
      BY <1>1 DEF TypeOK, Request
    <2> QED
      BY <1>1, <1>2, <2>1 DEF ToldInv, OnlyUnknownRepeated
  <1>6. ToldAtTheEnd'
    BY DEF ToldInv, ToldAtTheEnd, OnlyOf, SaysTruly
  <1>7. DeliveredWasTyped'
    <2>1. \A d \in delivered : d.of \in Attempts
      BY DEF TypeOK
    <2>2. req[a].of \in Attempts /\ pc[req[a].of] # "idle"
      <3>1. req[a] \in Request
        BY DEF TypeOK, OnlyOf
      <3>2. req[a].of = a \/ told[req[a].of] = "outcome_unknown"
        BY DEF OnlyOf, ToldInv, OnlyUnknownRepeated
      <3> QED
        BY <3>1, <3>2 DEF OnlyOf, ToldInv, ToldAtTheEnd, Request
    <2>3. Delivery(a).of = req[a].of
      BY DEF Delivery
    <2> QED
      BY <1>1, <2>1, <2>2, <2>3 DEF ToldInv, DeliveredWasTyped, OnlyOf
  <1>8. OwnIsKnown'
    <2> SUFFICES ASSUME NEW b \in Attempts, OwnMessage(b)
                 PROVE  /\ told'[b] = "sent" => Delivery(b) \in delivered'
                        /\ told'[b] = "failed" => Delivery(b) \notin delivered'
                        /\ told'[b] = "none" /\ tries'[b] = 1 /\ pc'[b] \in {"check", "serverCheck", "ask"} =>
                             Delivery(b) \notin delivered'
      BY <1>3, <1>4 DEF OwnIsKnown
    <2>1. CASE b = a
      BY <2>1 DEF OnlyOf, SaysTruly
    <2>2. CASE b # a /\ Delivery(a) # Delivery(b)
      <3>1. Delivery(b) \in delivered' <=> Delivery(b) \in delivered
        BY <2>2 DEF OnlyOf
      <3> QED
        BY <2>2, <3>1 DEF OnlyOf, ToldInv, OwnIsKnown
    <2>3. CASE b # a /\ Delivery(a) = Delivery(b)
      <3>1. req[a].of = req[b].of
        BY <2>3 DEF Delivery
      <3>2. req[b].of = b
        BY DEF OwnMessage, ToldInv, OnlyUnknownRepeated
      <3>3. told[b] = "outcome_unknown"
        BY <2>3, <3>1, <3>2 DEF OnlyOf, ToldInv, OnlyUnknownRepeated
      <3> QED
        BY <2>3, <3>3 DEF OnlyOf
    <2> QED
      BY <2>1, <2>2, <2>3
  <1> QED
    BY <1>5, <1>6, <1>7, <1>8 DEF ToldInv

\* What is typed is new, or asks for what is told to be unknown.
LEMMA ToldTyped ==
  ASSUME TypeOK, ToldInv, NEW a \in Attempts, Type(a)
  PROVE  ToldInv'
  <1>1. PICK r \in Request :
          /\ req' = [req EXCEPT ![a] = r]
          /\ r.given <=> r.of # a
          /\ r.of # a => told[r.of] = "outcome_unknown"
    BY TypeType
  <1>2. /\ pc[a] = "idle" /\ pc' = [pc EXCEPT ![a] = "check"]
        /\ UNCHANGED <<delivered, tries, told>>
    BY DEF Type
  <1>3. req'[a] = r /\ pc'[a] = "check"
        /\ \A b \in Attempts \ {a} : req'[b] = req[b] /\ pc'[b] = pc[b]
    BY <1>1, <1>2 DEF TypeOK
  <1>4. told[a] = "none" /\ tries[a] = 1
    BY <1>2 DEF ToldInv, ToldAtTheEnd
  <1>5. OnlyUnknownRepeated'
    BY <1>1, <1>2, <1>3 DEF ToldInv, OnlyUnknownRepeated
  <1>6. ToldAtTheEnd'
    BY <1>2, <1>3, <1>4 DEF ToldInv, ToldAtTheEnd
  <1>7. DeliveredWasTyped'
    <2>1. \A d \in delivered : d.of \in Attempts
      BY DEF TypeOK
    <2> QED
      BY <1>2, <1>3, <2>1 DEF ToldInv, DeliveredWasTyped
  <1>8. OwnIsKnown'
    <2> SUFFICES ASSUME NEW b \in Attempts, OwnMessage(b)'
                 PROVE  /\ told[b] = "sent" => Delivery(b)' \in delivered
                        /\ told[b] = "failed" => Delivery(b)' \notin delivered
                        /\ told[b] = "none" /\ tries[b] = 1 /\ pc'[b] \in {"check", "serverCheck", "ask"} =>
                             Delivery(b)' \notin delivered
      BY <1>2 DEF OwnIsKnown
    <2>1. CASE b = a
      <3>1. Delivery(b)'.of = a
        BY <1>1, <1>3, <2>1 DEF OwnMessage, Delivery
      <3>2. Delivery(b)' \notin delivered
        BY <1>2, <3>1 DEF ToldInv, DeliveredWasTyped
      <3> QED
        BY <1>4, <2>1, <3>2
    <2>2. CASE b # a
      <3>1. OwnMessage(b) /\ Delivery(b)' = Delivery(b)
        BY <1>3, <2>2 DEF OwnMessage, Delivery
      <3> QED
        BY <1>3, <2>2, <3>1 DEF ToldInv, OwnIsKnown
    <2> QED
      BY <2>1, <2>2
  <1> QED
    BY <1>5, <1>6, <1>7, <1>8 DEF ToldInv

\* A check says "failed" only of a first request.
LEMMA ToldChecked ==
  ASSUME TypeOK, ToldInv, NEW a \in Attempts, CommandCheck(a) \/ ServerCheck(a)
  PROVE  OnlyOf(a) /\ SaysTruly(a)
  <1>1. /\ pc[a] \in {"check", "serverCheck"}
        /\ UNCHANGED <<now, delivered, req, tries, result>>
        /\ \/ Passes(a)
           \/ \E r : \E answer \in {"failed", "outcome_unknown"} : Refuse(a, r, answer)
           \/ \E r : Holds(a, r)
    BY CheckCases
  <1>2. told[a] = "none"
    BY <1>1 DEF ToldInv, ToldAtTheEnd
  <1>3. CASE told' = told /\ \E to \in {"serverCheck", "ask"} : pc' = [pc EXCEPT ![a] = to]
    <2>1. OnlyOf(a)
      BY <1>1, <1>3 DEF OnlyOf, TypeOK
    <2> QED
      BY <1>1, <1>2, <1>3, <2>1 DEF SaysTruly, ToldInv, OwnIsKnown
  <1>4. CASE \E r : \E answer \in {"failed", "outcome_unknown"} : Refuse(a, r, answer)
    <2>1. PICK r : \E answer \in {"failed", "outcome_unknown"} :
                     Refuse(a, r, answer) /\ (answer = "failed" => tries[a] = 1)
      <3>1. CASE CommandCheck(a) /\ ~ Refuse(a, CommandAsks(req[a]), "failed")
        <4>1. pc'[a] = "done"
          BY <1>4 DEF Refuse, TypeOK
        <4>2. \E to \in {"serverCheck", "ask"} : pc' = [pc EXCEPT ![a] = to]
          BY <3>1 DEF CommandCheck
        <4> QED
          BY <4>1, <4>2 DEF TypeOK
      <3>2. CASE CommandCheck(a) /\ Refuse(a, CommandAsks(req[a]), "failed")
        <4>1. tries[a] = 1
          BY <3>2 DEF CommandCheck, ToldInv, ToldAtTheEnd
        <4> QED
          BY <3>2, <4>1
      <3>3. CASE ServerCheck(a)
        BY <1>4, <3>3 DEF ServerCheck, Refuse, TypeOK
      <3> QED
        BY <3>1, <3>2, <3>3
    <2>2. PICK answer \in {"failed", "outcome_unknown"} :
            Refuse(a, r, answer) /\ (answer = "failed" => tries[a] = 1)
      BY <2>1
    <2>3. told' = [told EXCEPT ![a] = answer] /\ pc' = [pc EXCEPT ![a] = "done"]
      BY <2>2 DEF Refuse
    <2>4. OnlyOf(a)
      BY <1>1, <2>3 DEF OnlyOf, TypeOK
    <2> QED
      BY <1>1, <1>2, <2>2, <2>3, <2>4 DEF SaysTruly, ToldInv, OwnIsKnown, TypeOK
  <1>5. Passes(a) => told' = told /\ \E to \in {"serverCheck", "ask"} : pc' = [pc EXCEPT ![a] = to]
    BY DEF Passes
  <1>6. ASSUME NEW r, Holds(a, r)
        PROVE  told' = told /\ \E to \in {"serverCheck", "ask"} : pc' = [pc EXCEPT ![a] = to]
    BY <1>6 DEF Holds
  <1> QED
    BY <1>1, <1>3, <1>4, <1>5, <1>6

LEMMA ToldStep ==
  ASSUME CacheMayFail = FALSE, TypeOK, ToldInv, [Next]_vars
  PROVE  ToldInv'
  <1>1. CASE UNCHANGED <<pc, req, delivered, told, tries>>
    BY <1>1 DEF ToldInv, OnlyUnknownRepeated, ToldAtTheEnd, DeliveredWasTyped, OwnIsKnown,
                OwnMessage, Delivery
  <1>2. ASSUME NEW a \in Attempts, MaxAnswers(a) PROVE OnlyOf(a) /\ SaysTruly(a)
    <2>1. /\ pc[a] = "ask" /\ pc' = [pc EXCEPT ![a] = "record"]
          /\ delivered' = delivered \cup {Delivery(a)}
          /\ told' = [told EXCEPT ![a] = "sent"] /\ req' = req /\ tries' = tries
      BY <1>2 DEF MaxAnswers
    <2>2. OnlyOf(a) /\ told[a] = "none"
      BY <2>1 DEF OnlyOf, TypeOK, ToldInv, ToldAtTheEnd
    <2> QED
      BY <2>1, <2>2 DEF SaysTruly, TypeOK
  <1>3. ASSUME NEW a \in Attempts, MaxRefuses(a) PROVE OnlyOf(a) /\ SaysTruly(a)
    <2>1. /\ pc[a] = "ask" /\ pc' = [pc EXCEPT ![a] = "record"]
          /\ told' = [told EXCEPT ![a] = IF tries[a] = 2 THEN "outcome_unknown" ELSE "failed"]
          /\ UNCHANGED <<delivered, req, tries>>
      BY <1>3 DEF MaxRefuses
    <2>2. OnlyOf(a) /\ told[a] = "none" /\ tries[a] \in {1, 2}
      BY <2>1 DEF OnlyOf, TypeOK, ToldInv, ToldAtTheEnd
    <2> QED
      BY <2>1, <2>2 DEF SaysTruly, TypeOK, ToldInv, OwnIsKnown
  <1>4. ASSUME NEW a \in Attempts, MaxNotReady(a) PROVE OnlyOf(a) /\ SaysTruly(a)
    <2>1. /\ pc[a] = "ask"
          /\ \/ pc' = [pc EXCEPT ![a] = "serverCheck"] /\ told' = told
             \/ pc' = [pc EXCEPT ![a] = "done"] /\ told' = [told EXCEPT ![a] = "outcome_unknown"]
          /\ UNCHANGED <<delivered, req, tries>>
      BY <1>4 DEF MaxNotReady
    <2>2. OnlyOf(a) /\ told[a] = "none"
      BY <2>1 DEF OnlyOf, TypeOK, ToldInv, ToldAtTheEnd
    <2> QED
      BY <2>1, <2>2 DEF SaysTruly, TypeOK, ToldInv, OwnIsKnown
  <1>5. ASSUME NEW a \in Attempts, NoAnswer(a) PROVE OnlyOf(a) /\ SaysTruly(a)
    <2>1. /\ pc[a] = "ask" /\ req' = req
          /\ delivered' \in {delivered, delivered \cup {Delivery(a)}}
      BY <1>5 DEF NoAnswer
    <2>2. \/ pc' = pc /\ told' = told /\ tries' = [tries EXCEPT ![a] = 2]
          \/ /\ pc' = [pc EXCEPT ![a] = "record"] /\ tries' = tries
             /\ \E answer \in {"none", "outcome_unknown", "failed"} :
                  /\ told' = [told EXCEPT ![a] = answer]
                  /\ answer = "failed" => req[a].kind \notin WithCid
      BY ZenonT(30), <1>5 DEF NoAnswer
    <2>3. OnlyOf(a) /\ told[a] = "none"
      BY <2>1, <2>2 DEF OnlyOf, TypeOK, ToldInv, ToldAtTheEnd
    <2> QED
      BY <2>1, <2>2, <2>3 DEF SaysTruly, TypeOK, OwnMessage
  <1>6. ASSUME NEW a \in Attempts, Record(a) \/ RecordFails(a) PROVE OnlyOf(a) /\ SaysTruly(a)
    <2>1. /\ pc[a] = "record" /\ UNCHANGED <<req, delivered, told>>
          /\ \/ told[a] = "none" /\ pc' = [pc EXCEPT ![a] = "serverCheck"] /\ tries' = [tries EXCEPT ![a] = 2]
             \/ told[a] # "none" /\ pc' = [pc EXCEPT ![a] = "done"] /\ tries' = tries
      BY <1>6 DEF Record, RecordFails, AfterRecord
    <2>2. OnlyOf(a)
      BY <2>1 DEF OnlyOf, TypeOK
    <2> QED
      BY <2>1, <2>2 DEF SaysTruly, TypeOK, ToldInv, OwnIsKnown
  <1>7. ASSUME NEW a \in Attempts, Crash(a) PROVE OnlyOf(a) /\ SaysTruly(a)
    <2>1. /\ pc[a] # "idle" /\ pc' = [pc EXCEPT ![a] = "dead"]
          /\ UNCHANGED <<req, delivered, told, tries>>
      BY <1>7 DEF Crash, InFlight
    <2>2. OnlyOf(a)
      BY <2>1 DEF OnlyOf, TypeOK
    <2> QED
      BY <2>1, <2>2 DEF SaysTruly, TypeOK, ToldInv, OwnIsKnown
  <1> QED
    BY <1>1, <1>2, <1>3, <1>4, <1>5, <1>6, <1>7, ToldMove, ToldTyped, ToldChecked
    DEF Next, Step, Tick, vars

\* While the local record does not fail after MAX has answered, what a command says of the message
\* it drew is so, whatever was lost, refused, repeated by #deliver or asked for again by its owner.
THEOREM AnswersAreTrue ==
  ASSUME CacheMayFail = FALSE
  PROVE  Spec => []ToldIsTrue
  <1>1. TypeOK /\ ToldInv /\ [Next]_vars => ToldInv'
    BY ToldStep
  <1>2. Spec => []ToldInv
    BY <1>1, ToldInit, TypeCorrect, PTL DEF Spec
  <1>3. ToldInv => ToldIsTrue
    BY DEF ToldInv, OwnIsKnown, OwnMessage, ToldIsTrue
  <1> QED
    BY <1>2, <1>3, PTL
=============================================================================

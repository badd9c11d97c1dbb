----------------------------- MODULE Connection -----------------------------
(***************************************************************************)
(* One WebSocket to MAX (class Connection, src/src/protocol/connection.ts):*)
(* requests matched to answers by a seq that wraps, their timers, the      *)
(* pushes MAX numbers on its own, and the three ways it all ends: close(), *)
(* a drop, a failed opening.                                               *)
(*                                                                         *)
(* Requests and pushes are numbered from 1 in the order they are made;     *)
(* what goes on the wire is a number modulo SeqModulo.  A frame is read    *)
(* the moment it arrives, so the frames on their way are the requests MAX  *)
(* has not answered yet.                                                   *)
(***************************************************************************)
EXTENDS Integers, Sequences, FiniteSets

CONSTANTS
  SeqModulo,    \* SEQ_MODULO
  MaxRequests,  \* bound on calls of invoke
  MaxPushes,    \* bound on pushes
  Repeats,      \* how many pushes back MAX may send one again
  Live          \* max serve's connection, or a command's

ASSUME ConnectionAssumption ==
  /\ SeqModulo \in Nat \ {0}
  /\ MaxRequests \in Nat
  /\ MaxPushes \in Nat
  /\ Repeats \in Nat
  /\ Live \in BOOLEAN
  /\ Live \/ Repeats = 0      \* a command is gone before MAX sends anything again

VARIABLES
  socket,       \* #socket: "none", "connecting", "open", or "failed" to open
  opening,      \* the promise of open()
  closed,       \* #closed
  seq,          \* #seq
  made,         \* how many requests were made
  status,       \* what became of each
  seqOf,        \* the seq it went out with
  timers,       \* the requests whose timer runs
  pending,      \* #pending
  unanswered,   \* requests MAX has and has not answered
  answerOf,     \* the request whose answer settled this one
  sent,         \* the kinds of the pushes MAX has sent
  lastPush,     \* #lastPush, NoPush before the first
  handed,       \* the pushes given to onEvent
  answered      \* those answered to MAX

requestVars == <<seq, made, status, seqOf, timers, pending, unanswered, answerOf>>
pushVars == <<sent, lastPush, handed, answered>>
connectionVars == <<socket, opening, closed, requestVars, pushVars>>

Requests == 1 .. MaxRequests
Seqs == 0 .. SeqModulo - 1
NoRequest == 0
NoPush == -1

PushKinds == {"ping", "message", "other"}

ConnectionInit ==
  /\ socket = "none" /\ opening = "none" /\ closed = FALSE
  /\ seq = 0 /\ made = 0
  /\ status = [r \in Requests |-> "none"]
  /\ seqOf = [r \in Requests |-> 0]
  /\ timers = {}
  /\ pending = [s \in Seqs |-> NoRequest]
  /\ unanswered = {}
  /\ answerOf = [r \in Requests |-> NoRequest]
  /\ sent = <<>> /\ lastPush = NoPush /\ handed = <<>> /\ answered = <<>>

Open ==
  /\ socket = "none" /\ opening = "none"
  /\ socket' = "connecting"
  /\ opening' = "waits"
  /\ UNCHANGED <<closed, requestVars, pushVars>>

\* The handshake ends, if the listeners that wait for it are still there.
Opened ==
  /\ socket = "connecting"
  /\ \/ socket' = "open" /\ opening' = "done"
     \/ socket' = "failed" /\ opening' = "failed"
  /\ UNCHANGED <<closed, requestVars, pushVars>>

\* A bound on the environment: 65536 requests take longer than a timeout and than any answer,
\* so a seq does not come round while its last request waits or is with MAX.
SeqIsFree == pending[seq] = NoRequest /\ \A r \in unanswered : seqOf[r] # seq

\* Mutant of Invoke: the count does not wrap.
InvokeUnwrapped ==
  /\ made < MaxRequests
  /\ opening = "done" /\ ~ closed
  /\ SeqIsFree
  /\ made' = made + 1
  /\ status' = [status EXCEPT ![made + 1] = "waits"]
  /\ seqOf' = [seqOf EXCEPT ![made + 1] = seq]
  /\ seq' = seq + 1
  /\ timers' = timers \cup {made + 1}
  /\ pending' = [pending EXCEPT ![seq] = made + 1]
  /\ unanswered' = unanswered \cup {made + 1}
  /\ UNCHANGED <<socket, opening, closed, answerOf, pushVars>>

\* Mutant of Invoke: no timer.
InvokeUntimed ==
  /\ made < MaxRequests
  /\ opening = "done" /\ ~ closed
  /\ SeqIsFree
  /\ made' = made + 1
  /\ status' = [status EXCEPT ![made + 1] = "waits"]
  /\ seqOf' = [seqOf EXCEPT ![made + 1] = seq]
  /\ seq' = (seq + 1) % SeqModulo
  /\ pending' = [pending EXCEPT ![seq] = made + 1]
  /\ unanswered' = unanswered \cup {made + 1}
  /\ UNCHANGED <<socket, opening, closed, timers, answerOf, pushVars>>

\* A caller that has awaited open() makes a request.
Invoke ==
  /\ made < MaxRequests
  /\ opening = "done"
  /\ made' = made + 1
  /\ IF closed \/ socket = "none"
     THEN /\ status' = [status EXCEPT ![made + 1] = "failed"]
          /\ UNCHANGED <<seq, seqOf, timers, pending, unanswered>>
     ELSE /\ SeqIsFree
          /\ status' = [status EXCEPT ![made + 1] = "waits"]
          /\ seqOf' = [seqOf EXCEPT ![made + 1] = seq]
          /\ seq' = (seq + 1) % SeqModulo
          /\ timers' = timers \cup {made + 1}
          /\ pending' = [pending EXCEPT ![seq] = made + 1]
          /\ unanswered' = unanswered \cup {made + 1}
  /\ UNCHANGED <<socket, opening, closed, answerOf, pushVars>>

\* Mutant of Receive: the next frame is taken for the answer to whoever waits.
ReceiveNext(r) ==
  /\ socket = "open"
  /\ r \in unanswered
  /\ unanswered' = unanswered \ {r}
  /\ \E s \in Seqs :
       /\ pending[s] # NoRequest
       /\ status' = [status EXCEPT ![pending[s]] = "answered"]
       /\ answerOf' = [answerOf EXCEPT ![pending[s]] = r]
       /\ timers' = timers \ {pending[s]}
       /\ pending' = [pending EXCEPT ![s] = NoRequest]
  /\ UNCHANGED <<socket, opening, closed, seq, made, seqOf, pushVars>>

\* MAX answers the request r, in a frame with r's seq: the request that waits on that seq is
\* settled, as answered, or as failed if the body cannot be read.  Nobody may be waiting.
Receive(r) ==
  /\ socket = "open"
  /\ r \in unanswered
  /\ unanswered' = unanswered \ {r}
  /\ LET waiting == pending[seqOf[r]]
     IN  IF waiting = NoRequest
         THEN UNCHANGED <<status, timers, pending, answerOf>>
         ELSE /\ \E readable \in BOOLEAN :
                   status' = [status EXCEPT ![waiting] = IF readable THEN "answered" ELSE "failed"]
              /\ answerOf' = [answerOf EXCEPT ![waiting] = r]
              /\ timers' = timers \ {waiting}
              /\ pending' = [pending EXCEPT ![seqOf[r]] = NoRequest]
  /\ UNCHANGED <<socket, opening, closed, seq, made, seqOf, pushVars>>

Timeout(r) ==
  /\ r \in timers
  /\ timers' = timers \ {r}
  /\ pending' = [pending EXCEPT ![seqOf[r]] = NoRequest]
  /\ status' = [status EXCEPT ![r] = IF @ = "waits" THEN "failed" ELSE @]
  /\ UNCHANGED <<socket, opening, closed, seq, made, seqOf, unanswered, answerOf, pushVars>>

\* MAX may forget a request, or lose its answer.
Forget(r) ==
  /\ r \in unanswered
  /\ unanswered' = unanswered \ {r}
  /\ UNCHANGED << socket, opening, closed, seq, made, status, seqOf, timers, pending, answerOf,
                  pushVars >>

-----------------------------------------------------------------------------

SeqOfPush(n) == (n - 1) % SeqModulo

\* Mutant of IsAfter: "newer" is a greater number.
IsGreater(s, last) == s > last

\* Half of the numbers are after the last one, half before it.
IsAfter(s, last) ==
  LET distance == (s - last + SeqModulo) % SeqModulo
  IN  distance > 0 /\ 2 * distance < SeqModulo

\* #receive of a push that can be read (one that cannot is dropped there, and left out here), and
\* #pushed.  What a live connection answers, it answers before anybody hears of the push.
Hear(n, kind) ==
  IF Live /\ lastPush # NoPush /\ ~ IsAfter(SeqOfPush(n), lastPush)
  THEN UNCHANGED <<lastPush, handed, answered>>
  ELSE /\ lastPush' = IF Live THEN SeqOfPush(n) ELSE lastPush
       /\ answered' = IF Live /\ kind # "other" THEN Append(answered, n) ELSE answered
       /\ handed' = IF Live /\ kind = "ping" THEN handed ELSE Append(handed, n)

Push ==
  /\ socket = "open"
  /\ Len(sent) < MaxPushes
  /\ \E kind \in PushKinds :
       /\ sent' = Append(sent, kind)
       /\ Hear(Len(sent) + 1, kind)
  /\ UNCHANGED <<socket, opening, closed, requestVars>>

\* "After a hiccup MAX sends some pushes again."
PushAgain ==
  /\ socket = "open"
  /\ \E n \in DOMAIN sent :
       /\ n + Repeats > Len(sent)
       /\ Hear(n, sent[n])
  /\ UNCHANGED <<socket, opening, closed, sent, requestVars>>

-----------------------------------------------------------------------------

\* Mutant of FailAll: what waits is dropped, not rejected.
DropAll ==
  /\ timers' = {r \in timers : \A s \in Seqs : pending[s] # r}
  /\ pending' = [s \in Seqs |-> NoRequest]
  /\ UNCHANGED status

\* #failAll
FailAll ==
  /\ status' = [r \in Requests |->
       IF status[r] = "waits" /\ \E s \in Seqs : pending[s] = r THEN "failed" ELSE status[r]]
  /\ timers' = {r \in timers : \A s \in Seqs : pending[s] # r}
  /\ pending' = [s \in Seqs |-> NoRequest]

\* The owner's close().  The listeners go with it, those of an opening too.
Close ==
  /\ ~ closed
  /\ closed' = TRUE
  /\ socket' = "none"
  /\ FailAll
  /\ UNCHANGED <<opening, seq, made, seqOf, unanswered, answerOf, pushVars>>

\* MAX, or the network, ends an open connection: #lost.
Lost ==
  /\ socket = "open"
  /\ closed' = TRUE
  /\ socket' = "none"
  /\ FailAll
  /\ UNCHANGED <<opening, seq, made, seqOf, unanswered, answerOf, pushVars>>

ConnectionNext ==
  \/ Open \/ Opened \/ Invoke \/ Push \/ PushAgain \/ Close \/ Lost
  \/ \E r \in Requests : Receive(r) \/ Timeout(r) \/ Forget(r)

\* A timer fires in the end, unless it is cleared.
TimersFire == \A r \in Requests : WF_connectionVars(Timeout(r))

ConnectionSpec == ConnectionInit /\ [][ConnectionNext]_connectionVars /\ TimersFire

-----------------------------------------------------------------------------

ConnectionTypeOK ==
  /\ socket \in {"none", "connecting", "open", "failed"}
  /\ opening \in {"none", "waits", "done", "failed"}
  /\ closed \in BOOLEAN
  /\ seq \in Seqs
  /\ made \in 0 .. MaxRequests
  /\ status \in [Requests -> {"none", "waits", "answered", "failed"}]
  /\ seqOf \in [Requests -> Seqs]
  /\ timers \subseteq 1 .. made
  /\ pending \in [Seqs -> 0 .. made]
  /\ unanswered \subseteq 1 .. made
  /\ answerOf \in [Requests -> 0 .. made]
  /\ sent \in Seq(PushKinds)
  /\ lastPush \in Seqs \cup {NoPush}
  /\ handed \in Seq(1 .. Len(sent))
  /\ answered \in Seq(1 .. Len(sent))

\* An answer reaches the request it was made for, however many timed out, were answered late, or
\* have had that seq before (invoke, #receive).  Whatever still waits has a timer to end its wait,
\* and none is left once the connection is over: nobody waits for what can no longer come, and no
\* timer keeps the process (close, #lost).
OwnAnswer ==
  /\ \A r \in Requests : status[r] = "answered" => answerOf[r] = r
  /\ \A r \in Requests : status[r] = "waits" => r \in timers /\ pending[seqOf[r]] = r
  /\ closed => timers = {}

\* Every request is settled in the end, whatever closes, drops or stays silent.
EverySettles == \A r \in Requests : status[r] = "waits" ~> status[r] # "waits"

\* These and no others, each once and in their order.
Exactly(queue, S) ==
  /\ { queue[i] : i \in DOMAIN queue } = S
  /\ \A i, j \in DOMAIN queue : i < j => queue[i] < queue[j]

\* A live connection hands on every push once and in MAX's order, across the wrap of its seq and
\* whatever MAX sends again; a ping it keeps to itself.  It answers each ping and each new message
\* once (#pushed).
PushesOnce ==
  Live =>
    /\ Exactly(handed, { n \in DOMAIN sent : sent[n] \in {"message", "other"} })
    /\ Exactly(answered, { n \in DOMAIN sent : sent[n] \in {"ping", "message"} })
=============================================================================

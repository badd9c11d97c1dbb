------------------------------ MODULE OwnerWrites ------------------------------
(***************************************************************************)
(* The writes of an owner that are not messages: changes to the account,    *)
(* its contacts and folders, to a chat and its members, reactions, pins,    *)
(* read marks and deletions (src/src/client.ts), each over a connection of  *)
(* the command's own or over `max serve`'s, and the line each leaves in the *)
(* send journal (src/src/sends/guard.ts, src/src/server/server.ts).  A      *)
(* folder goes back to MAX whole, so what was read of it is written.        *)
(*                                                                          *)
(* What the owner forbids is Permits', the hourly limit SendGuard's: here   *)
(* the check lets a write pass or not.  A line that cannot be written is    *)
(* told in a warning instead, and counts as a line.                         *)
(***************************************************************************)
EXTENDS Naturals, Sequences

CONSTANTS
  Owners,        \* commands; one write each
  OwnerKinds,    \* the writes they may make
  Crossing,      \* those of them that run beside another; the rest share nothing, and run alone
  FolderChats,   \* the chats that may be in the folder
  MaxPhoneEdits  \* bound

VARIABLES
  write,       \* of each owner: its kind and change, its route, where it is, what it read of the folder
  served,      \* what the server has of it: nothing, asked, passed on, or an outcome
  atMax,       \* what MAX has of it: nothing, asked, did, refused
  lines,       \* the outcomes the journal was given for it
  folder,      \* MAX's folder: none, or the set of its chats
  putIn,       \* chats put in the folder since the owner's command was typed
  phoneEdits

ownerVars == << write, served, atMax, lines, folder, putIn, phoneEdits >>

\* Those that go through #change, and those with a guard of their own.
AccountWrites == {"profile", "sessions-end", "contact", "contact-import",
                  "folder-create", "folder-update", "folder-delete"}
ChatWrites == {"chat", "members", "reaction", "read", "pin", "delete"}

ASSUME OwnerAssumption == OwnerKinds \subseteq AccountWrites \cup ChatWrites /\ Crossing \subseteq OwnerKinds /\ MaxPhoneEdits \in Nat

----------------------------------------------------------------------------
Edits == { e \in [add : {{}} \cup { {c} : c \in FolderChats }, remove : {{}} \cup { {c} : c \in FolderChats }] :
             e.add = {} \/ e.remove = {} }
NoEdit == [add |-> {}, remove |-> {}]
Unwritten == [kind |-> "none", edit |-> NoEdit, route |-> "none", at |-> "idle", read |-> {}]
Folders == { {} } \cup { {inside} : inside \in SUBSET FolderChats }
ChatsOf(f) == UNION f

OwnerInit ==
  /\ write = [p \in Owners |-> Unwritten]
  /\ served = [p \in Owners |-> "none"]
  /\ atMax = [p \in Owners |-> "none"]
  /\ lines = [p \in Owners |-> << >>]
  /\ folder = { {} }
  /\ putIn = [p \in Owners |-> {}]
  /\ phoneEdits = 0

\* sharedJournal: over the server it is the server that writes, except what never reached it.
Journals(p) == write[p].route = "server"
JournaledTwice(p, outcome) == lines' = [lines EXCEPT ![p] = Append(@, outcome)]   \* a mutant: the command writes too
Journaled(p, outcome) ==
  lines' = IF outcome = "refused" \/ ~Journals(p) THEN [lines EXCEPT ![p] = Append(@, outcome)] ELSE lines

MovesTo(p, at) == write' = [write EXCEPT ![p].at = at]

----------------------------------------------------------------------------
\* The command, from its check and its connection, which may not come about, to its request.
MayBegin(p, kind) ==
  /\ write[p].at = "idle"
  /\ \A q \in Owners : write[q].at # "idle" => {write[q].kind, kind} \subseteq Crossing

CheckPasses(p, kind, edit, route) ==
  /\ MayBegin(p, kind)
  /\ kind = "folder-update" \/ edit = NoEdit
  /\ write' = [write EXCEPT ![p] = [kind |-> kind, edit |-> edit, route |-> route, at |-> "ready", read |-> {}]]
  /\ UNCHANGED << served, atMax, lines, folder, putIn, phoneEdits >>

CheckRefuses(p, kind) ==
  /\ MayBegin(p, kind)
  /\ write' = [write EXCEPT ![p] = [Unwritten EXCEPT !.kind = kind, !.at = "ended"]]
  /\ Journaled(p, "refused")
  /\ UNCHANGED << served, atMax, folder, putIn, phoneEdits >>

\* No connection, a name nobody has, a chat with nothing to mark, a pin in a dialog: before MAX is asked.
Fails(p) ==
  /\ write[p].at \in {"ready", "read"}
  /\ MovesTo(p, "ended")
  /\ Journaled(p, "failed")
  /\ UNCHANGED << served, atMax, folder, putIn, phoneEdits >>

NeedsFolder(p) == write[p].kind \in {"folder-update", "folder-delete"}

ListFolders(p) ==
  /\ write[p].at = "ready" /\ write[p].route # "none" /\ NeedsFolder(p)
  /\ folder # {}
  /\ write' = [write EXCEPT ![p].at = "read", ![p].read = folder]
  /\ UNCHANGED << served, atMax, lines, folder, putIn, phoneEdits >>

Requests(p) ==
  /\ write[p].at = (IF NeedsFolder(p) THEN "read" ELSE "ready") /\ write[p].route # "none"
  /\ MovesTo(p, "asked")
  /\ IF Journals(p) THEN served' = [served EXCEPT ![p] = "asked"] /\ UNCHANGED atMax
                    ELSE atMax' = [atMax EXCEPT ![p] = "asked"] /\ UNCHANGED served
  /\ UNCHANGED << lines, folder, putIn, phoneEdits >>

----------------------------------------------------------------------------
\* The server: its own guard, the request over its connection, the line with the outcome it saw.
ServerRefuses(p) ==
  /\ served[p] = "asked"
  /\ served' = [served EXCEPT ![p] = "refused"]
  /\ lines' = [lines EXCEPT ![p] = Append(@, "refused")]
  /\ UNCHANGED << write, atMax, folder, putIn, phoneEdits >>

ServerPasses(p) ==
  /\ served[p] = "asked"
  /\ served' = [served EXCEPT ![p] = "passed"]
  /\ atMax' = [atMax EXCEPT ![p] = "asked"]
  /\ UNCHANGED << write, lines, folder, putIn, phoneEdits >>

SendJournaled(p, outcome) ==
  /\ served[p] = "passed"
  /\ outcome = "sent" => atMax[p] = "did"
  /\ outcome = "failed" => atMax[p] = "refused"
  /\ served' = [served EXCEPT ![p] = outcome]
  /\ lines' = [lines EXCEPT ![p] = Append(@, outcome)]
  /\ UNCHANGED << write, atMax, folder, putIn, phoneEdits >>

\* The folder as the client sends it back: what it read, and the change.
IncludeChange(read, edit) == edit.add \ edit.remove   \* a mutant: only what changed is sent
Include(read, edit) == (ChatsOf(read) \cup edit.add) \ edit.remove

FolderAfter(p) ==
  CASE write[p].kind = "folder-update" /\ folder # {} -> { Include(write[p].read, write[p].edit) }
    [] write[p].kind = "folder-delete" -> {}
    [] OTHER -> folder

\* What a command that runs, or whose request MAX still has, did not see coming.
Watching(p) == write[p].at \notin {"idle", "ended", "died"} \/ served[p] \in {"asked", "passed"} \/ atMax[p] = "asked"
NoteNewcomers ==
  putIn' = [p \in Owners |-> IF Watching(p) THEN putIn[p] \cup (ChatsOf(folder') \ ChatsOf(folder)) ELSE {}]

MaxDoes(p) ==
  /\ atMax[p] = "asked"
  /\ atMax' = [atMax EXCEPT ![p] = "did"]
  /\ folder' = FolderAfter(p)
  /\ NoteNewcomers
  /\ UNCHANGED << write, served, lines, phoneEdits >>

MaxSaysNo(p) ==
  /\ atMax[p] = "asked"
  /\ atMax' = [atMax EXCEPT ![p] = "refused"]
  /\ UNCHANGED << write, served, lines, folder, putIn, phoneEdits >>

PhoneEdits ==
  /\ phoneEdits < MaxPhoneEdits
  /\ phoneEdits' = phoneEdits + 1
  /\ folder # {}
  /\ \E inside \in SUBSET FolderChats : folder' = {inside} /\ folder' # folder
  /\ NoteNewcomers
  /\ UNCHANGED << write, served, atMax, lines >>

----------------------------------------------------------------------------
\* The answer, and what the command does with it before its own line.
Answered(p) == write[p].at = "asked" /\ IF Journals(p) THEN served[p] = "sent" ELSE atMax[p] = "did"

\* A refusal, no answer in time, or a connection that is gone.  None of these writes is repeated.
GivesUp(p) ==
  /\ write[p].at = "asked"
  /\ MovesTo(p, "ended")
  /\ Journaled(p, "failed")
  /\ UNCHANGED << served, atMax, folder, putIn, phoneEdits >>

Succeeds(p) ==
  /\ Answered(p) /\ write[p].kind # "sessions-end"
  /\ MovesTo(p, "ended")
  /\ Journaled(p, "sent")
  /\ UNCHANGED << served, atMax, folder, putIn, phoneEdits >>

\* A person to remember, messages to forget: the store may refuse, and that is what the line says.
StoreFails(p) ==
  /\ Answered(p) /\ write[p].kind \in {"contact", "contact-import", "delete"}
  /\ MovesTo(p, "ended")
  /\ Journaled(p, "failed")
  /\ UNCHANGED << served, atMax, folder, putIn, phoneEdits >>

\* done() of `account sessions end-others`: the line first, for what follows may fail.
SessionsEnded(p) ==
  /\ Answered(p) /\ write[p].kind = "sessions-end"
  /\ MovesTo(p, "done")
  /\ Journaled(p, "sent")
  /\ UNCHANGED << served, atMax, folder, putIn, phoneEdits >>

\* The token is stored and the sessions asked for; done() is called once more, or the catch finds it recorded.
AfterSessionsEnded(p) ==
  /\ write[p].at = "done"
  /\ MovesTo(p, "ended")
  /\ UNCHANGED << served, atMax, lines, folder, putIn, phoneEdits >>

----------------------------------------------------------------------------
\* A command dies; its request over the server goes on.
CommandDies(p) ==
  /\ write[p].at \notin {"idle", "ended", "died"}
  /\ MovesTo(p, IF Journals(p) THEN "ended" ELSE "died")
  /\ UNCHANGED << served, atMax, lines, folder, putIn, phoneEdits >>

\* The server dies, and with it what it was about to write.
ServerDies ==
  LET busy == { p \in Owners : served[p] \in {"asked", "passed"} } IN
  /\ busy # {}
  /\ served' = [p \in Owners |-> IF p \in busy THEN "dead" ELSE served[p]]
  /\ UNCHANGED << write, atMax, lines, folder, putIn, phoneEdits >>

OwnerStep(p) ==
  \/ \E kind \in OwnerKinds :
       CheckRefuses(p, kind) \/ \E edit \in Edits, route \in {"none", "own", "server"} : CheckPasses(p, kind, edit, route)
  \/ Fails(p) \/ ListFolders(p) \/ Requests(p)
  \/ ServerRefuses(p) \/ ServerPasses(p)
  \/ \E outcome \in {"sent", "failed", "outcome_unknown"} : SendJournaled(p, outcome)
  \/ MaxDoes(p) \/ MaxSaysNo(p)
  \/ GivesUp(p) \/ Succeeds(p) \/ StoreFails(p) \/ SessionsEnded(p) \/ AfterSessionsEnded(p)
  \/ CommandDies(p)

OwnerNext == PhoneEdits \/ ServerDies \/ \E p \in Owners : OwnerStep(p)

OwnerSpec == OwnerInit /\ [][OwnerNext]_ownerVars

----------------------------------------------------------------------------
\* The process that was to write the line has died.
Cut(p) == write[p].at = "died" \/ served[p] = "dead"

Outcomes == {"sent", "failed", "refused", "outcome_unknown"}

OwnerTypeOK ==
  /\ write \in [Owners -> [kind : OwnerKinds \cup {"none"}, edit : Edits, route : {"none", "own", "server"},
                           at : {"idle", "ready", "read", "asked", "done", "ended", "died"}, read : Folders]]
  /\ served \in [Owners -> Outcomes \cup {"none", "asked", "passed", "dead"}]
  /\ atMax \in [Owners -> {"none", "asked", "did", "refused"}]
  /\ \A p \in Owners : lines[p] \in Seq(Outcomes)
  /\ folder \in Folders
  /\ putIn \in [Owners -> SUBSET FolderChats]
  /\ phoneEdits \in 0 .. MaxPhoneEdits

(***************************************************************************)
(* A write leaves one line, whoever writes it and over whichever route: two *)
(* writers share the journal, and neither repeats the other.  The line says *)
(* nothing false of what MAX did: sent is done, refused was never asked.    *)
(* What MAX did leaves its line, unless the process that was to write it    *)
(* died.  And once MAX has ended the other sessions the line says so,       *)
(* whatever fails after (src/src/client.ts:203).                            *)
(***************************************************************************)
OneTrueLine ==
  \A p \in Owners :
    /\ Len(lines[p]) <= 1
    /\ lines[p] = << "sent" >> => atMax[p] = "did"
    /\ lines[p] = << "refused" >> => atMax[p] = "none"
    /\ ~Watching(p) /\ ~Cut(p) /\ atMax[p] = "did" => lines[p] # << >>
    /\ write[p].at = "done" => lines[p] = << "sent" >>

(***************************************************************************)
(* A folder is edited on the phone and by two commands at once, and each    *)
(* command sends it whole.  An edit takes a chat out only when the owner    *)
(* said so, or when it was put in while that edit's command ran: a command  *)
(* reads the folder itself, after it was typed (src/src/client.ts:1176).    *)
(***************************************************************************)
OnlyCrossedEditsLost ==
  [][\A p \in Owners : atMax[p] = "asked" /\ atMax'[p] = "did" /\ write[p].kind = "folder-update"
        => ChatsOf(folder) \ ChatsOf(folder') \subseteq write[p].edit.remove \cup putIn[p]]_ownerVars
=============================================================================

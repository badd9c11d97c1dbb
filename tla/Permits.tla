------------------------------- MODULE Permits -------------------------------
(***************************************************************************)
(* What an owner forbids a profile, and the writes that ask: the settings   *)
(* readOnly and allow (src/src/config.ts), the list of recipients           *)
(* (src/src/sends/recipients.ts), the guard of a command                    *)
(* (src/src/sends/guard.ts) and the server's, which reads the files again   *)
(* for every write it forwards and tells what the write is from the request *)
(* on the wire (src/src/spec/operations/).                                  *)
(*                                                                          *)
(* A setting that may be absent is a set of at most one value; so are the   *)
(* list, which is off while its file is absent, and a chat that a write     *)
(* does not have.  The hourly limit is SendGuard's.                         *)
(***************************************************************************)
EXTENDS Integers, FiniteSets

CONSTANTS
  Askers,      \* processes that write: a command, or `max mcp`, whose calls share one start
  Editors,     \* processes that change the files
  Chats, People,
  Partner,     \* the other person of each chat that is a dialog, by chat
  WriteKinds,       \* the writes of a run, out of AllKinds
  Lists,       \* what `allow` may be set to
  MaxEdits, MaxAsks   \* bounds

VARIABLES
  settings,    \* the configuration file: of the profile, and of every profile
  listed,      \* the recipients file
  editing,     \* what an editor has read, and is about to write changed
  edits,
  startedWith, \* the settings each asker resolved when it started
  asking,      \* the write of each asker, and how far it is
  verdicts,        \* what the files have said of that write since it was asked: allowed, forbidden, or both
  asks

permitVars == << settings, listed, editing, edits, startedWith, asking, verdicts, asks >>

\* kind and action, as the send journal names them.
AllKinds ==
  [kind : {"message", "forward", "edit", "reaction", "pin", "read", "delete"}, action : {"none"}]
    \cup [kind : {"chat"}, action : {"create", "join", "leave", "update", "settings", "link.reset",
                                      "members.add", "members.remove", "admins.add", "admins.remove",
                                      "requests.accept", "requests.decline"}]
    \cup [kind : {"account"}, action : {"profile", "sessions-end", "contact-add", "contact-remove",
                                         "contact-import", "folder-create", "folder-update", "folder-delete"}]

ASSUME PermitsAssumption ==
  /\ WriteKinds \subseteq AllKinds
  /\ Partner \in [Chats -> People]
  /\ MaxEdits \in Nat /\ MaxAsks \in Nat

----------------------------------------------------------------------------
\* The settings in force.
First(profile, defaults, fallback) ==
  IF profile # {} THEN profile ELSE IF defaults # {} THEN defaults ELSE fallback

ResolveSettings ==
  [readOnly |-> First(settings.profile.readOnly, settings.defaults.readOnly, {FALSE}),
   allow |-> First(settings.profile.allow, settings.defaults.allow, {})]

AccountPermission(action) ==
  CASE action \in {"contact-add", "contact-remove", "contact-import"} -> "contacts"
    [] action \in {"folder-create", "folder-update", "folder-delete"} -> "folders"
    [] action = "profile" -> "profile"
    [] action = "sessions-end" -> "sessions"

PermissionFor(kind, action) ==
  CASE kind = "message" -> "send"
    [] kind = "chat" -> "groups"
    [] kind = "account" -> AccountPermission(action)
    [] OTHER -> kind

\* permitted of the guard: what it lets through by these settings and the list as it is now.
OnList(request) ==
  \A entries \in listed :
    /\ \A c \in request.chat : \E e \in entries : e.chat = c
    /\ \A p \in request.people : \E e \in entries : e.partner = {p}

Permitted(with, request) ==
  /\ with.readOnly = {FALSE}
  /\ \A list \in with.allow : PermissionFor(request.kind, request.action) \in list
  /\ OnList(request)

----------------------------------------------------------------------------
\* The writes of the client: who is named in one, and the chat it has.
AtChat(k) == k.kind # "account" /\ k.action \notin {"create", "join"}
Peopled == {"create", "members.add", "members.remove", "admins.add", "admins.remove",
            "requests.accept", "requests.decline"}

Writes ==
  { w \in [kind : { k.kind : k \in WriteKinds }, action : { k.action : k \in WriteKinds },
           chat : {{}} \cup { {c} : c \in Chats }, who : {{}} \cup { {p} : p \in People }] :
      /\ [kind |-> w.kind, action |-> w.action] \in WriteKinds
      /\ AtChat(w) <=> w.chat # {}
      /\ w.who # {} => w.action \in Peopled
      /\ w.action \in Peopled \ {"create"} => w.who # {} }

\* #guard, #reaction, #changeChat and #change: what the guard of the command is asked.
Asked(w) ==
  [kind |-> w.kind, action |-> w.action, chat |-> w.chat,
   people |-> IF w.action \in {"create", "members.add"} THEN w.who ELSE {}]

\* The request of each write on the wire: the operation, its chat, the people in it, and the fields or
\* values that tell it from the other writes of its operation.
Wire(w, operation, fields) == [operation |-> operation, chat |-> w.chat, who |-> w.who, fields |-> fields]

MessageRequest(w) == Wire(w, "messages.send", {})
ForwardRequest(w) == Wire(w, "messages.send", {"FORWARD"})
CreateRequest(w) == Wire(w, "messages.send", {"CONTROL"})
ChangeRequest(w) == Wire(w, w.kind, {})
MarkRequest(w) == Wire(w, "chats.mark", {})
PinRequest(w) == Wire(w, "chats.update", {"pinMessageId"})
UpdateRequest(w) ==
  Wire(w, "chats.update", CASE w.action = "update" -> {"theme"}
                            [] w.action = "settings" -> {"options"}
                            [] w.action = "link.reset" -> {"revokePrivateLink"})
MembersRequest(w) ==
  Wire(w, "chats.updateMembers",
       (IF w.action \in {"members.add", "admins.add", "requests.accept"} THEN {"add"} ELSE {"remove"})
         \cup (CASE w.action \in {"members.add", "members.remove"} -> {}
                 [] w.action \in {"admins.add", "admins.remove"} -> {"ADMIN"}
                 [] w.action \in {"requests.accept", "requests.decline"} -> {"JOIN_REQUEST"}))
ContactRequest(w) ==
  Wire(w, IF w.action = "contact-import" THEN w.action ELSE "contacts.update",
       IF w.action = "contact-remove" THEN {"REMOVE"} ELSE {})
FolderRequest(w) == Wire(w, IF w.action = "folder-delete" THEN w.action ELSE "folders.update", {})
AccountRequest(w) == Wire(w, w.action, {})
GroupRequest(w) == Wire(w, w.action, {})

Request(w) ==
  CASE w.kind = "message" -> MessageRequest(w)
    [] w.kind = "forward" -> ForwardRequest(w)
    [] w.kind \in {"edit", "delete", "reaction"} -> ChangeRequest(w)
    [] w.kind = "read" -> MarkRequest(w)
    [] w.kind = "pin" -> PinRequest(w)
    [] w.action = "create" -> CreateRequest(w)
    [] w.action \in {"join", "leave"} -> GroupRequest(w)
    [] w.action \in {"update", "settings", "link.reset"} -> UpdateRequest(w)
    [] w.action \in Peopled \ {"create"} -> MembersRequest(w)
    [] w.action \in {"contact-add", "contact-remove", "contact-import"} -> ContactRequest(w)
    [] w.action \in {"folder-create", "folder-update", "folder-delete"} -> FolderRequest(w)
    [] w.action \in {"profile", "sessions-end"} -> AccountRequest(w)

----------------------------------------------------------------------------
\* What each operation's guard reads from the request; nothing, for one it refuses to read.
AsRead(kind, action, r, people) == {[kind |-> kind, action |-> action, chat |-> r.chat, people |-> people]}

ReadSend(r) ==
  CASE r.chat = {} /\ "CONTROL" \in r.fields -> AsRead("chat", "create", r, r.who)
    [] r.chat = {} /\ "CONTROL" \notin r.fields -> {}
    [] r.chat # {} /\ "CONTROL" \in r.fields -> {}
    [] r.chat # {} /\ "CONTROL" \notin r.fields ->
         AsRead(IF "FORWARD" \in r.fields THEN "forward" ELSE "message", "none", r, {})

ReadUpdate(r) ==
  CASE Cardinality(r.fields) # 1 -> {}
    [] r.fields = {"pinMessageId"} -> AsRead("pin", "none", r, {})
    [] r.fields = {"revokePrivateLink"} -> AsRead("chat", "link.reset", r, {})
    [] r.fields = {"options"} -> AsRead("chat", "settings", r, {})
    [] r.fields = {"theme"} -> AsRead("chat", "update", r, {})

ReadMembers(r) ==
  LET role == r.fields \ {"add", "remove"}
      action == CASE role = {} -> IF "add" \in r.fields THEN "members.add" ELSE "members.remove"
                  [] role = {"ADMIN"} -> IF "add" \in r.fields THEN "admins.add" ELSE "admins.remove"
                  [] role = {"JOIN_REQUEST"} -> IF "add" \in r.fields THEN "requests.accept" ELSE "requests.decline"
  IN AsRead("chat", action, r, IF action = "members.add" THEN r.who ELSE {})

ReadEdit(r) == AsRead("edit", "none", r, {})
ReadDelete(r) == AsRead("delete", "none", r, {})
ReadReaction(r) == AsRead("reaction", "none", r, {})
ReadMark(r) == AsRead("read", "none", r, {})
ReadJoin(r) == AsRead("chat", r.operation, r, {})
ReadContact(r) == AsRead("account", IF "REMOVE" \in r.fields THEN "contact-remove" ELSE "contact-add", r, {})
ReadFolder(r) == AsRead("account", IF r.operation = "folders.update" THEN "folder-update" ELSE r.operation, r, {})
ReadAccount(r) == AsRead("account", r.operation, r, {})

\* The operation of the opcode, and its guard.
GuardOf(r) ==
  CASE r.operation = "messages.send" -> ReadSend(r)
    [] r.operation = "edit" -> ReadEdit(r)
    [] r.operation = "delete" -> ReadDelete(r)
    [] r.operation = "reaction" -> ReadReaction(r)
    [] r.operation = "chats.mark" -> ReadMark(r)
    [] r.operation = "chats.update" -> ReadUpdate(r)
    [] r.operation = "chats.updateMembers" -> ReadMembers(r)
    [] r.operation \in {"join", "leave"} -> ReadJoin(r)
    [] r.operation = "contacts.update" -> ReadContact(r)
    [] r.operation \in {"folders.update", "folder-delete"} -> ReadFolder(r)
    [] r.operation \in {"contact-import", "profile", "sessions-end"} -> ReadAccount(r)

----------------------------------------------------------------------------
NoSettings == [readOnly |-> {}, allow |-> {}]
Idle == [at |-> "idle", write |-> {}]
Rest == [of |-> "nothing"]

PermitsInit ==
  /\ settings = [profile |-> NoSettings, defaults |-> NoSettings]
  /\ listed = {}
  /\ editing = [e \in Editors |-> Rest] /\ edits = 0
  /\ startedWith = [a \in Askers |-> {}]
  /\ asking = [a \in Askers |-> Idle]
  /\ verdicts = [a \in Askers |-> {}]
  /\ asks = 0

\* What the files say now of the writes under way.
Noted ==
  verdicts' = [a \in Askers |-> verdicts[a] \cup { Permitted(ResolveSettings, Asked(w))' : w \in asking[a].write }]

\* changeSetting: the whole file is read, one setting of one scope changed, and the file written.
ReadConfig(e) ==
  /\ editing[e] = Rest /\ edits < MaxEdits
  /\ editing' = [editing EXCEPT ![e] = [of |-> "settings", was |-> settings]]
  /\ edits' = edits + 1
  /\ UNCHANGED << settings, listed, startedWith, asking, verdicts, asks >>

SaveConfig(e) ==
  /\ editing[e].of = "settings"
  /\ \E scope \in {"profile", "defaults"} :
       \/ \E value \in {{}, {TRUE}, {FALSE}} :
            settings' = [editing[e].was EXCEPT ![scope].readOnly = value]
       \/ \E value \in {{}} \cup { {l} : l \in Lists } :
            settings' = [editing[e].was EXCEPT ![scope].allow = value]
  /\ editing' = [editing EXCEPT ![e] = Rest]
  /\ UNCHANGED << listed, edits, startedWith, asking, asks >>
  /\ Noted

\* RecipientList: add and remove read the file and write it whole; off removes it.
ReadList(e) ==
  /\ editing[e] = Rest /\ edits < MaxEdits
  /\ editing' = [editing EXCEPT ![e] = [of |-> "list", was |-> listed]]
  /\ edits' = edits + 1
  /\ UNCHANGED << settings, listed, startedWith, asking, verdicts, asks >>

\* The partner is the other person of a dialog, known or not when the chat was first added.
Added(entries, c, partner) ==
  IF \E e \in entries : e.chat = c
  THEN { IF e.chat = c /\ e.partner = {} THEN [e EXCEPT !.partner = partner] ELSE e : e \in entries }
  ELSE entries \cup {[chat |-> c, partner |-> partner]}

SaveList(e) ==
  /\ editing[e].of = "list"
  /\ LET was == UNION editing[e].was IN
     \E c \in Chats :
       \/ \E partner \in {{}, {Partner[c]}} : listed' = { Added(was, c, partner) }
       \/ \E entry \in was : entry.chat = c /\ listed' = { was \ {entry} }
  /\ editing' = [editing EXCEPT ![e] = Rest]
  /\ UNCHANGED << settings, edits, startedWith, asking, asks >>
  /\ Noted

ListOff ==
  /\ listed # {} /\ edits < MaxEdits
  /\ listed' = {} /\ edits' = edits + 1
  /\ UNCHANGED << settings, editing, startedWith, asking, asks >>
  /\ Noted

----------------------------------------------------------------------------
\* contextFor: the settings are resolved once, for the command or for the whole of `max mcp`.
StartAsker(a) ==
  /\ startedWith[a] = {}
  /\ startedWith' = [startedWith EXCEPT ![a] = {ResolveSettings}]
  /\ UNCHANGED << settings, listed, editing, edits, asking, verdicts, asks >>

Ask(a) ==
  /\ startedWith[a] # {} /\ asking[a].at \in {"idle", "done", "passed", "refused"} /\ asks < MaxAsks
  /\ asks' = asks + 1
  /\ \E w \in Writes :
       /\ asking' = [asking EXCEPT ![a] = [at |-> "asked", write |-> {w}]]
       /\ verdicts' = [verdicts EXCEPT ![a] = {Permitted(ResolveSettings, Asked(w))}]
  /\ UNCHANGED << settings, listed, editing, edits, startedWith >>

Moves(a, at) == asking' = [asking EXCEPT ![a].at = at]

\* The check of the command, before it connects: with the settings it started with.
CheckOwn(a) ==
  /\ asking[a].at = "asked"
  /\ \E w \in asking[a].write, with \in startedWith[a] :
       \/ Permitted(with, Asked(w)) /\ Moves(a, "checked")
       \/ ~Permitted(with, Asked(w)) /\ Moves(a, "refused")
  /\ UNCHANGED << settings, listed, editing, edits, startedWith, verdicts, asks >>

\* Nobody answers at the server's socket: the connection is the command's own, and so is the check.
DoOwn(a) ==
  /\ asking[a].at = "checked"
  /\ Moves(a, "done")
  /\ UNCHANGED << settings, listed, editing, edits, startedWith, verdicts, asks >>

\* Mutant of ServersGuard: the settings of the command, which has checked with them already.
ServersGuardTrusting(a) == CHOOSE with \in startedWith[a] : TRUE

\* guardFor of the server, made again for every write.
ServersGuard(a) == ResolveSettings

\* #forward: the request is read and asked about, and goes to MAX or back as the refusal.
Forward(a) ==
  /\ asking[a].at = "checked"
  /\ \E w \in asking[a].write :
       LET asked == GuardOf(Request(w)) IN
       \/ /\ asked # {} /\ \A request \in asked : Permitted(ServersGuard(a), request)
          /\ Moves(a, "passed")
       \/ /\ asked = {} \/ \E request \in asked : ~Permitted(ServersGuard(a), request)
          /\ Moves(a, "refused")
  /\ UNCHANGED << settings, listed, editing, edits, startedWith, verdicts, asks >>

----------------------------------------------------------------------------
PermitsNext ==
  \/ \E e \in Editors : ReadConfig(e) \/ SaveConfig(e) \/ ReadList(e) \/ SaveList(e)
  \/ \E a \in Askers : StartAsker(a) \/ Ask(a) \/ CheckOwn(a) \/ DoOwn(a) \/ Forward(a)
  \/ ListOff

PermitsSpec == PermitsInit /\ [][PermitsNext]_permitVars

----------------------------------------------------------------------------
SettingsOf == [readOnly : {{}, {TRUE}, {FALSE}}, allow : {{}} \cup { {l} : l \in Lists }]
Entries == [chat : Chats, partner : {{}} \cup { {p} : p \in People }]
ListsOf == {{}} \cup { {entries} : entries \in SUBSET Entries }

\* Every variable has its type.
PermitsTypeOK ==
  /\ settings \in [profile : SettingsOf, defaults : SettingsOf]
  /\ listed \in ListsOf
  /\ \A e \in Editors :
       \/ editing[e] = Rest
       \/ editing[e].of = "settings" /\ editing[e].was \in [profile : SettingsOf, defaults : SettingsOf]
       \/ editing[e].of = "list" /\ editing[e].was \in ListsOf
  /\ \A a \in Askers :
       /\ startedWith[a] = {} \/ \E with \in SettingsOf : startedWith[a] = {with}
       /\ asking[a].at \in {"idle", "asked", "checked", "done", "passed", "refused"}
       /\ asking[a].write \subseteq Writes /\ Cardinality(asking[a].write) <= 1
       /\ verdicts[a] \subseteq BOOLEAN
  /\ edits \in 0 .. MaxEdits /\ asks \in 0 .. MaxAsks

\* No write goes to MAX over the server that the owner forbade throughout, from asking to doing:
\* whatever settings its process started with, and whatever its request looks like on the wire
\* ("Read again for every write, so `config set readOnly true` needs no restart",
\* src/src/server/server.ts:453).  And none is refused that the owner allowed throughout and the settings of
\* its start allow too: the server reads from the wire the write that the command asked about, with its
\* chat and its people.
PermitsObeyed ==
  \A a \in Askers :
    /\ asking[a].at = "passed" => TRUE \in verdicts[a]
    /\ asking[a].at = "refused" =>
         \/ FALSE \in verdicts[a]
         \/ \E w \in asking[a].write, with \in startedWith[a] :
              \/ with.readOnly = {TRUE}
              \/ \E list \in with.allow : PermissionFor(w.kind, w.action) \notin list
=============================================================================

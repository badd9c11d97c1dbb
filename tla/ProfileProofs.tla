--------------------------- MODULE ProfileProofs ---------------------------
(***************************************************************************)
(* What MCProfile's run checks on a small profile, for every value of the   *)
(* constants, as far as the provers reach it: the one line that every       *)
(* write of the owner leaves (OwnerWrites), the folder that two commands    *)
(* and a phone edit at once, the marker and the order that logins leave in  *)
(* the store (ContactStore), what a search of the file that is open finds   *)
(* (CacheFile), and the points that inbox and review keep (InboxReview).    *)
(***************************************************************************)
EXTENDS OwnerWrites, ContactStore, CacheFile, InboxReview, SequenceTheorems, FiniteSetTheorems, WellFoundedInduction, TLAPS

----------------------------------------------------------------------------
(* The writes of an owner. *)

Routes == {"none", "own", "server"}
Stations == {"idle", "ready", "read", "asked", "done", "ended", "died"}
WriteRecord == [kind : OwnerKinds \cup {"none"}, edit : Edits, route : Routes, at : Stations, read : Folders]
ServedStates == Outcomes \cup {"none", "asked", "passed", "dead"}
MaxStates == {"none", "asked", "did", "refused"}

\* The type, of whole functions.
OwnerTyped ==
  /\ write \in [Owners -> WriteRecord]
  /\ served \in [Owners -> ServedStates]
  /\ atMax \in [Owners -> MaxStates]
  /\ lines \in [Owners -> Seq(Outcomes)]
  /\ folder \in Folders
  /\ putIn \in [Owners -> SUBSET FolderChats]
  /\ phoneEdits \in 0 .. MaxPhoneEdits

\* Before the request there is nothing but a failure or a refusal to tell, and nobody was asked.
BeforeRequest(w, s, m, l) ==
  /\ w.at \in {"idle", "ready", "read"} => s = "none" /\ m = "none" /\ l = << >>
  /\ w.at \in {"asked", "done"} => w.route \in {"own", "server"}
  /\ w.route # "server" => s = "none"
  /\ w.route = "none" =>
       /\ m = "none"
       /\ w.at = "ended" => l = << "failed" >> \/ l = << "refused" >>
       /\ w.at = "died" => l = << >>

\* Over a connection of its own the command writes, once, as it leaves "asked".
OwnLineFits(w, m, l) ==
  w.route = "own" =>
    /\ w.at = "asked" => m # "none" /\ l = << >>
    /\ w.at = "done" => m = "did" /\ l = << "sent" >>
    /\ w.at = "ended" => l = << "failed" >> \/ (m = "did" /\ l = << "sent" >>)
    /\ w.at = "died" => l = << >> \/ (m = "did" /\ l = << "sent" >>)

\* Over the server it is the server that writes, once, as it leaves "passed" or refuses.
ServerLineFits(w, s, m, l) ==
  w.route = "server" =>
    /\ w.at \in {"asked", "done"} => s # "none"
    /\ w.at = "done" => s = "sent"
    /\ w.at # "died"
    /\ s \in {"none", "asked"} => m = "none" /\ l = << >>
    /\ s = "passed" => m # "none" /\ l = << >>
    /\ s = "dead" => l = << >>
    /\ s = "sent" => m = "did" /\ l = << "sent" >>
    /\ s = "failed" => m = "refused" /\ l = << "failed" >>
    /\ s = "refused" => m = "none" /\ l = << "refused" >>
    /\ s = "outcome_unknown" => m # "none" /\ l = << "outcome_unknown" >>

LineFits(w, s, m, l) == BeforeRequest(w, s, m, l) /\ OwnLineFits(w, m, l) /\ ServerLineFits(w, s, m, l)

\* What a command read of the folder, and what was put in since, are all that is in it.
ReadFits(p) ==
  /\ write[p].kind = "folder-update" /\ Watching(p) /\ write[p].at # "ready"
  => ChatsOf(folder) \subseteq ChatsOf(write[p].read) \cup putIn[p]

\* A command that holds no request yet has none anywhere.
OwnerInv ==
  /\ OwnerTyped
  /\ \A p \in Owners : LineFits(write[p], served[p], atMax[p], lines[p])
  /\ \A p \in Owners : ReadFits(p)

LEMMA OwnerTypedAtFirst == OwnerInit => OwnerTyped
  <1> SUFFICES ASSUME OwnerInit PROVE OwnerTyped
    OBVIOUS
  <1>1. Unwritten \in WriteRecord /\ {} \in Folders
    BY DEF Unwritten, NoEdit, WriteRecord, Edits, Folders, Routes, Stations
  <1>2. << >> \in Seq(Outcomes) /\ {} \in SUBSET FolderChats
    OBVIOUS
  <1>3. lines \in [Owners -> Seq(Outcomes)] /\ putIn \in [Owners -> SUBSET FolderChats]
    BY <1>2 DEF OwnerInit
  <1>4. {{}} \in Folders
    BY DEF Folders
  <1>5. phoneEdits \in 0 .. MaxPhoneEdits
    BY OwnerAssumption DEF OwnerInit
  <1> QED
    BY <1>1, <1>3, <1>4, <1>5 DEF OwnerInit, OwnerTyped, ServedStates, MaxStates

\* Of the records of the writes: a change of the station, and of what was read.
LEMMA StationTyped ==
  ASSUME NEW w \in WriteRecord, NEW at \in Stations
  PROVE  [w EXCEPT !.at = at] \in WriteRecord
  BY DEF WriteRecord

LEMMA MovesTyped ==
  ASSUME OwnerTyped, NEW p \in Owners, NEW at \in Stations, MovesTo(p, at)
  PROVE  /\ write' \in [Owners -> WriteRecord]
         /\ write'[p] = [write[p] EXCEPT !.at = at]
         /\ \A q \in Owners : q # p => write'[q] = write[q]
  BY StationTyped DEF MovesTo, OwnerTyped

LEMMA JournaledTyped ==
  ASSUME OwnerTyped, NEW p \in Owners, NEW outcome \in Outcomes, Journaled(p, outcome)
  PROVE  /\ lines' \in [Owners -> Seq(Outcomes)]
         /\ lines'[p] = IF outcome = "refused" \/ ~Journals(p) THEN Append(lines[p], outcome) ELSE lines[p]
         /\ \A q \in Owners : q # p => lines'[q] = lines[q]
  BY AppendProperties DEF Journaled, OwnerTyped

LEMMA FolderAfterTyped ==
  ASSUME OwnerTyped, NEW p \in Owners
  PROVE  FolderAfter(p) \in Folders
  <1>1. write[p] \in WriteRecord /\ folder \in Folders
    BY DEF OwnerTyped
  <1>2. write[p].read \in Folders /\ write[p].edit \in Edits
    BY <1>1 DEF WriteRecord
  <1>3. Include(write[p].read, write[p].edit) \in SUBSET FolderChats
    BY <1>2 DEF Include, Folders, Edits, ChatsOf
  <1>4. {} \in Folders /\ {Include(write[p].read, write[p].edit)} \in Folders
    BY <1>3 DEF Folders
  <1> QED
    BY <1>1, <1>4 DEF FolderAfter

LEMMA PutInTyped ==
  ASSUME OwnerTyped, folder' \in Folders, NoteNewcomers
  PROVE  putIn' \in [Owners -> SUBSET FolderChats]
  <1>1. ChatsOf(folder)' \subseteq FolderChats
    BY DEF Folders, ChatsOf
  <1> QED
    BY <1>1 DEF NoteNewcomers, OwnerTyped

\* Where a write leaves the others alone, its own line is all there is to see to.
LEMMA OthersKeep ==
  ASSUME NEW p \in Owners, \A q \in Owners : LineFits(write[q], served[q], atMax[q], lines[q]),
         \A q \in Owners \ {p} :
           write'[q] = write[q] /\ served'[q] = served[q] /\ atMax'[q] = atMax[q] /\ lines'[q] = lines[q],
         LineFits(write'[p], served'[p], atMax'[p], lines'[p])
  PROVE  \A q \in Owners : LineFits(write'[q], served'[q], atMax'[q], lines'[q])
  <1> SUFFICES ASSUME NEW q \in Owners PROVE LineFits(write'[q], served'[q], atMax'[q], lines'[q])
    OBVIOUS
  <1> QED
    BY DEF LineFits

\* The command moves to another station and writes its line, or does not.
LEMMA CommandLine ==
  ASSUME OwnerTyped, NEW p \in Owners, NEW at \in Stations, NEW outcome \in Outcomes, outcome # "refused",
         MovesTo(p, at), Journaled(p, outcome),
         \A q \in Owners : LineFits(write[q], served[q], atMax[q], lines[q]),
         UNCHANGED << served, atMax, folder, putIn, phoneEdits >>,
         LineFits([write[p] EXCEPT !.at = at], served[p], atMax[p],
                  IF Journals(p) THEN lines[p] ELSE Append(lines[p], outcome))
  PROVE  OwnerTyped' /\ \A q \in Owners : LineFits(write'[q], served'[q], atMax'[q], lines'[q])
  <1>1. OwnerTyped'
    BY MovesTyped, JournaledTyped DEF OwnerTyped
  <1>2. write'[p] = [write[p] EXCEPT !.at = at]
    BY MovesTyped
  <1>3. lines'[p] = IF Journals(p) THEN lines[p] ELSE Append(lines[p], outcome)
    BY JournaledTyped
  <1>4. LineFits(write'[p], served'[p], atMax'[p], lines'[p])
    BY <1>2, <1>3
  <1>5. \A q \in Owners \ {p} :
          write'[q] = write[q] /\ served'[q] = served[q] /\ atMax'[q] = atMax[q] /\ lines'[q] = lines[q]
    BY MovesTyped, JournaledTyped
  <1> QED
    BY <1>1, <1>4, <1>5, OthersKeep

\* The command moves to another station and writes nothing.
LEMMA CommandMoves ==
  ASSUME OwnerTyped, NEW p \in Owners, NEW at \in Stations, MovesTo(p, at),
         \A q \in Owners : LineFits(write[q], served[q], atMax[q], lines[q]),
         UNCHANGED << served, atMax, lines, folder, putIn, phoneEdits >>,
         LineFits([write[p] EXCEPT !.at = at], served[p], atMax[p], lines[p])
  PROVE  OwnerTyped' /\ \A q \in Owners : LineFits(write'[q], served'[q], atMax'[q], lines'[q])
  <1>1. OwnerTyped'
    BY MovesTyped DEF OwnerTyped
  <1>2. write'[p] = [write[p] EXCEPT !.at = at]
    BY MovesTyped
  <1>3. LineFits(write'[p], served'[p], atMax'[p], lines'[p])
    BY <1>2
  <1>4. \A q \in Owners \ {p} :
          write'[q] = write[q] /\ served'[q] = served[q] /\ atMax'[q] = atMax[q] /\ lines'[q] = lines[q]
    BY MovesTyped
  <1> QED
    BY <1>1, <1>3, <1>4, OthersKeep

\* The server learns something of the write, or MAX does.
LEMMA ServerMoves ==
  ASSUME OwnerTyped, NEW p \in Owners, NEW s \in ServedStates, NEW m \in MaxStates, NEW l \in Seq(Outcomes),
         write' = write, folder' \in Folders, putIn' \in [Owners -> SUBSET FolderChats], phoneEdits' = phoneEdits,
         served' = [served EXCEPT ![p] = s], atMax' = [atMax EXCEPT ![p] = m], lines' = [lines EXCEPT ![p] = l],
         \A q \in Owners : LineFits(write[q], served[q], atMax[q], lines[q]),
         LineFits(write[p], s, m, l)
  PROVE  OwnerTyped' /\ \A q \in Owners : LineFits(write'[q], served'[q], atMax'[q], lines'[q])
  <1>1. OwnerTyped'
    BY DEF OwnerTyped
  <1>2. served'[p] = s /\ atMax'[p] = m /\ lines'[p] = l
    BY DEF OwnerTyped
  <1>3. \A q \in Owners \ {p} :
          write'[q] = write[q] /\ served'[q] = served[q] /\ atMax'[q] = atMax[q] /\ lines'[q] = lines[q]
    BY DEF OwnerTyped
  <1> QED
    BY <1>1, <1>2, <1>3, OthersKeep

\* Whoever takes a step, every write keeps the one line it may have.
LEMMA LineFitsStep ==
  ASSUME OwnerTyped, \A q \in Owners : LineFits(write[q], served[q], atMax[q], lines[q]),
         NEW p \in Owners, OwnerStep(p)
  PROVE  OwnerTyped' /\ \A q \in Owners : LineFits(write'[q], served'[q], atMax'[q], lines'[q])
  <1> DEFINE w == write[p]
             s == served[p]
             m == atMax[p]
             l == lines[p]
             Goal == OwnerTyped' /\ \A q \in Owners : LineFits(write'[q], served'[q], atMax'[q], lines'[q])
  <1>1. w \in WriteRecord /\ s \in ServedStates /\ m \in MaxStates /\ l \in Seq(Outcomes) /\ LineFits(w, s, m, l)
    BY DEF OwnerTyped
  <1>2. \A at \in Stations : [w EXCEPT !.at = at].at = at /\ [w EXCEPT !.at = at].route = w.route
    BY <1>1 DEF WriteRecord
  <1>3. w.at \in Stations /\ w.route \in Routes
    BY <1>1 DEF WriteRecord
  <1>4. \A outcome \in Outcomes : Append(<< >>, outcome) = << outcome >>
    OBVIOUS
  <1>5. Journals(p) <=> w.route = "server"
    BY DEF Journals
  <1>6. \A q \in Owners : LineFits(write[q], served[q], atMax[q], lines[q])
    OBVIOUS
  <1> HIDE DEF w, s, m, l
  <1>8. ASSUME NEW kind \in OwnerKinds, CheckRefuses(p, kind) PROVE Goal
    <2> DEFINE v == [Unwritten EXCEPT !.kind = kind, !.at = "ended"]
    <2>1. w.at = "idle" /\ s = "none" /\ m = "none" /\ l = << >>
      BY <1>1, <1>8 DEF CheckRefuses, MayBegin, LineFits, BeforeRequest, w
    <2>2. v \in WriteRecord /\ v.at = "ended" /\ v.route = "none"
      BY DEF Unwritten, NoEdit, WriteRecord, Edits, Folders, Routes, Stations
    <2>3. LineFits(v, s, m, << "refused" >>)
      BY <2>1, <2>2 DEF LineFits, BeforeRequest, OwnLineFits, ServerLineFits
    <2> HIDE DEF v
    <2>4. write' = [write EXCEPT ![p] = v] /\ UNCHANGED << served, atMax, folder, putIn, phoneEdits >>
      BY <1>8 DEF CheckRefuses, v
    <2>5. /\ lines' \in [Owners -> Seq(Outcomes)] /\ lines'[p] = << "refused" >>
          /\ \A q \in Owners : q # p => lines'[q] = lines[q]
      <3>1. "refused" \in Outcomes /\ Journaled(p, "refused")
        BY <1>8 DEF CheckRefuses, Outcomes
      <3> QED
        BY <1>4, <2>1, <3>1, JournaledTyped DEF l
    <2>6. OwnerTyped'
      BY <2>2, <2>4, <2>5 DEF OwnerTyped
    <2>7. LineFits(write'[p], served'[p], atMax'[p], lines'[p])
      BY <2>3, <2>4, <2>5 DEF OwnerTyped, s, m
    <2>8. \A q \in Owners \ {p} :
            write'[q] = write[q] /\ served'[q] = served[q] /\ atMax'[q] = atMax[q] /\ lines'[q] = lines[q]
      BY <2>4, <2>5 DEF OwnerTyped
    <2> QED
      BY <1>6, <2>6, <2>7, <2>8, OthersKeep
  <1>9. ASSUME NEW kind \in OwnerKinds, NEW edit \in Edits, NEW route \in Routes, CheckPasses(p, kind, edit, route)
        PROVE  Goal
    <2> DEFINE v == [kind |-> kind, edit |-> edit, route |-> route, at |-> "ready", read |-> {}]
    <2>1. w.at = "idle" /\ s = "none" /\ m = "none" /\ l = << >>
      BY <1>1, <1>9 DEF CheckPasses, MayBegin, LineFits, BeforeRequest, w
    <2>2. v \in WriteRecord /\ v.at = "ready" /\ v.route = route
      BY DEF WriteRecord, Folders, Stations
    <2>3. LineFits(v, s, m, l)
      BY <2>1, <2>2 DEF LineFits, BeforeRequest, OwnLineFits, ServerLineFits
    <2> HIDE DEF v
    <2>4. write' = [write EXCEPT ![p] = v] /\ UNCHANGED << served, atMax, lines, folder, putIn, phoneEdits >>
      BY <1>9 DEF CheckPasses, v
    <2>6. OwnerTyped'
      BY <2>2, <2>4 DEF OwnerTyped
    <2>7. LineFits(write'[p], served'[p], atMax'[p], lines'[p])
      BY <2>3, <2>4 DEF OwnerTyped, s, m, l
    <2>8. \A q \in Owners \ {p} :
            write'[q] = write[q] /\ served'[q] = served[q] /\ atMax'[q] = atMax[q] /\ lines'[q] = lines[q]
      BY <2>4 DEF OwnerTyped
    <2> QED
      BY <1>6, <2>6, <2>7, <2>8, OthersKeep
  <1>10. ASSUME Fails(p) PROVE Goal
    <2>1. w.at \in {"ready", "read"}
      BY <1>10 DEF Fails, w
    <2>2. "ended" \in Stations /\ "failed" \in Outcomes
      BY DEF Stations, Outcomes
    <2> DEFINE v == [w EXCEPT !.at = "ended"]
               k == IF Journals(p) THEN l ELSE Append(l, "failed")
    <2>3. LineFits(v, s, m, k)
      <3>1. v.at = "ended" /\ v.route = w.route
        BY <1>2, <2>2
      <3>2. /\ w.route = "server" => k = l
            /\ w.route # "server" /\ l = << >> => k = << "failed" >>
        BY <1>4, <1>5, <2>2
      <3> HIDE DEF v, k
      <3>3. BeforeRequest(v, s, m, k)
        BY <1>1, <1>3, <2>1, <3>1, <3>2 DEF LineFits, BeforeRequest, OwnLineFits, Routes
      <3>4. OwnLineFits(v, m, k)
        BY <1>1, <1>3, <2>1, <3>1, <3>2 DEF LineFits, BeforeRequest, OwnLineFits, Routes
      <3>5. ServerLineFits(v, s, m, k)
        BY <1>1, <1>3, <2>1, <3>1, <3>2 DEF LineFits, BeforeRequest, ServerLineFits, Routes
      <3> QED
        BY <3>3, <3>4, <3>5 DEF LineFits
    <2>4. LineFits([write[p] EXCEPT !.at = "ended"], served[p], atMax[p],
                   IF Journals(p) THEN lines[p] ELSE Append(lines[p], "failed"))
      BY <2>3 DEF w, s, m, l
    <2>5. MovesTo(p, "ended") /\ Journaled(p, "failed") /\ UNCHANGED << served, atMax, folder, putIn, phoneEdits >>
      BY <1>10 DEF Fails
    <2> QED
      BY <1>6, <2>2, <2>4, <2>5, CommandLine
  <1>11. ASSUME ListFolders(p) PROVE Goal
    <2> DEFINE v == [w EXCEPT !.at = "read", !.read = folder]
    <2>1. w.at = "ready" /\ w.route # "none" /\ s = "none" /\ m = "none" /\ l = << >>
      BY <1>1, <1>11 DEF ListFolders, LineFits, BeforeRequest, w
    <2>2. v \in WriteRecord /\ v.at = "read" /\ v.route = w.route
      BY <1>1 DEF WriteRecord, Stations, OwnerTyped
    <2>3. LineFits(v, s, m, l)
      BY <2>1, <2>2 DEF LineFits, BeforeRequest, OwnLineFits, ServerLineFits
    <2>4. write' = [write EXCEPT ![p] = v] /\ UNCHANGED << served, atMax, lines, folder, putIn, phoneEdits >>
      BY <1>11 DEF ListFolders, v, w, OwnerTyped
    <2> HIDE DEF v
    <2>6. OwnerTyped'
      BY <2>2, <2>4 DEF OwnerTyped
    <2>7. LineFits(write'[p], served'[p], atMax'[p], lines'[p])
      BY <2>3, <2>4 DEF OwnerTyped, s, m, l
    <2>8. \A q \in Owners \ {p} :
            write'[q] = write[q] /\ served'[q] = served[q] /\ atMax'[q] = atMax[q] /\ lines'[q] = lines[q]
      BY <2>4 DEF OwnerTyped
    <2> QED
      BY <1>6, <2>6, <2>7, <2>8, OthersKeep
  <1>12. ASSUME Requests(p) PROVE Goal
    <2>1. w.at \in {"ready", "read"} /\ w.route # "none" /\ s = "none" /\ m = "none" /\ l = << >>
      BY <1>1, <1>12 DEF Requests, LineFits, BeforeRequest, w
    <2>2. "asked" \in Stations /\ "asked" \in ServedStates /\ "asked" \in MaxStates
      BY DEF Stations, ServedStates, MaxStates
    <2>3. /\ MovesTo(p, "asked") /\ UNCHANGED << lines, folder, putIn, phoneEdits >>
          /\ IF Journals(p) THEN served' = [served EXCEPT ![p] = "asked"] /\ UNCHANGED atMax
                            ELSE atMax' = [atMax EXCEPT ![p] = "asked"] /\ UNCHANGED served
      BY <1>12 DEF Requests
    <2>4. OwnerTyped'
      BY <2>2, <2>3, MovesTyped DEF OwnerTyped
    <2>5. write'[p] = [w EXCEPT !.at = "asked"]
      BY <2>2, <2>3, MovesTyped DEF w
    <2>6. /\ w.route = "server" => served'[p] = "asked" /\ atMax'[p] = "none"
          /\ w.route # "server" => served'[p] = "none" /\ atMax'[p] = "asked"
          /\ lines'[p] = << >>
      BY <1>5, <2>1, <2>3 DEF OwnerTyped, s, m, l
    <2>7. LineFits(write'[p], served'[p], atMax'[p], lines'[p])
      BY <1>2, <1>3, <2>1, <2>2, <2>5, <2>6 DEF LineFits, BeforeRequest, OwnLineFits, ServerLineFits, Routes
    <2>8. \A q \in Owners \ {p} :
            write'[q] = write[q] /\ served'[q] = served[q] /\ atMax'[q] = atMax[q] /\ lines'[q] = lines[q]
      BY <2>2, <2>3, MovesTyped DEF OwnerTyped
    <2> QED
      BY <1>6, <2>4, <2>7, <2>8, OthersKeep
  <1>13. ASSUME ServerRefuses(p) PROVE Goal
    <2>1. s = "asked" /\ l = << >>
      BY <1>1, <1>13 DEF ServerRefuses, s, LineFits, BeforeRequest, OwnLineFits, ServerLineFits
    <2>2. LineFits(w, "refused", m, << "refused" >>)
      BY <1>1, <1>3, <1>4, <2>1 DEF LineFits, BeforeRequest, OwnLineFits, ServerLineFits, Routes
    <2>3. "refused" \in ServedStates /\ m \in MaxStates /\ << "refused" >> \in Seq(Outcomes)
      BY <1>1, <2>1 DEF ServedStates, MaxStates, Outcomes
    <2>4. /\ served' = [served EXCEPT ![p] = "refused"] /\ atMax' = [atMax EXCEPT ![p] = m]
          /\ lines' = [lines EXCEPT ![p] = << "refused" >>]
      BY <1>4, <1>13, <2>1 DEF ServerRefuses, OwnerTyped, s, m, l
    <2>5. write' = write /\ folder' = folder /\ putIn' = putIn /\ phoneEdits' = phoneEdits
      BY <1>13 DEF ServerRefuses
    <2>6. folder' \in Folders /\ putIn' \in [Owners -> SUBSET FolderChats]
      BY <2>5 DEF OwnerTyped
    <2> QED
      BY <1>6, <2>2, <2>3, <2>4, <2>5, <2>6, ServerMoves DEF w
  <1>14. ASSUME ServerPasses(p) PROVE Goal
    <2>1. s = "asked"
      BY <1>1, <1>14 DEF ServerPasses, s, LineFits, BeforeRequest, OwnLineFits, ServerLineFits
    <2>2. LineFits(w, "passed", "asked", l)
      BY <1>1, <1>3, <1>4, <2>1 DEF LineFits, BeforeRequest, OwnLineFits, ServerLineFits, Routes
    <2>3. "passed" \in ServedStates /\ "asked" \in MaxStates /\ l \in Seq(Outcomes)
      BY <1>1, <2>1 DEF ServedStates, MaxStates, Outcomes
    <2>4. /\ served' = [served EXCEPT ![p] = "passed"] /\ atMax' = [atMax EXCEPT ![p] = "asked"]
          /\ lines' = [lines EXCEPT ![p] = l]
      BY <1>4, <1>14, <2>1 DEF ServerPasses, OwnerTyped, s, m, l
    <2>5. write' = write /\ folder' = folder /\ putIn' = putIn /\ phoneEdits' = phoneEdits
      BY <1>14 DEF ServerPasses
    <2>6. folder' \in Folders /\ putIn' \in [Owners -> SUBSET FolderChats]
      BY <2>5 DEF OwnerTyped
    <2> QED
      BY <1>6, <2>2, <2>3, <2>4, <2>5, <2>6, ServerMoves DEF w
  <1>15. ASSUME NEW outcome \in {"sent", "failed", "outcome_unknown"}, SendJournaled(p, outcome) PROVE Goal
    <2>1. /\ s = "passed" /\ l = << >> /\ outcome \in Outcomes
          /\ outcome = "sent" => m = "did"
          /\ outcome = "failed" => m = "refused"
          /\ outcome \in {"sent", "failed", "outcome_unknown"}
      BY <1>1, <1>15 DEF SendJournaled, s, m, Outcomes, LineFits, BeforeRequest, OwnLineFits, ServerLineFits
    <2>2. LineFits(w, outcome, m, << outcome >>)
      BY <1>1, <1>3, <1>4, <2>1 DEF LineFits, BeforeRequest, OwnLineFits, ServerLineFits, Routes
    <2>3. outcome \in ServedStates /\ m \in MaxStates /\ << outcome >> \in Seq(Outcomes)
      BY <1>1, <2>1 DEF ServedStates, MaxStates, Outcomes
    <2>4. /\ served' = [served EXCEPT ![p] = outcome] /\ atMax' = [atMax EXCEPT ![p] = m]
          /\ lines' = [lines EXCEPT ![p] = << outcome >>]
      BY <1>4, <1>15, <2>1 DEF SendJournaled, OwnerTyped, s, m, l
    <2>5. write' = write /\ folder' = folder /\ putIn' = putIn /\ phoneEdits' = phoneEdits
      BY <1>15 DEF SendJournaled
    <2>6. folder' \in Folders /\ putIn' \in [Owners -> SUBSET FolderChats]
      BY <2>5 DEF OwnerTyped
    <2> QED
      BY <1>6, <2>2, <2>3, <2>4, <2>5, <2>6, ServerMoves DEF w
  <1>16. ASSUME MaxDoes(p) PROVE Goal
    <2>1. m = "asked"
      BY <1>1, <1>16 DEF MaxDoes, m, LineFits, BeforeRequest, OwnLineFits, ServerLineFits
    <2>2. LineFits(w, s, "did", l)
      BY <1>1, <1>3, <1>4, <2>1 DEF LineFits, BeforeRequest, OwnLineFits, ServerLineFits, Routes
    <2>3. s \in ServedStates /\ "did" \in MaxStates /\ l \in Seq(Outcomes)
      BY <1>1, <2>1 DEF ServedStates, MaxStates, Outcomes
    <2>4. /\ served' = [served EXCEPT ![p] = s] /\ atMax' = [atMax EXCEPT ![p] = "did"]
          /\ lines' = [lines EXCEPT ![p] = l]
      BY <1>4, <1>16, <2>1 DEF MaxDoes, OwnerTyped, s, m, l
    <2>5. write' = write /\ phoneEdits' = phoneEdits
      BY <1>16 DEF MaxDoes
    <2>6. folder' \in Folders /\ putIn' \in [Owners -> SUBSET FolderChats]
      BY <1>16, FolderAfterTyped, PutInTyped DEF MaxDoes
    <2> QED
      BY <1>6, <2>2, <2>3, <2>4, <2>5, <2>6, ServerMoves DEF w
  <1>17. ASSUME MaxSaysNo(p) PROVE Goal
    <2>1. m = "asked"
      BY <1>1, <1>17 DEF MaxSaysNo, m, LineFits, BeforeRequest, OwnLineFits, ServerLineFits
    <2>2. LineFits(w, s, "refused", l)
      BY <1>1, <1>3, <1>4, <2>1 DEF LineFits, BeforeRequest, OwnLineFits, ServerLineFits, Routes
    <2>3. s \in ServedStates /\ "refused" \in MaxStates /\ l \in Seq(Outcomes)
      BY <1>1, <2>1 DEF ServedStates, MaxStates, Outcomes
    <2>4. /\ served' = [served EXCEPT ![p] = s] /\ atMax' = [atMax EXCEPT ![p] = "refused"]
          /\ lines' = [lines EXCEPT ![p] = l]
      BY <1>4, <1>17, <2>1 DEF MaxSaysNo, OwnerTyped, s, m, l
    <2>5. write' = write /\ folder' = folder /\ putIn' = putIn /\ phoneEdits' = phoneEdits
      BY <1>17 DEF MaxSaysNo
    <2>6. folder' \in Folders /\ putIn' \in [Owners -> SUBSET FolderChats]
      BY <2>5 DEF OwnerTyped
    <2> QED
      BY <1>6, <2>2, <2>3, <2>4, <2>5, <2>6, ServerMoves DEF w
  <1>18. ASSUME GivesUp(p) PROVE Goal
    <2>1. w.at = "asked"
      BY <1>18 DEF GivesUp, w
    <2>2. "ended" \in Stations /\ "failed" \in Outcomes
      BY DEF Stations, Outcomes
    <2> DEFINE v == [w EXCEPT !.at = "ended"]
               k == IF Journals(p) THEN l ELSE Append(l, "failed")
    <2>3. LineFits(v, s, m, k)
      <3>1. v.at = "ended" /\ v.route = w.route
        BY <1>2, <2>2
      <3>2. /\ w.route = "server" => k = l
            /\ w.route # "server" /\ l = << >> => k = << "failed" >>
        BY <1>4, <1>5, <2>2
      <3> HIDE DEF v, k
      <3>3. BeforeRequest(v, s, m, k)
        BY <1>1, <1>3, <2>1, <3>1, <3>2 DEF LineFits, BeforeRequest, OwnLineFits, Routes
      <3>4. OwnLineFits(v, m, k)
        BY <1>1, <1>3, <2>1, <3>1, <3>2 DEF LineFits, BeforeRequest, OwnLineFits, Routes
      <3>5. ServerLineFits(v, s, m, k)
        BY <1>1, <1>3, <2>1, <3>1, <3>2 DEF LineFits, BeforeRequest, ServerLineFits, Routes
      <3> QED
        BY <3>3, <3>4, <3>5 DEF LineFits
    <2>4. LineFits([write[p] EXCEPT !.at = "ended"], served[p], atMax[p],
                   IF Journals(p) THEN lines[p] ELSE Append(lines[p], "failed"))
      BY <2>3 DEF w, s, m, l
    <2>5. MovesTo(p, "ended") /\ Journaled(p, "failed") /\ UNCHANGED << served, atMax, folder, putIn, phoneEdits >>
      BY <1>18 DEF GivesUp
    <2> QED
      BY <1>6, <2>2, <2>4, <2>5, CommandLine
  <1>19. ASSUME Succeeds(p) PROVE Goal
    <2>1. w.at = "asked" /\ (w.route = "server" => s = "sent") /\ (w.route # "server" => m = "did")
      BY <1>19 DEF Succeeds, Answered, Journals, s, m, w
    <2>2. "ended" \in Stations /\ "sent" \in Outcomes
      BY DEF Stations, Outcomes
    <2> DEFINE v == [w EXCEPT !.at = "ended"]
               k == IF Journals(p) THEN l ELSE Append(l, "sent")
    <2>3. LineFits(v, s, m, k)
      <3>1. v.at = "ended" /\ v.route = w.route
        BY <1>2, <2>2
      <3>2. /\ w.route = "server" => k = l
            /\ w.route # "server" /\ l = << >> => k = << "sent" >>
        BY <1>4, <1>5, <2>2
      <3> HIDE DEF v, k
      <3>3. BeforeRequest(v, s, m, k)
        BY <1>1, <1>3, <2>1, <3>1, <3>2 DEF LineFits, BeforeRequest, OwnLineFits, Routes
      <3>4. OwnLineFits(v, m, k)
        BY <1>1, <1>3, <2>1, <3>1, <3>2 DEF LineFits, BeforeRequest, OwnLineFits, Routes
      <3>5. ServerLineFits(v, s, m, k)
        BY <1>1, <1>3, <2>1, <3>1, <3>2 DEF LineFits, BeforeRequest, ServerLineFits, Routes
      <3> QED
        BY <3>3, <3>4, <3>5 DEF LineFits
    <2>4. LineFits([write[p] EXCEPT !.at = "ended"], served[p], atMax[p],
                   IF Journals(p) THEN lines[p] ELSE Append(lines[p], "sent"))
      BY <2>3 DEF w, s, m, l
    <2>5. MovesTo(p, "ended") /\ Journaled(p, "sent") /\ UNCHANGED << served, atMax, folder, putIn, phoneEdits >>
      BY <1>19 DEF Succeeds
    <2> QED
      BY <1>6, <2>2, <2>4, <2>5, CommandLine
  <1>20. ASSUME StoreFails(p) PROVE Goal
    <2>1. w.at = "asked" /\ (w.route = "server" => s = "sent") /\ (w.route # "server" => m = "did")
      BY <1>20 DEF StoreFails, Answered, Journals, s, m, w
    <2>2. "ended" \in Stations /\ "failed" \in Outcomes
      BY DEF Stations, Outcomes
    <2> DEFINE v == [w EXCEPT !.at = "ended"]
               k == IF Journals(p) THEN l ELSE Append(l, "failed")
    <2>3. LineFits(v, s, m, k)
      <3>1. v.at = "ended" /\ v.route = w.route
        BY <1>2, <2>2
      <3>2. /\ w.route = "server" => k = l
            /\ w.route # "server" /\ l = << >> => k = << "failed" >>
        BY <1>4, <1>5, <2>2
      <3> HIDE DEF v, k
      <3>3. BeforeRequest(v, s, m, k)
        BY <1>1, <1>3, <2>1, <3>1, <3>2 DEF LineFits, BeforeRequest, OwnLineFits, Routes
      <3>4. OwnLineFits(v, m, k)
        BY <1>1, <1>3, <2>1, <3>1, <3>2 DEF LineFits, BeforeRequest, OwnLineFits, Routes
      <3>5. ServerLineFits(v, s, m, k)
        BY <1>1, <1>3, <2>1, <3>1, <3>2 DEF LineFits, BeforeRequest, ServerLineFits, Routes
      <3> QED
        BY <3>3, <3>4, <3>5 DEF LineFits
    <2>4. LineFits([write[p] EXCEPT !.at = "ended"], served[p], atMax[p],
                   IF Journals(p) THEN lines[p] ELSE Append(lines[p], "failed"))
      BY <2>3 DEF w, s, m, l
    <2>5. MovesTo(p, "ended") /\ Journaled(p, "failed") /\ UNCHANGED << served, atMax, folder, putIn, phoneEdits >>
      BY <1>20 DEF StoreFails
    <2> QED
      BY <1>6, <2>2, <2>4, <2>5, CommandLine
  <1>21. ASSUME SessionsEnded(p) PROVE Goal
    <2>1. w.at = "asked" /\ (w.route = "server" => s = "sent") /\ (w.route # "server" => m = "did")
      BY <1>21 DEF SessionsEnded, Answered, Journals, s, m, w
    <2>2. "done" \in Stations /\ "sent" \in Outcomes
      BY DEF Stations, Outcomes
    <2> DEFINE v == [w EXCEPT !.at = "done"]
               k == IF Journals(p) THEN l ELSE Append(l, "sent")
    <2>3. LineFits(v, s, m, k)
      <3>1. v.at = "done" /\ v.route = w.route
        BY <1>2, <2>2
      <3>2. /\ w.route = "server" => k = l
            /\ w.route # "server" /\ l = << >> => k = << "sent" >>
        BY <1>4, <1>5, <2>2
      <3> HIDE DEF v, k
      <3>3. BeforeRequest(v, s, m, k)
        BY <1>1, <1>3, <2>1, <3>1, <3>2 DEF LineFits, BeforeRequest, OwnLineFits, Routes
      <3>4. OwnLineFits(v, m, k)
        BY <1>1, <1>3, <2>1, <3>1, <3>2 DEF LineFits, BeforeRequest, OwnLineFits, Routes
      <3>5. ServerLineFits(v, s, m, k)
        BY <1>1, <1>3, <2>1, <3>1, <3>2 DEF LineFits, BeforeRequest, ServerLineFits, Routes
      <3> QED
        BY <3>3, <3>4, <3>5 DEF LineFits
    <2>4. LineFits([write[p] EXCEPT !.at = "done"], served[p], atMax[p],
                   IF Journals(p) THEN lines[p] ELSE Append(lines[p], "sent"))
      BY <2>3 DEF w, s, m, l
    <2>5. MovesTo(p, "done") /\ Journaled(p, "sent") /\ UNCHANGED << served, atMax, folder, putIn, phoneEdits >>
      BY <1>21 DEF SessionsEnded
    <2> QED
      BY <1>6, <2>2, <2>4, <2>5, CommandLine
  <1>22. ASSUME AfterSessionsEnded(p) PROVE Goal
    <2>1. w.at = "done"
      BY <1>22 DEF AfterSessionsEnded, w
    <2>2. "ended" \in Stations
      BY DEF Stations
    <2>3. LineFits([w EXCEPT !.at = "ended"], s, m, l)
      BY <1>1, <1>2, <1>3, <1>5, <2>1, <2>2 DEF LineFits, BeforeRequest, OwnLineFits, ServerLineFits, Routes, Stations
    <2>4. LineFits([write[p] EXCEPT !.at = "ended"], served[p], atMax[p], lines[p])
      BY <2>3 DEF w, s, m, l
    <2>5. MovesTo(p, "ended") /\ UNCHANGED << served, atMax, lines, folder, putIn, phoneEdits >>
      BY <1>22 DEF AfterSessionsEnded
    <2> QED
      BY <1>6, <2>2, <2>4, <2>5, CommandMoves
  <1>23. ASSUME CommandDies(p) PROVE Goal
    <2> DEFINE to == IF Journals(p) THEN "ended" ELSE "died"
    <2>1. w.at \notin {"idle", "ended", "died"}
      BY <1>23 DEF CommandDies, w
    <2>2. to \in Stations
      BY DEF Stations
    <2>3. LineFits([w EXCEPT !.at = to], s, m, l)
      BY <1>1, <1>2, <1>3, <1>5, <2>1, <2>2 DEF LineFits, BeforeRequest, OwnLineFits, ServerLineFits, Routes, Stations
    <2>4. LineFits([write[p] EXCEPT !.at = to], served[p], atMax[p], lines[p])
      BY <2>3 DEF w, s, m, l
    <2>5. MovesTo(p, to) /\ UNCHANGED << served, atMax, lines, folder, putIn, phoneEdits >>
      BY <1>23 DEF CommandDies
    <2> QED
      BY <1>6, <2>2, <2>4, <2>5, CommandMoves
  <1> QED
    BY <1>8, <1>9, <1>10, <1>11, <1>12, <1>13, <1>14, <1>15, <1>16, <1>17, <1>18, <1>19, <1>20, <1>21, <1>22, <1>23
    DEF OwnerStep, Routes

\* The folder stays as it is, and a command that goes on was under way.
LEMMA ReadKept ==
  ASSUME NEW q \in Owners, ReadFits(q), folder' = folder, putIn' = putIn,
         write'[q].kind = write[q].kind, write'[q].read = write[q].read,
         Watching(q)' /\ write'[q].at # "ready" => Watching(q) /\ write[q].at # "ready"
  PROVE  ReadFits(q)'
  BY DEF ReadFits, ChatsOf

\* Somebody changes the folder: whoever is under way has it noted for them.
LEMMA ReadNoted ==
  ASSUME NEW q \in Owners, ReadFits(q), NoteNewcomers, write' = write, Watching(q)' => Watching(q)
  PROVE  ReadFits(q)'
  <1> DEFINE new == ChatsOf(folder)'
             old == ChatsOf(folder)
             read == ChatsOf(write[q].read)
  <1>1. ReadFits(q)' <=> (write[q].kind = "folder-update" /\ Watching(q)' /\ write[q].at # "ready"
                          => new \subseteq ChatsOf(write'[q].read) \cup putIn'[q])
    BY DEF ReadFits
  <1>2. ChatsOf(write'[q].read) = read
    OBVIOUS
  <1>3. Watching(q) => putIn'[q] = putIn[q] \cup (new \ old)
    BY DEF NoteNewcomers, ChatsOf
  <1>4. write[q].kind = "folder-update" /\ Watching(q) /\ write[q].at # "ready" => old \subseteq read \cup putIn[q]
    BY DEF ReadFits
  <1> HIDE DEF new, old, read
  <1> QED
    BY <1>1, <1>2, <1>3, <1>4

LEMMA ReadFitsStep ==
  ASSUME OwnerTyped, \A q \in Owners : LineFits(write[q], served[q], atMax[q], lines[q]),
         \A q \in Owners : ReadFits(q), NEW p \in Owners, OwnerStep(p), NEW q \in Owners
  PROVE  ReadFits(q)'
  <1> DEFINE GoesOn == Watching(q)' /\ write'[q].at # "ready" => Watching(q) /\ write[q].at # "ready"
             SameRead == /\ folder' = folder /\ putIn' = putIn
                     /\ write'[q].kind = write[q].kind /\ write'[q].read = write[q].read
  <1>1. \A at \in Stations : MovesTo(p, at) =>
          /\ write'[q].kind = write[q].kind /\ write'[q].read = write[q].read
          /\ q # p => write'[q] = write[q]
          /\ q = p => write'[q].at = at
    <2> SUFFICES ASSUME NEW at \in Stations, MovesTo(p, at)
                 PROVE  /\ write'[q].kind = write[q].kind /\ write'[q].read = write[q].read
                        /\ q # p => write'[q] = write[q]
                        /\ q = p => write'[q].at = at
      OBVIOUS
    <2>1. write[q] \in WriteRecord
      BY DEF OwnerTyped
    <2>2. q # p => write'[q] = write[q]
      BY MovesTyped
    <2>3. q = p => write'[q] = [write[q] EXCEPT !.at = at]
      BY MovesTyped
    <2>4. LET v == [write[q] EXCEPT !.at = at]
          IN v.at = at /\ v.kind = write[q].kind /\ v.read = write[q].read
      BY <2>1 DEF WriteRecord
    <2> QED
      BY <2>2, <2>3, <2>4
  <1>2. ReadFits(q)
    OBVIOUS
  <1>3. SameRead /\ GoesOn => ReadFits(q)'
    BY <1>2, ReadKept
  <1>4. {"idle", "ready", "read", "asked", "done", "ended", "died"} \subseteq Stations
    BY DEF Stations
  <1>5. write[p].at \in {"idle", "ready", "read"} => served[p] = "none" /\ atMax[p] = "none"
    BY DEF LineFits, BeforeRequest
  <1>6. ASSUME NEW kind \in OwnerKinds, CheckRefuses(p, kind) PROVE ReadFits(q)'
    <2>1. CASE q = p
      <3>1. write'[q] = [Unwritten EXCEPT !.kind = kind, !.at = "ended"]
        BY <1>6, <2>1 DEF CheckRefuses, OwnerTyped
      <3>2. write'[q].at = "ended" /\ served'[q] = "none" /\ atMax'[q] = "none"
        BY <1>5, <1>6, <2>1, <3>1 DEF CheckRefuses, MayBegin, Unwritten
      <3>3. ~ Watching(q)'
        BY <3>2 DEF Watching
      <3> QED
        BY <3>3 DEF ReadFits
    <2>2. CASE q # p
      <3>1. SameRead /\ GoesOn
        BY <1>6, <2>2 DEF CheckRefuses, Watching, OwnerTyped
      <3> QED
        BY <1>3, <3>1
    <2> QED
      BY <2>1, <2>2
  <1>7. ASSUME NEW kind \in OwnerKinds, NEW edit \in Edits, NEW route \in Routes, CheckPasses(p, kind, edit, route)
        PROVE  ReadFits(q)'
    <2>1. CASE q = p
      <3>1. write'[q].at = "ready"
        BY <1>7, <2>1 DEF CheckPasses, OwnerTyped
      <3> QED
        BY <3>1 DEF ReadFits
    <2>2. CASE q # p
      <3>1. SameRead /\ GoesOn
        BY <1>7, <2>2 DEF CheckPasses, Watching, OwnerTyped
      <3> QED
        BY <1>3, <3>1
    <2> QED
      BY <2>1, <2>2
  <1>8. ASSUME ListFolders(p) PROVE ReadFits(q)'
    <2>1. CASE q = p
      <3>1. write'[q].read = folder /\ folder' = folder
        BY <1>8, <2>1 DEF ListFolders, OwnerTyped, WriteRecord
      <3>2. ChatsOf(folder)' \subseteq ChatsOf(write'[q].read)
        BY <3>1 DEF ChatsOf
      <3> QED
        BY <3>2 DEF ReadFits
    <2>2. CASE q # p
      <3>1. SameRead /\ GoesOn
        BY <1>8, <2>2 DEF ListFolders, Watching, OwnerTyped
      <3> QED
        BY <1>3, <3>1
    <2> QED
      BY <2>1, <2>2
  <1>9. ASSUME Fails(p) PROVE ReadFits(q)'
    <2>1. write[p].at \in {"ready", "read"} /\ MovesTo(p, "ended") /\ UNCHANGED << served, atMax, folder, putIn >>
      BY <1>9 DEF Fails
    <2>2. SameRead /\ GoesOn
      BY <1>1, <1>4, <1>5, <2>1 DEF Watching
    <2> QED
      BY <1>3, <2>2
  <1>10. ASSUME Requests(p) PROVE ReadFits(q)'
    <2>1. /\ MovesTo(p, "asked") /\ UNCHANGED << folder, putIn >>
          /\ write[p].at \in {"ready", "read"} /\ (write[p].kind = "folder-update" => write[p].at = "read")
      BY <1>10 DEF Requests, NeedsFolder
    <2>2. \A r \in Owners \ {p} : served'[r] = served[r] /\ atMax'[r] = atMax[r]
      BY <1>10 DEF Requests, OwnerTyped
    <2>3. SameRead
      BY <1>1, <1>4, <2>1
    <2>4. CASE q # p
      <3>1. GoesOn
        BY <1>1, <1>4, <2>1, <2>2, <2>4 DEF Watching
      <3> QED
        BY <1>3, <2>3, <3>1
    <2>5. CASE q = p /\ write[p].kind = "folder-update"
      <3>1. GoesOn
        BY <2>1, <2>5 DEF Watching
      <3> QED
        BY <1>3, <2>3, <3>1
    <2>6. CASE q = p /\ write[p].kind # "folder-update"
      BY <2>3, <2>6 DEF ReadFits
    <2> QED
      BY <2>4, <2>5, <2>6
  <1>11. ASSUME \/ ServerRefuses(p) \/ ServerPasses(p) \/ MaxSaysNo(p)
                \/ \E outcome \in {"sent", "failed", "outcome_unknown"} : SendJournaled(p, outcome)
         PROVE  ReadFits(q)'
    <2>1. write' = write /\ folder' = folder /\ putIn' = putIn
      BY <1>11 DEF ServerRefuses, ServerPasses, MaxSaysNo, SendJournaled
    <2>2. served[p] \in {"asked", "passed"} \/ atMax[p] = "asked"
      BY <1>11 DEF ServerRefuses, ServerPasses, MaxSaysNo, SendJournaled
    <2>3. Watching(p) /\ write[p].at # "ready"
      BY <1>5, <2>2 DEF Watching
    <2>4. \A r \in Owners \ {p} : served'[r] = served[r] /\ atMax'[r] = atMax[r]
      BY <1>11 DEF ServerRefuses, ServerPasses, MaxSaysNo, SendJournaled, OwnerTyped
    <2>5. SameRead /\ GoesOn
      BY <2>1, <2>3, <2>4 DEF Watching
    <2> QED
      BY <1>3, <2>5
  <1>12. ASSUME MaxDoes(p) PROVE ReadFits(q)'
    <2>1. NoteNewcomers /\ write' = write /\ served' = served /\ atMax' = [atMax EXCEPT ![p] = "did"]
      BY <1>12 DEF MaxDoes
    <2>2. Watching(q)' => Watching(q)
      BY <2>1 DEF Watching, OwnerTyped
    <2> QED
      BY <1>2, <2>1, <2>2, ReadNoted
  <1>13. ASSUME GivesUp(p) \/ Succeeds(p) \/ StoreFails(p) \/ SessionsEnded(p) \/ AfterSessionsEnded(p)
         PROVE  ReadFits(q)'
    <2>1. /\ write[p].at \in {"asked", "done"} /\ (MovesTo(p, "ended") \/ MovesTo(p, "done"))
          /\ UNCHANGED << served, atMax, folder, putIn >>
      BY <1>13 DEF GivesUp, Succeeds, StoreFails, SessionsEnded, AfterSessionsEnded, Answered
    <2>2. Watching(p) /\ write[p].at # "ready"
      BY <2>1 DEF Watching
    <2>3. SameRead /\ GoesOn
      BY <1>1, <1>4, <2>1, <2>2 DEF Watching
    <2> QED
      BY <1>3, <2>3
  <1>14. ASSUME CommandDies(p) PROVE ReadFits(q)'
    <2>1. /\ write[p].at \notin {"idle", "ended", "died"} /\ (MovesTo(p, "ended") \/ MovesTo(p, "died"))
          /\ UNCHANGED << served, atMax, folder, putIn >>
      BY <1>14 DEF CommandDies
    <2>2. Watching(p)
      BY <2>1 DEF Watching
    <2>3. SameRead /\ GoesOn
      BY <1>1, <1>4, <1>5, <2>1, <2>2 DEF Watching
    <2> QED
      BY <1>3, <2>3
  <1> QED
    BY <1>6, <1>7, <1>8, <1>9, <1>10, <1>11, <1>12, <1>13, <1>14 DEF OwnerStep, Routes

\* The server dies, or the phone edits the folder: no write moves, no line is written.
LEMMA ServerDiesKeeps ==
  ASSUME OwnerInv, ServerDies
  PROVE  OwnerInv'
  <1>1. /\ \A q \in Owners : served'[q] = IF served[q] \in {"asked", "passed"} THEN "dead" ELSE served[q]
        /\ served' \in [Owners -> ServedStates]
        /\ UNCHANGED << write, atMax, lines, folder, putIn, phoneEdits >>
    BY DEF ServerDies, OwnerInv, OwnerTyped, ServedStates
  <1>2. OwnerTyped'
    BY <1>1 DEF OwnerInv, OwnerTyped
  <1>3. ASSUME NEW q \in Owners PROVE LineFits(write'[q], served'[q], atMax'[q], lines'[q])
    <2>1. LineFits(write[q], served[q], atMax[q], lines[q])
      BY DEF OwnerInv
    <2>2. LineFits(write[q], IF served[q] \in {"asked", "passed"} THEN "dead" ELSE served[q], atMax[q], lines[q])
      BY <2>1 DEF LineFits, BeforeRequest, OwnLineFits, ServerLineFits
    <2> QED
      BY <1>1, <2>2
  <1>4. ASSUME NEW q \in Owners PROVE ReadFits(q)'
    <2>1. Watching(q)' => Watching(q)
      BY <1>1 DEF Watching
    <2>2. ReadFits(q)
      BY DEF OwnerInv
    <2> QED
      BY <1>1, <2>1, <2>2, ReadKept
  <1> QED
    BY <1>2, <1>3, <1>4 DEF OwnerInv

LEMMA PhoneEditsKeeps ==
  ASSUME OwnerInv, PhoneEdits
  PROVE  OwnerInv'
  <1>1. folder' \in Folders
    BY DEF PhoneEdits, Folders
  <1>2. putIn' \in [Owners -> SUBSET FolderChats]
    BY <1>1, PutInTyped DEF OwnerInv, PhoneEdits
  <1>3. phoneEdits' \in 0 .. MaxPhoneEdits
    BY OwnerAssumption DEF OwnerInv, OwnerTyped, PhoneEdits
  <1>4. OwnerTyped'
    BY <1>1, <1>2, <1>3 DEF OwnerInv, OwnerTyped, PhoneEdits
  <1>5. \A q \in Owners : LineFits(write'[q], served'[q], atMax'[q], lines'[q])
    BY DEF OwnerInv, PhoneEdits
  <1>6. ASSUME NEW q \in Owners PROVE ReadFits(q)'
    BY ReadNoted DEF OwnerInv, PhoneEdits, Watching
  <1> QED
    BY <1>4, <1>5, <1>6 DEF OwnerInv

LEMMA OwnerInvHolds == OwnerSpec => []OwnerInv
  <1>1. OwnerInit => OwnerInv
    <2> SUFFICES ASSUME OwnerInit PROVE OwnerInv
      OBVIOUS
    <2>1. OwnerTyped
      BY OwnerTypedAtFirst
    <2>2. \A q \in Owners : write[q].at = "idle" /\ write[q].kind = "none" /\ write[q].route = "none"
      BY DEF OwnerInit, Unwritten
    <2>3. \A q \in Owners : LineFits(write[q], served[q], atMax[q], lines[q])
      BY <2>2 DEF OwnerInit, LineFits, BeforeRequest, OwnLineFits, ServerLineFits
    <2>4. \A q \in Owners : ReadFits(q)
      BY <2>2 DEF ReadFits
    <2> QED
      BY <2>1, <2>3, <2>4 DEF OwnerInv
  <1>2. OwnerInv /\ [OwnerNext]_ownerVars => OwnerInv'
    <2> SUFFICES ASSUME OwnerInv, [OwnerNext]_ownerVars PROVE OwnerInv'
      OBVIOUS
    <2>1. CASE UNCHANGED ownerVars
      BY <2>1 DEF OwnerInv, OwnerTyped, ReadFits, Watching, ownerVars
    <2>2. CASE PhoneEdits
      BY <2>2, PhoneEditsKeeps
    <2>3. CASE ServerDies
      BY <2>3, ServerDiesKeeps
    <2>4. ASSUME NEW p \in Owners, OwnerStep(p) PROVE OwnerInv'
      BY <2>4, LineFitsStep, ReadFitsStep DEF OwnerInv
    <2> QED
      BY <2>1, <2>2, <2>3, <2>4 DEF OwnerNext
  <1> QED
    BY <1>1, <1>2, PTL DEF OwnerSpec

(***************************************************************************)
(* Every variable of the owner's writes keeps its type.                     *)
(***************************************************************************)
THEOREM OwnerTypeCorrect == OwnerSpec => []OwnerTypeOK
  <1>1. OwnerInv => OwnerTypeOK
    BY DEF OwnerInv, OwnerTyped, OwnerTypeOK, WriteRecord, Routes, Stations, ServedStates, MaxStates
  <1> QED
    BY <1>1, OwnerInvHolds, PTL

(***************************************************************************)
(* Every write of an owner leaves one line and a true one, over whichever   *)
(* route it went and whoever died on the way, for any number of owners and  *)
(* kinds of write, however they cross.                                      *)
(***************************************************************************)
THEOREM WritesLeaveOneLine == OwnerSpec => []OneTrueLine
  <1>1. ASSUME OwnerInv, NEW p \in Owners
        PROVE  /\ Len(lines[p]) <= 1
               /\ lines[p] = << "sent" >> => atMax[p] = "did"
               /\ lines[p] = << "refused" >> => atMax[p] = "none"
               /\ ~Watching(p) /\ ~Cut(p) /\ atMax[p] = "did" => lines[p] # << >>
               /\ write[p].at = "done" => lines[p] = << "sent" >>
    <2> DEFINE w == write[p]
               s == served[p]
               m == atMax[p]
               l == lines[p]
    <2>1. w.at \in Stations /\ w.route \in Routes /\ s \in ServedStates /\ m \in MaxStates /\ LineFits(w, s, m, l)
      BY <1>1 DEF OwnerInv, OwnerTyped, WriteRecord
    <2>2. l \in {<< >>, << "sent" >>, << "failed" >>, << "refused" >>, << "outcome_unknown" >>}
      BY <2>1 DEF LineFits, BeforeRequest, OwnLineFits, ServerLineFits, Stations, Routes, ServedStates, Outcomes
    <2>3. << "sent" >> # << "failed" >> /\ << "sent" >> # << "outcome_unknown" >> /\ << "sent" >> # << "refused" >>
          /\ << "refused" >> # << "failed" >> /\ << "refused" >> # << "outcome_unknown" >>
          /\ \A outcome \in Outcomes : << outcome >> # << >>
      OBVIOUS
    <2> HIDE DEF w, s, m, l
    <2>4. Len(l) <= 1
      <3>1. l = << >> \/ \E outcome \in Outcomes : l = << outcome >>
        BY <2>2 DEF Outcomes
      <3>2. Len(<< >>) = 0 /\ \A outcome \in Outcomes : Len(<< outcome >>) = 1
        OBVIOUS
      <3> QED
        BY <3>1, <3>2
    <2>5. l = << "sent" >> => m = "did"
      BY <2>1, <2>3 DEF LineFits, BeforeRequest, OwnLineFits, ServerLineFits, Stations, Routes, ServedStates, Outcomes
    <2>6. l = << "refused" >> => m = "none"
      BY <2>1, <2>3 DEF LineFits, BeforeRequest, OwnLineFits, ServerLineFits, Stations, Routes, ServedStates, Outcomes
    <2>7. w.at \in {"idle", "ended"} /\ s \notin {"asked", "passed", "dead"} /\ m = "did" => l # << >>
      BY <2>1, <2>3 DEF LineFits, BeforeRequest, OwnLineFits, ServerLineFits, Stations, Routes, ServedStates, Outcomes
    <2>8. w.at = "done" => l = << "sent" >>
      BY <2>1 DEF LineFits, BeforeRequest, OwnLineFits, ServerLineFits, Routes
    <2> QED
      BY <2>1, <2>4, <2>5, <2>6, <2>7, <2>8 DEF Watching, Cut, Stations, w, s, m, l
  <1>2. OwnerInv => OneTrueLine
    BY <1>1 DEF OneTrueLine
  <1> QED
    BY <1>2, OwnerInvHolds, PTL

(***************************************************************************)
(* An edit of a folder that goes back to MAX whole takes out only what its  *)
(* owner named, or what was put in while that edit ran.                     *)
(***************************************************************************)
THEOREM EditsLoseOnlyWhatCrossed == OwnerSpec => OnlyCrossedEditsLost
  <1> DEFINE Lost(p) == atMax[p] = "asked" /\ atMax'[p] = "did" /\ write[p].kind = "folder-update"
                          => ChatsOf(folder) \ ChatsOf(folder') \subseteq write[p].edit.remove \cup putIn[p]
  <1>1. ASSUME OwnerInv, OwnerNext, NEW p \in Owners, atMax[p] = "asked", atMax'[p] = "did",
               write[p].kind = "folder-update"
        PROVE  ChatsOf(folder) \ ChatsOf(folder') \subseteq write[p].edit.remove \cup putIn[p]
    <2>1. MaxDoes(p)
      <3>1. ASSUME NEW q \in Owners, OwnerStep(q), ~ MaxDoes(q) PROVE FALSE
        <4>1. atMax' = atMax \/ \E m \in {"asked", "refused"} : atMax' = [atMax EXCEPT ![q] = m]
          BY <3>1 DEF OwnerStep, CheckRefuses, CheckPasses, Fails, ListFolders, Requests, ServerRefuses, ServerPasses,
                      SendJournaled, MaxSaysNo, GivesUp, Succeeds, StoreFails, SessionsEnded, AfterSessionsEnded, CommandDies
        <4> QED
          BY <1>1, <4>1 DEF OwnerInv, OwnerTyped
      <3>2. PhoneEdits \/ ServerDies => FALSE
        BY <1>1 DEF PhoneEdits, ServerDies
      <3>3. PICK q \in Owners : MaxDoes(q)
        BY <1>1, <3>1, <3>2 DEF OwnerNext
      <3>4. q = p
        BY <1>1, <3>3 DEF MaxDoes, OwnerInv, OwnerTyped
      <3> QED
        BY <3>3, <3>4
    <2>2. folder' = FolderAfter(p)
      BY <2>1 DEF MaxDoes
    <2>3. CASE folder = {}
      BY <2>3 DEF ChatsOf
    <2>4. CASE folder # {}
      <3>1. folder' = { Include(write[p].read, write[p].edit) }
        BY <1>1, <2>2, <2>4 DEF FolderAfter
      <3>2. ChatsOf(folder') = (ChatsOf(write[p].read) \cup write[p].edit.add) \ write[p].edit.remove
        BY <3>1 DEF ChatsOf, Include
      <3>3. write[p].at # "ready" /\ Watching(p)
        BY <1>1 DEF OwnerInv, LineFits, BeforeRequest, Watching
      <3>4. ChatsOf(folder) \subseteq ChatsOf(write[p].read) \cup putIn[p]
        BY <1>1, <3>3 DEF OwnerInv, ReadFits
      <3> QED
        BY <3>2, <3>4
    <2> QED
      BY <2>3, <2>4
  <1>2. OwnerInv /\ [OwnerNext]_ownerVars => [\A p \in Owners : Lost(p)]_ownerVars
    BY <1>1
  <1> QED
    BY <1>2, OwnerInvHolds, PTL DEF OwnerSpec, OnlyCrossedEditsLost

----------------------------------------------------------------------------
(* What the logins of several commands leave of chats and people. *)

\* An answer under way is what MAX had when it was given, and no more.
AnswerFits(j, ch, now) ==
  /\ \A d \in Dialogs : j.got[d] <= ch[d]
  /\ j.at \in {"older", "merge"} =>
       /\ j.time <= now
       /\ \A d \in Dialogs : j.got[d] # Never /\ ch[d] <= j.time => j.got[d] = ch[d]

\* What changed between the two markers and is not in the answer lies behind what is; once the
\* rest was read, nothing does.
AnswerReaches(j, ch) ==
  \A d \in Dialogs : j.sync < ch[d] /\ ch[d] <= j.time =>
    /\ j.at = "merge" /\ j.whole => j.got[d] = ch[d]
    /\ j.at = "older" /\ j.got[d] = Never =>
         ~ j.whole /\ \A e \in Dialogs : j.got[e] # Never => ch[d] <= j.got[e]

\* The marker a login was asked with is none of the future.
SyncPast(j, now) == j.at \in {"asked", "older", "merge"} => j.sync <= now

JobFits(j, ch, now) == AnswerFits(j, ch, now) /\ AnswerReaches(j, ch) /\ SyncPast(j, now)

\* What MAX changed up to a marker is stored as MAX has it.
Stored(upTo, ch, rows) == \A d \in Dialogs : ch[d] <= upTo => rows[d] = ch[d]

\* Unless writes crossed, what was stored when a login was asked for is still stored.
AllStored ==
  ~ crossed /\ ~ cut =>
    /\ Stored(marker, changed, chats)
    /\ \A c \in Commands : run[c].at \in {"asked", "older", "merge"} => Stored(run[c].sync, changed, chats)

\* Nothing is stored that MAX did not have, and its clock is the last of its changes.
StoreFits ==
  /\ marker <= clock
  /\ \A d \in Dialogs : changed[d] <= clock /\ chats[d] <= changed[d]

ContactInv ==
  /\ ContactTypeOK
  /\ StoreFits
  /\ \A c \in Commands : JobFits(run[c], changed, clock)
  /\ AllStored
  /\ RecencyFollows

Stages == {"rest", "login", "asked", "older", "merge", "open", "people", "order", "write"}
Kinds == {"none", "messages", "chats", "contacts", "sync"}
Rows == [Dialogs -> Versions]
Times == 0 .. MaxTime

LEMMA Clocks ==
  /\ Never \in Versions /\ Never \in Int /\ Never < 0 /\ Never \notin Times
  /\ Versions \subseteq Int /\ Times \subseteq Versions
  /\ \A v \in Versions : v # Never <=> v \in Times
  /\ \A v \in Versions : Never <= v
  /\ MaxTime \in Nat /\ MaxLogins \in Nat
  BY ContactAssumption DEF Never, Versions, Times

LEMMA RestingTyped == Resting \in JobRecord
  <1>1. [d \in Dialogs |-> Never] \in [Dialogs -> Versions] /\ 0 \in 0 .. MaxTime
    BY Clocks
  <1> QED
    BY <1>1, Clocks DEF Resting, JobRecord

LEMMA JobFields ==
  JobRecord = [at : Stages, kind : Kinds, sync : Versions, got : Rows, with : SUBSET Dialogs, time : Times,
               whole : BOOLEAN, left : SUBSET Dialogs]
  BY DEF JobRecord, Stages, Kinds, Rows, Times

\* A job whose fields change keeps its type, a few fields at a time.
LEMMA JobMoves ==
  ASSUME NEW j \in JobRecord, NEW at \in Stages, NEW sync \in Versions
  PROVE  LET v == [j EXCEPT !.at = at, !.sync = sync]
         IN  /\ v \in JobRecord /\ v.at = at /\ v.sync = sync
             /\ v.got = j.got /\ v.time = j.time /\ v.whole = j.whole
  BY JobFields

LEMMA JobAnswered ==
  ASSUME NEW j \in JobRecord, NEW at \in Stages, NEW got \in Rows
  PROVE  LET v == [j EXCEPT !.at = at, !.got = got]
         IN  /\ v \in JobRecord /\ v.at = at /\ v.got = got
             /\ v.sync = j.sync /\ v.time = j.time /\ v.whole = j.whole
  BY JobFields

LEMMA JobTimed ==
  ASSUME NEW j \in JobRecord, NEW with \in SUBSET Dialogs, NEW time \in Times, NEW whole \in BOOLEAN
  PROVE  LET v == [j EXCEPT !.with = with, !.time = time, !.whole = whole]
         IN  /\ v \in JobRecord /\ v.time = time /\ v.whole = whole
             /\ v.at = j.at /\ v.got = j.got /\ v.sync = j.sync
  BY JobFields

LEMMA JobLeft ==
  ASSUME NEW j \in JobRecord, NEW at \in Stages, NEW left \in SUBSET Dialogs
  PROVE  LET v == [j EXCEPT !.at = at, !.left = left]
         IN  /\ v \in JobRecord /\ v.at = at
             /\ v.got = j.got /\ v.sync = j.sync /\ v.time = j.time /\ v.whole = j.whole
  BY JobFields

\* What a job becomes when its login is merged, or is not.
LEMMA AfterLoginTyped ==
  ASSUME NEW j \in JobRecord
  PROVE  /\ AfterLogin(j) \in JobRecord
         /\ AfterLogin(j).at \in {"open", "people"}
         /\ \A d \in Dialogs : AfterLogin(j).got[d] \in {j.got[d], Never}
  <1> DEFINE got == IF j.kind = "chats" THEN j.got ELSE Resting.got
             left == j.with \ LoginNames(j)
             a == [Resting EXCEPT !.at = "open"]
             b == [j EXCEPT !.at = "people", !.sync = Never, !.time = 0, !.whole = TRUE, !.left = left, !.with = {}, !.got = got]
             b1 == [j EXCEPT !.at = "people", !.sync = Never]
             b2 == [b1 EXCEPT !.time = 0, !.whole = TRUE]
             b3 == [b2 EXCEPT !.left = left, !.with = {}, !.got = got]
  <1>1. Resting.got \in Rows /\ \A d \in Dialogs : Resting.got[d] = Never
    BY Clocks DEF Resting, Rows
  <1>2. got \in Rows /\ \A d \in Dialogs : got[d] \in {j.got[d], Never}
    BY <1>1, JobFields
  <1>3. left \in SUBSET Dialogs
    BY JobFields
  <1>4. AfterLogin(j) = IF j.kind = "messages" THEN a ELSE b
    BY DEF AfterLogin
  <1> HIDE DEF got, left
  <1>5. a \in JobRecord /\ a.at = "open" /\ a.got = Resting.got
    BY RestingTyped DEF JobRecord
  <1>6. b = b3
    OBVIOUS
  <1>7. "people" \in Stages /\ 0 \in Times /\ TRUE \in BOOLEAN /\ Never \in Versions
    BY Clocks DEF Stages, Times
  <1>8. b1 \in JobRecord /\ b1.at = "people"
    BY <1>7, JobMoves
  <1> HIDE DEF b1
  <1>9. b2 \in JobRecord /\ b2.at = "people"
    BY <1>7, <1>8, JobFields
  <1> HIDE DEF b2
  <1>10. b3 \in JobRecord /\ b3.at = "people" /\ b3.got = got
    BY <1>2, <1>3, <1>9, JobFields
  <1> HIDE DEF a, b, b3
  <1> QED
    BY <1>1, <1>2, <1>4, <1>5, <1>6, <1>10

\* The type, its fields one by one.
LEMMA ContactTypes ==
  ContactTypeOK <=>
    /\ clock \in Times /\ changed \in [Dialogs -> Times]
    /\ chats \in Rows /\ recency \in Rows
    /\ members \in SUBSET Dialogs /\ people \in SUBSET Dialogs /\ unordered \in SUBSET Dialogs
    /\ marker \in Versions /\ run \in [Commands -> JobRecord] /\ logins \in 0 .. MaxLogins
    /\ cut \in BOOLEAN /\ crossed \in BOOLEAN
  BY DEF ContactTypeOK, Times, Rows

\* A dialog changes: whatever was answered or stored before is as true as it was.
LEMMA JobOutlivesChange ==
  ASSUME NEW j \in JobRecord, NEW ch \in [Dialogs -> Times], NEW now \in Times, NEW d \in Dialogs,
         JobFits(j, ch, now), \A e \in Dialogs : ch[e] <= now, now + 1 \in Times
  PROVE  JobFits(j, [ch EXCEPT ![d] = now + 1], now + 1)
  <1> DEFINE new == [ch EXCEPT ![d] = now + 1]
  <1>1. /\ j.got \in [Dialogs -> Versions] /\ j.time \in Int /\ j.sync \in Int /\ now \in Int
        /\ \A e \in Dialogs : ch[e] \in Int /\ j.got[e] \in Int
    BY Clocks, JobFields DEF Rows
  <1>2. new[d] = now + 1 /\ \A e \in Dialogs \ {d} : new[e] = ch[e]
    OBVIOUS
  <1> HIDE DEF new
  <1>3. AnswerFits(j, new, now + 1)
    BY <1>1, <1>2 DEF JobFits, AnswerFits
  <1>4. SyncPast(j, now + 1)
    BY <1>1 DEF JobFits, SyncPast
  <1>5. ASSUME NEW e \in Dialogs, j.sync < new[e], new[e] <= j.time
        PROVE  /\ j.at = "merge" /\ j.whole => j.got[e] = new[e]
               /\ j.at = "older" /\ j.got[e] = Never =>
                    ~ j.whole /\ \A f \in Dialogs : j.got[f] # Never => new[e] <= j.got[f]
    <2>1. CASE j.at \in {"older", "merge"}
      <3>1. j.time <= now
        BY <2>1 DEF JobFits, AnswerFits
      <3>2. new[e] = ch[e]
        BY <1>1, <1>2, <1>5, <3>1
      <3> QED
        BY <1>5, <3>2 DEF JobFits, AnswerReaches
    <2> QED
      BY <2>1
  <1>6. AnswerReaches(j, new)
    BY <1>5 DEF AnswerReaches
  <1> QED
    BY <1>3, <1>4, <1>6 DEF JobFits, new

LEMMA StoredOutlivesChange ==
  ASSUME NEW ch \in [Dialogs -> Times], NEW now \in Times, NEW d \in Dialogs, NEW rows, NEW upTo \in Versions,
         upTo <= now, Stored(upTo, ch, rows)
  PROVE  Stored(upTo, [ch EXCEPT ![d] = now + 1], rows)
  <1>1. now \in Int /\ upTo \in Int
    BY Clocks
  <1>2. ~ (now + 1 <= upTo)
    BY <1>1
  <1> QED
    BY <1>2 DEF Stored

\* Chats are written: what was stored stays, unless a row goes back or is not the one answered.
LEMMA StoredOutlivesWrite ==
  ASSUME NEW ch \in [Dialogs -> Times], NEW rows \in Rows, NEW new \in Rows, NEW upTo \in Versions,
         \A d \in Dialogs : new[d] <= ch[d] /\ (ch[d] <= upTo => rows[d] <= new[d]), Stored(upTo, ch, rows)
  PROVE  Stored(upTo, ch, new)
  <1> SUFFICES ASSUME NEW d \in Dialogs, ch[d] <= upTo PROVE new[d] = ch[d]
    BY DEF Stored
  <1>1. ch[d] \in Int /\ new[d] \in Int /\ rows[d] = ch[d]
    BY Clocks DEF Stored, Rows
  <1>2. ch[d] <= new[d] /\ new[d] <= ch[d]
    BY <1>1
  <1> QED
    BY <1>1, <1>2

\* A command moves on, and the store stays: what there is to see to is its new job.
LEMMA CommandGoesOn ==
  ASSUME ContactInv, NEW c \in Commands, NEW v \in JobRecord, run' = [run EXCEPT ![c] = v],
         UNCHANGED << changed, clock, chats, recency, members, people, unordered, cut, crossed >>,
         marker' \in {marker, Never}, logins' \in 0 .. MaxLogins,
         JobFits(v, changed, clock),
         v.at \in {"asked", "older", "merge"} /\ ~ crossed /\ ~ cut => Stored(v.sync, changed, chats)
  PROVE  ContactInv'
  <1>1. ContactTypeOK'
    BY ContactTypes, Clocks DEF ContactInv, ContactTypeOK
  <1>2. StoreFits'
    <2>1. Never <= clock
      BY Clocks, ContactTypes DEF ContactInv
    <2> QED
      BY <2>1 DEF ContactInv, StoreFits
  <1>3. \A q \in Commands : run'[q] = IF q = c THEN v ELSE run[q]
    BY ContactTypes DEF ContactInv
  <1>4. \A q \in Commands : JobFits(run'[q], changed', clock')
    BY <1>3 DEF ContactInv
  <1>5. Stored(Never, changed, chats)
    <2>1. \A d \in Dialogs : ~ (changed[d] <= Never)
      BY Clocks, ContactTypes DEF ContactInv, Times
    <2> QED
      BY <2>1 DEF Stored
  <1>6. AllStored'
    BY <1>3, <1>5 DEF ContactInv, AllStored
  <1>7. RecencyFollows'
    BY DEF ContactInv, RecencyFollows
  <1> QED
    BY <1>1, <1>2, <1>4, <1>6, <1>7 DEF ContactInv

\* A job that holds no answer and no marker.
LEMMA NoAnswerFits ==
  ASSUME ContactInv, NEW v \in JobRecord, \A d \in Dialogs : v.got[d] = Never,
         v.at \notin {"older", "merge"}, SyncPast(v, clock)
  PROVE  JobFits(v, changed, clock)
  <1>1. \A d \in Dialogs : Never <= changed[d]
    BY Clocks, ContactTypes DEF ContactInv, Times
  <1> QED
    BY <1>1 DEF JobFits, AnswerFits, AnswerReaches

LEMMA RestingFits ==
  Resting.at = "rest" /\ \A d \in Dialogs : Resting.got[d] = Never
  BY DEF Resting

LEMMA BeginKeeps ==
  ASSUME ContactInv, NEW c \in Commands, Begin(c)
  PROVE  ContactInv'
  <1>1. run[c] = Resting /\ logins < MaxLogins /\ logins' = logins + 1 /\ ~ crossed /\ ~ cut
    BY DEF Begin, Going
  <1>2. PICK kind \in {"messages", "chats", "contacts"}, sync \in {marker, Never} :
          run' = [run EXCEPT ![c].at = "asked", ![c].kind = kind, ![c].sync = sync]
    BY DEF Begin
  <1> DEFINE v == [Resting EXCEPT !.at = "asked", !.kind = kind, !.sync = sync]
  <1>3. v \in JobRecord /\ v.at = "asked" /\ v.sync = sync /\ v.got = Resting.got
    <2>1. "asked" \in Stages /\ kind \in Kinds /\ sync \in Versions
      BY Clocks, ContactTypes DEF ContactInv, Stages, Kinds
    <2> QED
      BY <2>1, RestingTyped, JobFields
  <1>4. run' = [run EXCEPT ![c] = v]
    BY <1>1, <1>2, ContactTypes DEF ContactInv
  <1> HIDE DEF v
  <1>5. sync <= clock
    BY Clocks, ContactTypes DEF ContactInv, StoreFits
  <1>6. JobFits(v, changed, clock)
    BY <1>3, <1>5, NoAnswerFits, RestingFits DEF SyncPast
  <1>7. Stored(sync, changed, chats)
    <2>1. \A d \in Dialogs : ~ (changed[d] <= Never)
      BY Clocks, ContactTypes DEF ContactInv, Times
    <2> QED
      BY <1>1, <2>1 DEF ContactInv, AllStored, Stored
  <1>8. logins' \in 0 .. MaxLogins
    BY <1>1, Clocks, ContactTypes DEF ContactInv
  <1>9. marker' = marker /\ UNCHANGED << changed, clock, chats, recency, members, people, unordered, cut, crossed >>
    BY DEF Begin
  <1> QED
    BY <1>3, <1>4, <1>6, <1>7, <1>8, <1>9, CommandGoesOn

LEMMA BeginSyncKeeps ==
  ASSUME ContactInv, NEW c \in Commands, BeginSync(c)
  PROVE  ContactInv'
  <1>1. run[c] = Resting /\ logins < MaxLogins /\ logins' = logins + 1
    BY DEF BeginSync, Going
  <1> DEFINE v == [Resting EXCEPT !.at = "login", !.kind = "sync"]
  <1>2. v \in JobRecord /\ v.at = "login" /\ v.got = Resting.got
    BY RestingTyped, JobFields DEF Stages, Kinds
  <1>3. run' = [run EXCEPT ![c] = v]
    BY <1>1, ContactTypes DEF ContactInv, BeginSync
  <1> HIDE DEF v
  <1>4. JobFits(v, changed, clock)
    BY <1>2, NoAnswerFits, RestingFits DEF SyncPast
  <1>5. logins' \in 0 .. MaxLogins
    BY <1>1, Clocks, ContactTypes DEF ContactInv
  <1>6. marker' = Never /\ UNCHANGED << changed, clock, chats, recency, members, people, unordered, cut, crossed >>
    BY DEF BeginSync
  <1> QED
    BY <1>2, <1>3, <1>4, <1>5, <1>6, CommandGoesOn

LEMMA AskLoginKeeps ==
  ASSUME ContactInv, NEW c \in Commands, AskLogin(c)
  PROVE  ContactInv'
  <1> DEFINE v == [run[c] EXCEPT !.at = "asked", !.sync = marker]
  <1>1. run[c] \in JobRecord /\ marker \in Versions
    BY ContactTypes DEF ContactInv
  <1>2. v \in JobRecord /\ v.at = "asked" /\ v.sync = marker /\ v.got = run[c].got
    <2>1. "asked" \in Stages
      BY DEF Stages
    <2> QED
      BY <1>1, <2>1, JobFields
  <1>3. run' = [run EXCEPT ![c] = v]
    BY ContactTypes DEF ContactInv, AskLogin
  <1> HIDE DEF v
  <1>4. JobFits(v, changed, clock)
    BY <1>2 DEF ContactInv, StoreFits, JobFits, AnswerFits, AnswerReaches, SyncPast
  <1>5. ~ crossed /\ ~ cut => Stored(v.sync, changed, chats)
    BY <1>2 DEF ContactInv, AllStored
  <1>6. /\ marker' = marker /\ logins' = logins
        /\ UNCHANGED << changed, clock, chats, recency, members, people, unordered, cut, crossed >>
    BY DEF AskLogin
  <1>7. logins \in 0 .. MaxLogins
    BY ContactTypes DEF ContactInv
  <1> QED
    BY <1>2, <1>3, <1>4, <1>5, <1>6, <1>7, CommandGoesOn

LEMMA LoginAnswerKeeps ==
  ASSUME ContactInv, NEW c \in Commands, LoginAnswer(c)
  PROVE  ContactInv'
  <1> DEFINE job == run[c]
             delta == { d \in Dialogs : changed[d] > job.sync }
  <1> DEFINE Answer(some, with) ==
               /\ job.at = "asked"
               /\ some \subseteq NewestOf(delta)
               /\ Cardinality(some) = Min({LoginChats, Cardinality(delta)})
               /\ \A d \in some, e \in delta \ some : changed[d] >= changed[e]
               /\ job.sync = Never => with = some
               /\ run' = [run EXCEPT ![c].at = IF Cardinality(some) < LoginChats THEN "merge" ELSE "older",
                                     ![c].got = [d \in Dialogs |-> IF d \in some THEN changed[d] ELSE Never],
                                     ![c].with = with, ![c].time = clock, ![c].whole = (some = delta)]
               /\ UNCHANGED << changed, clock, chats, members, people, recency, marker, logins, unordered, cut, crossed >>
  <1>0. \E some \in SUBSET delta : \E with \in {some, {}} : Answer(some, with)
    BY Zenon DEF LoginAnswer
  <1> HIDE DEF Answer
  <1>1. PICK some \in SUBSET delta, with \in SUBSET delta : with \in {some, {}} /\ Answer(some, with)
    BY <1>0, Zenon
  <1>2. /\ job.at = "asked"
        /\ \A d \in some, e \in delta \ some : changed[d] >= changed[e]
    BY <1>1 DEF Answer
  <1>20. run' = [run EXCEPT ![c].at = IF Cardinality(some) < LoginChats THEN "merge" ELSE "older",
                            ![c].got = [d \in Dialogs |-> IF d \in some THEN changed[d] ELSE Never],
                            ![c].with = with, ![c].time = clock, ![c].whole = (some = delta)]
    BY <1>1, Zenon DEF Answer
  <1> DEFINE at == IF Cardinality(some) < LoginChats THEN "merge" ELSE "older"
             got == [d \in Dialogs |-> IF d \in some THEN changed[d] ELSE Never]
             whole == (some = delta)
             v1 == [job EXCEPT !.at = at, !.got = got]
             v == [v1 EXCEPT !.with = with, !.time = clock, !.whole = whole]
  <1>3. at \in Stages /\ at \in {"merge", "older"}
    BY DEF Stages
  <1>4. got \in Rows /\ \A d \in Dialogs : got[d] = IF d \in some THEN changed[d] ELSE Never
    BY Clocks, ContactTypes DEF ContactInv, Rows
  <1>5. with \in SUBSET Dialogs /\ clock \in Times /\ whole \in BOOLEAN /\ job \in JobRecord
    BY <1>1, ContactTypes DEF ContactInv
  <1>6. run' = [run EXCEPT ![c] = v]
    BY <1>20, ContactTypes DEF ContactInv
  <1>7. some \in SUBSET Dialogs /\ \A d \in Dialogs : d \in delta <=> changed[d] > job.sync
    OBVIOUS
  <1>8. whole => some = delta
    OBVIOUS
  <1>9. ~ whole => some # delta
    OBVIOUS
  <1> HIDE DEF at, got
  <1>10. v1 \in JobRecord /\ v1.at = at /\ v1.got = got /\ v1.sync = job.sync
    BY <1>3, <1>4, <1>5, JobFields
  <1> HIDE DEF v1, whole
  <1>11. v \in JobRecord /\ v.at = at /\ v.got = got /\ v.sync = job.sync /\ v.time = clock /\ v.whole = whole
    BY <1>5, <1>10, JobFields
  <1> HIDE DEF v
  <1>12. \A d \in Dialogs : changed[d] \in Times /\ changed[d] \in Int /\ changed[d] <= clock /\ Never <= changed[d]
    BY Clocks, ContactTypes DEF ContactInv, StoreFits, Times
  <1>13. AnswerFits(v, changed, clock)
    BY <1>4, <1>5, <1>11, <1>12, Clocks DEF AnswerFits, Times
  <1>14. AnswerReaches(v, changed)
    <2> SUFFICES ASSUME NEW d \in Dialogs, v.sync < changed[d]
                 PROVE  /\ v.at = "merge" /\ v.whole => v.got[d] = changed[d]
                        /\ v.at = "older" /\ v.got[d] = Never =>
                             ~ v.whole /\ \A e \in Dialogs : v.got[e] # Never => changed[d] <= v.got[e]
      BY DEF AnswerReaches
    <2>1. d \in delta
      BY <1>5, <1>11, <1>12, JobFields, Clocks
    <2> HIDE DEF delta
    <2>2. whole => got[d] = changed[d]
      BY <1>4, <1>8, <2>1
    <2>3. ASSUME got[d] = Never PROVE ~ whole /\ \A e \in Dialogs : got[e] # Never => changed[d] <= got[e]
      <3>1. d \notin some
        BY <1>4, <1>12, <2>3, Clocks
      <3>2. \A e \in some : changed[e] >= changed[d]
        BY <1>2, <2>1, <3>1
      <3>3. \A e \in Dialogs : got[e] # Never => changed[d] <= got[e]
        BY <1>4, <1>12, <3>2
      <3>4. ~ whole
        BY <1>8, <2>1, <3>1
      <3> QED
        BY <3>3, <3>4
    <2> QED
      BY <1>11, <2>2, <2>3
  <1>15. job.at = "asked"
    BY <1>2
  <1>16. SyncPast(v, clock)
    BY <1>11, <1>15 DEF ContactInv, JobFits, SyncPast
  <1>17. ~ crossed /\ ~ cut => Stored(v.sync, changed, chats)
    BY <1>11, <1>15 DEF ContactInv, AllStored
  <1>18. /\ marker' = marker /\ logins' = logins /\ logins \in 0 .. MaxLogins
         /\ UNCHANGED << changed, clock, chats, recency, members, people, unordered, cut, crossed >>
    BY ContactTypes DEF ContactInv, LoginAnswer
  <1>19. JobFits(v, changed, clock)
    BY <1>13, <1>14, <1>16 DEF JobFits
  <1> HIDE DEF job
  <1> QED
    BY <1>6, <1>11, <1>17, <1>18, <1>19, CommandGoesOn

LEMMA RestOfChatsKeeps ==
  ASSUME ContactInv, NEW c \in Commands, RestOfChats(c)
  PROVE  ContactInv'
  <1> DEFINE job == run[c]
             old == job.got
             behind == { d \in Dialogs \ In(old) : \A e \in In(old) : changed[d] <= old[e] }
  <1>1. job.at = "older"
    BY DEF RestOfChats
  <1>2. PICK rest \in SUBSET behind :
          run' = [run EXCEPT ![c].at = "merge",
                             ![c].got = [d \in Dialogs |-> IF d \in rest THEN changed[d] ELSE old[d]],
                             ![c].with = @ \cup rest,
                             ![c].whole = @ \/ rest = behind]
    BY Zenon DEF RestOfChats
  <1> DEFINE got == [d \in Dialogs |-> IF d \in rest THEN changed[d] ELSE old[d]]
             with == job.with \cup rest
             whole == job.whole \/ rest = behind
             v1 == [job EXCEPT !.at = "merge", !.got = got]
             v == [v1 EXCEPT !.with = with, !.whole = whole]
  <1>3. job \in JobRecord /\ job.whole \in BOOLEAN /\ old \in Rows /\ job.time \in Times /\ job.sync \in Versions
    BY ContactTypes, JobFields DEF ContactInv
  <1>4. \A d \in Dialogs : changed[d] \in Times /\ changed[d] \in Int /\ changed[d] <= clock /\ Never <= changed[d]
    BY Clocks, ContactTypes DEF ContactInv, StoreFits, Times
  <1>5. got \in Rows /\ \A d \in Dialogs : got[d] = IF d \in rest THEN changed[d] ELSE old[d]
    BY <1>3, <1>4, Clocks DEF Rows
  <1>6. with \in SUBSET Dialogs /\ whole \in BOOLEAN
    BY <1>3, JobFields
  <1>7. run' = [run EXCEPT ![c] = v]
    BY <1>2, ContactTypes DEF ContactInv
  <1>8. \A d \in Dialogs : d \in behind <=> old[d] = Never /\ \A e \in Dialogs : old[e] # Never => changed[d] <= old[e]
    BY DEF In
  <1>9. rest \subseteq behind /\ (whole => job.whole \/ rest = behind)
    BY <1>2
  <1> HIDE DEF got, with, behind, whole
  <1>10. v1 \in JobRecord /\ v1.at = "merge" /\ v1.got = got /\ v1.sync = job.sync /\ v1.time = job.time
    BY <1>3, <1>5, JobFields DEF Stages
  <1> HIDE DEF v1
  <1>11. v \in JobRecord /\ v.at = "merge" /\ v.got = got /\ v.sync = job.sync /\ v.time = job.time /\ v.whole = whole
    BY <1>6, <1>10, JobFields
  <1> HIDE DEF v
  <1>12. /\ \A d \in Dialogs : old[d] <= changed[d]
         /\ job.time <= clock
         /\ \A d \in Dialogs : old[d] # Never /\ changed[d] <= job.time => old[d] = changed[d]
    BY <1>1 DEF ContactInv, JobFits, AnswerFits
  <1>13. \A d \in Dialogs : job.sync < changed[d] /\ changed[d] <= job.time /\ old[d] = Never =>
           ~ job.whole /\ \A e \in Dialogs : old[e] # Never => changed[d] <= old[e]
    BY <1>1 DEF ContactInv, JobFits, AnswerReaches
  <1>14. AnswerFits(v, changed, clock)
    BY <1>4, <1>5, <1>11, <1>12 DEF AnswerFits
  <1>15. AnswerReaches(v, changed)
    <2>1. ASSUME NEW d \in Dialogs, job.sync < changed[d], changed[d] <= job.time, whole PROVE got[d] = changed[d]
      <3>1. CASE old[d] # Never
        BY <1>5, <1>12, <2>1, <3>1
      <3>2. CASE old[d] = Never
        <4>1. ~ job.whole /\ d \in behind
          BY <1>8, <1>13, <2>1, <3>2
        <4>2. d \in rest
          BY <1>9, <2>1, <4>1
        <4> QED
          BY <1>5, <4>2
      <3> QED
        BY <3>1, <3>2
    <2> QED
      BY <1>11, <2>1 DEF AnswerReaches
  <1>16. SyncPast(v, clock)
    BY <1>1, <1>11 DEF ContactInv, JobFits, SyncPast
  <1>17. ~ crossed /\ ~ cut => Stored(v.sync, changed, chats)
    BY <1>1, <1>11 DEF ContactInv, AllStored
  <1>18. /\ marker' = marker /\ logins' = logins /\ logins \in 0 .. MaxLogins
         /\ UNCHANGED << changed, clock, chats, recency, members, people, unordered, cut, crossed >>
    BY ContactTypes DEF ContactInv, RestOfChats
  <1>19. JobFits(v, changed, clock)
    BY <1>14, <1>15, <1>16 DEF JobFits
  <1> HIDE DEF job
  <1> QED
    BY <1>7, <1>11, <1>17, <1>18, <1>19, CommandGoesOn

\* A job past its login holds at most what was answered.
LEMMA PastLoginFits ==
  ASSUME ContactInv, NEW j \in JobRecord, \A d \in Dialogs : j.got[d] <= changed[d],
         NEW v \in JobRecord, \A d \in Dialogs : v.got[d] \in {j.got[d], Never},
         v.at \notin {"asked", "older", "merge"}
  PROVE  JobFits(v, changed, clock)
  <1>1. \A d \in Dialogs : Never <= changed[d]
    BY Clocks, ContactTypes DEF ContactInv, Times
  <1> QED
    BY <1>1 DEF JobFits, AnswerFits, AnswerReaches, SyncPast

LEMMA AfterPeopleTyped ==
  ASSUME NEW j \in JobRecord
  PROVE  /\ AfterPeople(j) \in JobRecord
         /\ AfterPeople(j).at \notin {"asked", "older", "merge"}
         /\ \A d \in Dialogs : AfterPeople(j).got[d] \in {j.got[d], Never}
  <1> DEFINE a == [j EXCEPT !.at = "write", !.left = In(j.got)]
  <1>1. AfterPeople(j) \in {a, Resting}
    BY DEF AfterPeople
  <1>2. In(j.got) \in SUBSET Dialogs
    BY DEF In
  <1>3. a \in JobRecord /\ a.at = "write" /\ a.got = j.got
    BY <1>2, JobFields DEF Stages
  <1> HIDE DEF a
  <1> QED
    BY <1>1, <1>3, RestingTyped, RestingFits

\* The steps that only move a command on: the merge that is rolled back, nobody to name, the end.
LEMMA PlainStepsKeep ==
  ASSUME ContactInv, NEW c \in Commands,
         MergeFails(c) \/ Finish(c) \/ (PeopleFor(c) /\ run[c].left = {})
  PROVE  ContactInv'
  <1>1. PICK v \in {AfterLogin(run[c]), Resting, AfterPeople(run[c])} : run' = [run EXCEPT ![c] = v]
    BY DEF MergeFails, Finish, PeopleFor
  <1>2. run[c] \in JobRecord /\ \A d \in Dialogs : run[c].got[d] <= changed[d]
    BY ContactTypes DEF ContactInv, JobFits, AnswerFits
  <1>3. /\ v \in JobRecord /\ v.at \notin {"asked", "older", "merge"}
        /\ \A d \in Dialogs : v.got[d] \in {run[c].got[d], Never}
    BY <1>2, AfterLoginTyped, AfterPeopleTyped, RestingTyped, RestingFits
  <1>4. JobFits(v, changed, clock)
    BY <1>2, <1>3, PastLoginFits
  <1>5. /\ marker' = marker /\ logins' = logins /\ logins \in 0 .. MaxLogins
        /\ UNCHANGED << changed, clock, chats, recency, members, people, unordered, cut, crossed >>
    BY ContactTypes DEF ContactInv, MergeFails, Finish, PeopleFor
  <1> QED
    BY <1>1, <1>3, <1>4, <1>5, CommandGoesOn

LEMMA DialogChangesKeeps ==
  ASSUME ContactInv, NEW d \in Dialogs, DialogChanges(d)
  PROVE  ContactInv'
  <1> DEFINE new == [changed EXCEPT ![d] = clock + 1]
  <1>1. clock \in Times /\ clock + 1 \in Times /\ clock + 1 \in Int /\ clock \in Int /\ changed \in [Dialogs -> Times]
    BY Clocks, ContactTypes DEF ContactInv, DialogChanges, Times
  <1>2. /\ clock' = clock + 1 /\ changed' = new
        /\ UNCHANGED << chats, members, people, recency, marker, run, logins, unordered, cut, crossed >>
    BY DEF DialogChanges
  <1>3. ContactTypeOK'
    <2>1. changed' \in [Dialogs -> Times] /\ clock' \in Times
      BY <1>1, <1>2
    <2> QED
      BY <1>2, <2>1 DEF ContactInv, ContactTypeOK, Times
  <1>4. \A e \in Dialogs : /\ changed[e] <= clock /\ chats[e] <= changed[e]
                           /\ changed[e] \in Int /\ chats[e] \in Int
                           /\ new[e] = IF e = d THEN clock + 1 ELSE changed[e]
    BY <1>1, Clocks, ContactTypes DEF ContactInv, StoreFits, Rows
  <1>5. marker <= clock /\ marker \in Int /\ marker \in Versions
    BY Clocks, ContactTypes DEF ContactInv, StoreFits
  <1> HIDE DEF new
  <1>6. StoreFits'
    BY <1>1, <1>2, <1>4, <1>5 DEF StoreFits
  <1>7. ASSUME NEW c \in Commands PROVE JobFits(run[c], new, clock + 1)
    <2>1. run[c] \in JobRecord /\ JobFits(run[c], changed, clock)
      BY ContactTypes DEF ContactInv
    <2> QED
      BY <1>1, <1>4, <2>1, JobOutlivesChange DEF new
  <1>8. ASSUME ~ crossed, ~ cut
        PROVE  /\ Stored(marker, new, chats)
               /\ \A c \in Commands : run[c].at \in {"asked", "older", "merge"} => Stored(run[c].sync, new, chats)
    <2>1. Stored(marker, new, chats)
      BY <1>1, <1>5, <1>8, StoredOutlivesChange DEF ContactInv, AllStored, new
    <2>2. ASSUME NEW c \in Commands, run[c].at \in {"asked", "older", "merge"} PROVE Stored(run[c].sync, new, chats)
      <3>1. run[c].sync \in Versions /\ run[c].sync <= clock /\ Stored(run[c].sync, changed, chats)
        BY <1>8, <2>2, ContactTypes, JobFields DEF ContactInv, AllStored, JobFits, SyncPast
      <3> QED
        BY <1>1, <3>1, StoredOutlivesChange DEF new
    <2> QED
      BY <2>1, <2>2
  <1>9. AllStored'
    BY <1>2, <1>8 DEF AllStored
  <1>10. RecencyFollows'
    BY <1>2 DEF ContactInv, RecencyFollows
  <1> QED
    BY <1>2, <1>3, <1>6, <1>7, <1>9, <1>10 DEF ContactInv

\* Rows of chats are written: where none is put back, what was stored up to a marker stays stored.
LEMMA ChatsWritten ==
  ASSUME ContactInv, chats' \in Rows, \A d \in Dialogs : chats'[d] <= changed[d], changed' = changed,
         NEW upTo \in Versions, Stored(upTo, changed, chats),
         \A d \in Dialogs : changed[d] <= upTo => chats[d] <= chats'[d]
  PROVE  Stored(upTo, changed', chats')
  <1>1. changed \in [Dialogs -> Times] /\ chats \in Rows
    BY ContactTypes DEF ContactInv
  <1> QED
    BY <1>1, StoredOutlivesWrite

LEMMA MergeKeeps ==
  ASSUME ContactInv, NEW c \in Commands, Merge(c)
  PROVE  ContactInv'
  <1> DEFINE job == run[c]
             v == AfterLogin(job)
  <1>1. /\ job.at = "merge" /\ chats' = Laid(job.got, chats) /\ marker' = job.time
        /\ people' = people \cup LoginNames(job) /\ members' = Kept(job)
        /\ recency' = Ordered(chats', people' \cap members') /\ unordered' = unordered \ members'
        /\ cut' = (cut \/ ~ job.whole) /\ crossed' = (crossed \/ (PutsBack(chats') /\ AskedPast(job.time) # {}))
        /\ run' = [run EXCEPT ![c] = v] /\ UNCHANGED << changed, clock, logins >>
    BY DEF Merge
  <1>2. job \in JobRecord /\ job.got \in Rows /\ job.time \in Times /\ job.sync \in Versions /\ job.with \in SUBSET Dialogs
        /\ job.whole \in BOOLEAN
    BY ContactTypes, JobFields DEF ContactInv
  <1>3. v \in JobRecord /\ v.at \in {"open", "people"} /\ \A d \in Dialogs : v.got[d] \in {job.got[d], Never}
    BY <1>2, AfterLoginTyped
  <1>4. chats' \in Rows /\ \A d \in Dialogs : chats'[d] = IF job.got[d] # Never THEN job.got[d] ELSE chats[d]
    BY <1>1, <1>2, ContactTypes DEF ContactInv, Laid, Rows
  <1>5. recency' \in Rows
    BY <1>1, <1>4, ContactTypes DEF ContactInv, Ordered, Rows
  <1>6. people' \in SUBSET Dialogs /\ members' \in SUBSET Dialogs /\ unordered' \in SUBSET Dialogs
    BY <1>1, <1>2, ContactTypes DEF ContactInv, LoginNames, Kept, In
  <1>7. cut' \in BOOLEAN /\ crossed' \in BOOLEAN /\ (cut => cut') /\ (crossed => crossed') /\ (~ job.whole => cut')
    BY <1>1
  <1>8. \A d \in Dialogs : chats[d] \in Int /\ chats'[d] \in Int /\ changed[d] \in Int
    BY <1>4, Clocks, ContactTypes DEF ContactInv, Rows
  <1>9. job.time \in Versions /\ job.time <= clock
    BY <1>1, <1>2, Clocks DEF ContactInv, JobFits, AnswerFits
  <1> HIDE DEF v
  <1>10. \A q \in Commands : run'[q] = IF q = c THEN v ELSE run[q]
    BY <1>1, ContactTypes DEF ContactInv
  <1>11. ContactTypeOK'
    <2>1. run' \in [Commands -> JobRecord]
      BY <1>1, <1>3, ContactTypes DEF ContactInv
    <2>2. members' \subseteq Dialogs /\ people' \subseteq Dialogs /\ unordered' \subseteq Dialogs
      BY <1>6
    <2>3. chats' \in [Dialogs -> Versions] /\ recency' \in [Dialogs -> Versions] /\ marker' \in Versions
      BY <1>1, <1>4, <1>5, <1>9 DEF Rows
    <2>4. clock' = clock /\ changed' = changed /\ logins' = logins
      BY <1>1
    <2> QED
      BY <1>7, <2>1, <2>2, <2>3, <2>4 DEF ContactInv, ContactTypeOK
  <1>12. /\ \A d \in Dialogs : job.got[d] <= changed[d]
         /\ \A d \in Dialogs : job.got[d] # Never /\ changed[d] <= job.time => job.got[d] = changed[d]
    BY <1>1 DEF ContactInv, JobFits, AnswerFits
  <1>13. \A d \in Dialogs : job.sync < changed[d] /\ changed[d] <= job.time /\ job.whole => job.got[d] = changed[d]
    BY <1>1 DEF ContactInv, JobFits, AnswerReaches
  <1>14. \A d \in Dialogs : chats'[d] <= changed[d]
    BY <1>4, <1>12 DEF ContactInv, StoreFits
  <1>15. StoreFits'
    BY <1>1, <1>9, <1>14 DEF ContactInv, StoreFits
  <1>16. JobFits(v, changed, clock)
    BY <1>2, <1>3, <1>12, PastLoginFits
  <1>17. \A q \in Commands : JobFits(run'[q], changed', clock')
    BY <1>1, <1>10, <1>16 DEF ContactInv
  <1>18. \A d \in Dialogs : changed[d] <= job.time => chats[d] <= chats'[d]
    BY <1>4, <1>8, <1>12 DEF ContactInv, StoreFits
  <1>19. ~ crossed' /\ ~ cut' => ~ crossed /\ ~ cut
    BY <1>7
  <1>20. ASSUME ~ crossed', ~ cut' PROVE Stored(marker', changed', chats')
    <2>1. Stored(job.sync, changed, chats)
      BY <1>1, <1>19, <1>20 DEF ContactInv, AllStored
    <2>2. job.whole
      BY <1>2, <1>7, <1>20
    <2>3. ASSUME NEW d \in Dialogs, changed[d] <= job.time PROVE chats'[d] = changed[d]
      <3>1. job.sync \in Int /\ changed[d] # Never /\ changed[d] \in Int
        BY <1>2, Clocks, ContactTypes DEF ContactInv
      <3>2. CASE changed[d] <= job.sync
        <4>1. chats[d] = changed[d] /\ chats[d] <= chats'[d] /\ chats'[d] <= changed[d]
          BY <1>14, <1>18, <2>1, <2>3, <3>2 DEF Stored
        <4> QED
          BY <1>8, <4>1
      <3>3. CASE job.sync < changed[d]
        BY <1>4, <1>13, <2>2, <2>3, <3>1, <3>3
      <3> QED
        BY <3>1, <3>2, <3>3
    <2> QED
      BY <1>1, <2>3 DEF Stored
  <1>21. ASSUME ~ crossed', ~ cut', NEW q \in Commands, run'[q].at \in {"asked", "older", "merge"}
         PROVE  Stored(run'[q].sync, changed', chats')
    <2>1. q # c /\ run'[q] = run[q]
      BY <1>3, <1>10, <1>21
    <2>2. Stored(run[q].sync, changed, chats) /\ run[q].sync \in Versions
      BY <1>19, <1>21, <2>1, ContactTypes, JobFields DEF ContactInv, AllStored
    <2>3. \A d \in Dialogs : changed[d] <= run[q].sync => chats[d] <= chats'[d]
      <3>1. run[q].sync \in Int /\ job.time \in Int
        BY <1>2, <2>2, Clocks
      <3>2. CASE run[q].sync <= job.time
        BY <1>8, <1>18, <3>1, <3>2
      <3>3. CASE run[q].sync > job.time
        <4>1. q \in AskedPast(job.time)
          BY <1>21, <2>1, <3>3 DEF AskedPast
        <4>2. ~ PutsBack(chats')
          BY <1>1, <1>21, <4>1
        <4> QED
          BY <1>8, <4>2 DEF PutsBack
      <3> QED
        BY <3>1, <3>2, <3>3
    <2> QED
      BY <1>1, <1>4, <1>14, <2>1, <2>2, <2>3, ChatsWritten
  <1>22. AllStored'
    BY <1>20, <1>21 DEF AllStored
  <1>23. RecencyFollows'
    <2>1. \A d \in people' \cap members' : chats'[d] # Never => recency'[d] = chats'[d]
      BY <1>1, <1>6 DEF Ordered
    <2> QED
      BY <2>1 DEF RecencyFollows
  <1> HIDE DEF job
  <1> QED
    BY <1>11, <1>15, <1>17, <1>22, <1>23 DEF ContactInv

\* People are written or put in order: chats, marker and what MAX has stay, and a job may move on
\* past its login.
LEMMA PeopleWritten ==
  ASSUME ContactInv, NEW c \in Commands, NEW v \in JobRecord, run' = [run EXCEPT ![c] = v],
         v.at \notin {"asked", "older", "merge"}, \A d \in Dialogs : v.got[d] \in {run[c].got[d], Never},
         UNCHANGED << changed, clock, chats, members, marker, logins, cut, crossed >>,
         recency' \in Rows, people' \in SUBSET Dialogs, unordered' \in SUBSET Dialogs, RecencyFollows'
  PROVE  ContactInv'
  <1>1. \A q \in Commands : run'[q] = IF q = c THEN v ELSE run[q]
    BY ContactTypes DEF ContactInv
  <1>2. run' \in [Commands -> JobRecord]
    BY ContactTypes DEF ContactInv
  <1>3. ContactTypeOK'
    BY <1>2 DEF ContactInv, ContactTypeOK, Rows
  <1>4. StoreFits'
    BY DEF ContactInv, StoreFits
  <1>5. run[c] \in JobRecord /\ \A d \in Dialogs : run[c].got[d] <= changed[d]
    BY ContactTypes DEF ContactInv, JobFits, AnswerFits
  <1>6. JobFits(v, changed, clock)
    BY <1>5, PastLoginFits
  <1>7. \A q \in Commands : JobFits(run'[q], changed', clock')
    BY <1>1, <1>6 DEF ContactInv
  <1>8. AllStored'
    BY <1>1 DEF ContactInv, AllStored
  <1> QED
    BY <1>3, <1>4, <1>7, <1>8 DEF ContactInv

LEMMA NamingKeeps ==
  ASSUME ContactInv, NEW c \in Commands,
         \/ \E d \in Dialogs : NameSender(c, d)
         \/ PeopleFor(c) /\ run[c].left # {}
         \/ OrderPeople(c)
  PROVE  ContactInv'
  <1>1. /\ run[c] \in JobRecord /\ run \in [Commands -> JobRecord] /\ people \in SUBSET Dialogs
        /\ unordered \in SUBSET Dialogs /\ recency \in Rows /\ chats \in Rows /\ members \in SUBSET Dialogs
        /\ run[c].left \in SUBSET Dialogs
    BY ContactTypes, JobFields DEF ContactInv
  <1>2. ASSUME NEW d \in Dialogs, NameSender(c, d) PROVE ContactInv'
    <2>1. /\ run[c].at = "open" /\ people' = people \cup {d} /\ unordered' = unordered \cup {d}
          /\ UNCHANGED << changed, clock, chats, members, recency, marker, run, logins, cut, crossed >>
      BY <1>2 DEF NameSender
    <2>2. RecencyFollows'
      BY <2>1 DEF ContactInv, RecencyFollows
    <2>3. run' = [run EXCEPT ![c] = run[c]]
      BY <1>1, <2>1
    <2> QED
      BY <1>1, <2>1, <2>2, <2>3, PeopleWritten
  <1>3. ASSUME PeopleFor(c), run[c].left # {} PROVE ContactInv'
    <2> DEFINE v == [run[c] EXCEPT !.at = "order"]
    <2>1. /\ people' = people \cup run[c].left /\ unordered' = unordered \cup (run[c].left \ people)
          /\ run' = [run EXCEPT ![c].at = "order"]
          /\ UNCHANGED << changed, clock, chats, members, recency, marker, logins, cut, crossed >>
      BY <1>3 DEF PeopleFor
    <2>2. v \in JobRecord /\ v.at = "order" /\ v.got = run[c].got
      BY <1>1, JobFields DEF Stages
    <2>3. run' = [run EXCEPT ![c] = v]
      BY <1>1, <2>1
    <2>4. RecencyFollows'
      BY <2>1 DEF ContactInv, RecencyFollows
    <2> HIDE DEF v
    <2> QED
      BY <1>1, <2>1, <2>2, <2>3, <2>4, PeopleWritten
  <1>4. ASSUME OrderPeople(c) PROVE ContactInv'
    <2> DEFINE v == AfterPeople(run[c])
    <2>1. /\ recency' = Ordered(chats, people \cap members) /\ unordered' = unordered \ members
          /\ run' = [run EXCEPT ![c] = v]
          /\ UNCHANGED << changed, clock, chats, members, people, marker, logins, cut, crossed >>
      BY <1>4 DEF OrderPeople
    <2>2. /\ v \in JobRecord /\ v.at \notin {"asked", "older", "merge"}
          /\ \A d \in Dialogs : v.got[d] \in {run[c].got[d], Never}
      BY <1>1, AfterPeopleTyped
    <2>3. recency' \in Rows
      BY <1>1, <2>1 DEF Ordered, Rows
    <2>4. RecencyFollows'
      <3>1. \A d \in people' \cap members' : chats'[d] # Never => recency'[d] = chats'[d]
        BY <1>1, <2>1 DEF Ordered
      <3> QED
        BY <3>1 DEF RecencyFollows
    <2> HIDE DEF v
    <2> QED
      BY <1>1, <2>1, <2>2, <2>3, <2>4, PeopleWritten
  <1> QED
    BY <1>2, <1>3, <1>4

LEMMA WriteChatKeeps ==
  ASSUME ContactInv, NEW c \in Commands, NEW d \in Dialogs, WriteChat(c, d)
  PROVE  ContactInv'
  <1> DEFINE job == run[c]
             v == [job EXCEPT !.left = @ \ {d}]
  <1>1. /\ job.at = "write" /\ d \in job.left
        /\ chats' = [chats EXCEPT ![d] = job.got[d]]
        /\ crossed' = (crossed \/ PutsBack(chats'))
        /\ unordered' = IF chats' = chats THEN unordered ELSE unordered \cup {d}
        /\ run' = [run EXCEPT ![c].left = @ \ {d}]
        /\ UNCHANGED << changed, clock, members, people, recency, marker, logins, cut >>
    BY DEF WriteChat
  <1>2. job \in JobRecord /\ job.got \in Rows /\ job.left \in SUBSET Dialogs /\ run \in [Commands -> JobRecord] /\ chats \in Rows
    BY ContactTypes, JobFields DEF ContactInv
  <1>3. v \in JobRecord /\ v.at = "write" /\ v.got = job.got
    BY <1>1, <1>2, JobFields
  <1>4. run' = [run EXCEPT ![c] = v]
    BY <1>1, <1>2
  <1>5. /\ crossed' \in BOOLEAN /\ (crossed => crossed') /\ (~ crossed' => ~ PutsBack(chats'))
        /\ unordered' \in SUBSET Dialogs
    BY <1>1, ContactTypes DEF ContactInv
  <1> HIDE DEF v
  <1>6. chats' \in Rows /\ \A e \in Dialogs : chats'[e] = IF e = d THEN job.got[d] ELSE chats[e]
    BY <1>1, <1>2 DEF Rows
  <1>7. ~ crossed' => \A e \in Dialogs : chats[e] <= chats'[e]
    <2>1. \A e \in Dialogs : chats[e] \in Int /\ chats'[e] \in Int
      BY <1>2, <1>6, Clocks DEF Rows
    <2> QED
      BY <1>5, <2>1 DEF PutsBack
  <1>8. job.got[d] <= changed[d] /\ \A e \in Dialogs : job.got[e] <= changed[e]
    BY DEF ContactInv, JobFits, AnswerFits
  <1>9. run' \in [Commands -> JobRecord]
    BY <1>2, <1>3, <1>4
  <1>10. ContactTypeOK'
    BY <1>1, <1>5, <1>6, <1>9 DEF ContactInv, ContactTypeOK, Rows
  <1>11. StoreFits'
    BY <1>1, <1>6, <1>8 DEF ContactInv, StoreFits
  <1>12. JobFits(v, changed, clock)
    BY <1>2, <1>3, <1>8, PastLoginFits
  <1>13. \A q \in Commands : run'[q] = IF q = c THEN v ELSE run[q]
    BY <1>2, <1>4
  <1>14. \A q \in Commands : JobFits(run'[q], changed', clock')
    BY <1>1, <1>12, <1>13 DEF ContactInv
  <1>15. AllStored'
    <2>1. \A e \in Dialogs : chats'[e] <= changed[e]
      BY <1>1, <1>11 DEF StoreFits
    <2>2. ASSUME ~ crossed', ~ cut'
          PROVE  /\ Stored(marker', changed', chats')
                 /\ \A q \in Commands : run'[q].at \in {"asked", "older", "merge"} => Stored(run'[q].sync, changed', chats')
      <3>1. ~ crossed /\ ~ cut /\ marker \in Versions
        BY <1>1, <1>5, <2>2, ContactTypes DEF ContactInv
      <3>2. Stored(marker', changed', chats')
        BY <1>1, <1>6, <1>7, <2>1, <2>2, <3>1, ChatsWritten DEF ContactInv, AllStored
      <3>3. ASSUME NEW q \in Commands, run'[q].at \in {"asked", "older", "merge"}
            PROVE  Stored(run'[q].sync, changed', chats')
        <4>1. run'[q] = run[q]
          BY <1>3, <1>13, <3>3
        <4>2. Stored(run[q].sync, changed, chats) /\ run[q].sync \in Versions
          BY <1>2, <3>1, <3>3, <4>1, JobFields DEF ContactInv, AllStored
        <4> QED
          BY <1>1, <1>6, <1>7, <2>1, <2>2, <4>1, <4>2, ChatsWritten
      <3> QED
        BY <3>2, <3>3
    <2> QED
      BY <2>2 DEF AllStored
  <1>16. RecencyFollows'
    <2>1. CASE chats' = chats
      BY <1>1, <2>1 DEF ContactInv, RecencyFollows
    <2>2. CASE chats' # chats
      BY <1>1, <1>6, <2>2 DEF ContactInv, RecencyFollows
    <2> QED
      BY <2>1, <2>2
  <1> QED
    BY <1>10, <1>11, <1>14, <1>15, <1>16 DEF ContactInv

\* The chats are emptied: a command under way is a crossing.
LEMMA EmptyingKeeps ==
  ASSUME ContactInv,
         chats' = [d \in Dialogs |-> Never], recency' \in Rows, members' \in SUBSET Dialogs,
         people' \in SUBSET Dialogs, unordered' \in SUBSET Dialogs, marker' \in {marker, Never},
         UNCHANGED << changed, clock, run, cut >>, logins' \in 0 .. MaxLogins, crossed' \in BOOLEAN,
         crossed => crossed', ~ crossed' => ~ Busy /\ marker' = Never
  PROVE  ContactInv'
  <1>1. chats' \in Rows /\ \A d \in Dialogs : chats'[d] = Never
    BY Clocks DEF Rows
  <1>2. marker' \in Versions /\ \A d \in Dialogs : Never <= changed[d] /\ changed[d] \in Int
    BY Clocks, ContactTypes DEF ContactInv, Times
  <1>3. ContactTypeOK'
    BY <1>1, <1>2 DEF ContactInv, ContactTypeOK, Rows
  <1>4. StoreFits'
    <2>1. Never <= clock
      BY Clocks, ContactTypes DEF ContactInv, Times
    <2> QED
      BY <1>1, <1>2, <2>1 DEF ContactInv, StoreFits
  <1>5. AllStored'
    <2>1. ASSUME ~ crossed', NEW c \in Commands PROVE run'[c].at = "rest"
      BY <2>1, RestingFits DEF Busy
    <2>2. \A d \in Dialogs : ~ (changed[d] <= Never)
      BY Clocks, ContactTypes DEF ContactInv, Times
    <2> QED
      BY <2>1, <2>2 DEF AllStored, Stored
  <1>6. RecencyFollows'
    BY <1>1 DEF RecencyFollows
  <1>7. \A c \in Commands : JobFits(run'[c], changed', clock')
    BY DEF ContactInv
  <1> QED
    BY <1>3, <1>4, <1>5, <1>6, <1>7 DEF ContactInv

LEMMA ClearKeeps ==
  ASSUME ContactInv, (\E n \in 1 .. 4 : Clear(n)) \/ Rebuild
  PROVE  ContactInv'
  <1>1. [d \in Dialogs |-> Never] \in Rows /\ recency \in Rows /\ members \in SUBSET Dialogs /\ people \in SUBSET Dialogs
        /\ unordered \in SUBSET Dialogs /\ logins \in 0 .. MaxLogins /\ MaxLogins \in Nat
    BY Clocks, ContactTypes DEF ContactInv, Rows
  <1>2. logins < MaxLogins /\ logins' = logins + 1 /\ logins' \in 0 .. MaxLogins
    BY <1>1 DEF Clear, Rebuild, Going
  <1>3. ASSUME NEW n \in 1 .. 4, Clear(n) PROVE ContactInv'
    <2>1. crossed' = (crossed \/ Busy \/ n < 4) /\ marker' = IF n = 4 THEN Never ELSE marker
      BY <1>3 DEF Clear
    <2>2. crossed' \in BOOLEAN /\ (crossed => crossed') /\ (~ crossed' => ~ Busy /\ marker' = Never)
      <3>1. ~ (n < 4) => n = 4
        OBVIOUS
      <3> QED
        BY <2>1, <3>1
    <2>3. /\ chats' = [d \in Dialogs |-> Never] /\ UNCHANGED << changed, clock, run, cut >>
          /\ recency' \in Rows /\ members' \in SUBSET Dialogs /\ people' \in SUBSET Dialogs /\ unordered' \in SUBSET Dialogs
          /\ marker' \in {marker, Never}
      BY <1>1, <1>3, <2>1 DEF Clear
    <2> QED
      BY <1>2, <2>2, <2>3, EmptyingKeeps
  <1>4. ASSUME Rebuild PROVE ContactInv'
    <2>1. crossed' = (crossed \/ Busy) /\ marker' = Never
      BY <1>4 DEF Rebuild
    <2>2. crossed' \in BOOLEAN /\ (crossed => crossed') /\ (~ crossed' => ~ Busy /\ marker' = Never)
      BY <2>1
    <2>3. /\ chats' = [d \in Dialogs |-> Never] /\ UNCHANGED << changed, clock, run, cut >>
          /\ recency' \in Rows /\ members' \in SUBSET Dialogs /\ people' \in SUBSET Dialogs /\ unordered' \in SUBSET Dialogs
          /\ marker' \in {marker, Never}
      BY <1>1, <1>4, <2>1 DEF Rebuild
    <2> QED
      BY <1>2, <2>2, <2>3, EmptyingKeeps
  <1> QED
    BY <1>3, <1>4

LEMMA ContactInvHolds == ContactSpec => []ContactInv
  <1>1. ContactInit => ContactInv
    <2> SUFFICES ASSUME ContactInit PROVE ContactInv
      OBVIOUS
    <2>1. [d \in Dialogs |-> Never] \in Rows /\ 0 \in Times /\ 0 \in 0 .. MaxLogins
      BY Clocks DEF Rows, Times
    <2>2. ContactTypeOK
      BY <2>1, RestingTyped, Clocks DEF ContactInit, ContactTypeOK, Rows, Times
    <2>3. StoreFits
      BY Clocks DEF ContactInit, StoreFits
    <2>4. \A c \in Commands : run[c] = Resting
      BY DEF ContactInit
    <2>5. \A d \in Dialogs : changed[d] = 0 /\ ~ (changed[d] <= Never) /\ Never <= changed[d]
      BY Clocks DEF ContactInit
    <2>6. \A c \in Commands : JobFits(run[c], changed, clock)
      BY <2>4, <2>5, RestingFits DEF JobFits, AnswerFits, AnswerReaches, SyncPast
    <2>7. AllStored
      BY <2>4, <2>5, RestingFits DEF ContactInit, AllStored, Stored
    <2>8. RecencyFollows
      BY DEF ContactInit, RecencyFollows
    <2> QED
      BY <2>2, <2>3, <2>6, <2>7, <2>8 DEF ContactInv
  <1>2. ContactInv /\ [ContactNext]_contactVars => ContactInv'
    <2> SUFFICES ASSUME ContactInv, [ContactNext]_contactVars PROVE ContactInv'
      OBVIOUS
    <2>1. CASE UNCHANGED contactVars
      BY <2>1 DEF ContactInv, ContactTypeOK, StoreFits, AllStored, RecencyFollows, contactVars
    <2>2. CASE Rebuild \/ \E n \in 1 .. 4 : Clear(n)
      BY <2>2, ClearKeeps
    <2>3. ASSUME NEW d \in Dialogs, DialogChanges(d) PROVE ContactInv'
      BY <2>3, DialogChangesKeeps
    <2>4. ASSUME NEW c \in Commands, Begin(c) \/ BeginSync(c) \/ AskLogin(c) PROVE ContactInv'
      BY <2>4, BeginKeeps, BeginSyncKeeps, AskLoginKeeps
    <2>5. ASSUME NEW c \in Commands, LoginAnswer(c) \/ RestOfChats(c) \/ Merge(c) PROVE ContactInv'
      BY <2>5, LoginAnswerKeeps, RestOfChatsKeeps, MergeKeeps
    <2>6. ASSUME NEW c \in Commands, MergeFails(c) \/ PeopleFor(c) \/ OrderPeople(c) \/ Finish(c) PROVE ContactInv'
      BY <2>6, PlainStepsKeep, NamingKeeps
    <2>7. ASSUME NEW c \in Commands, NEW d \in Dialogs, NameSender(c, d) \/ WriteChat(c, d) PROVE ContactInv'
      BY <2>7, NamingKeeps, WriteChatKeeps
    <2> QED
      BY <2>1, <2>2, <2>3, <2>4, <2>5, <2>6, <2>7 DEF ContactNext
  <1> QED
    BY <1>1, <1>2, PTL DEF ContactSpec

(***************************************************************************)
(* Every variable of the chats and people keeps its type.                   *)
(***************************************************************************)
THEOREM ContactTypeCorrect == ContactSpec => []ContactTypeOK
  <1>1. ContactInv => ContactTypeOK
    BY DEF ContactInv
  <1> QED
    BY <1>1, ContactInvHolds, PTL

(***************************************************************************)
(* However the logins of several commands interleave, overtake each other,  *)
(* fail and die, the marker they leave names only changes that are stored,  *)
(* and the contacts are in the order the chats give -- for any number of    *)
(* commands and dialogs and any size of a login's answer.  Not the marker   *)
(* where a row was put back that is counted on (by a listing over another   *)
(* login's merge, or by a late login while a third runs that was asked for   *)
(* from the later marker), where a clear met a command or stopped short, or *)
(* where a login's chats were not all read; and not the order of a dialog   *)
(* whose row a listing wrote, or of a sender just named, until the next     *)
(* login derives it.                                                        *)
(***************************************************************************)
THEOREM LoginsLeaveItWhole == ContactSpec => []LoginsMergeWhole
  <1>1. ContactInv => LoginsMergeWhole
    BY DEF ContactInv, AllStored, Stored, LoginsMergeWhole, MarkerBehindRows
  <1> QED
    BY <1>1, ContactInvHolds, PTL
-----------------------------------------------------------------------------
(***************************************************************************)
(* The file (CacheFile).  Once a version is in it, it has its tables, its   *)
(* index and its triggers; the rows are what was told, under row ids of     *)
(* their own; and the index is that of the rows.                            *)
(***************************************************************************)
StoredRows == [CacheIds -> MessageRow]

FileType ==
  [version : {Unmade, Earlier, SchemaVersion, Newer}, made : SUBSET {"messages", "index"},
   messages : StoredRows, previous : StoredRows, index : SUBSET [rowid : Nat \ {0}, word : 0 .. LastVersion],
   triggersOn : {NoTable, "messages", "previous"}]

ToldType == [CacheIds -> [version : 0 .. LastVersion, heard : BOOLEAN, held : BOOLEAN]]

OpenersType ==
  [Openers ->
     [at : {"away", "opens", "without", "waits", "tables", "index", "triggers", "version", "open", "cleared"},
      command : {"work", "clear"}]]

\* A row that is not there is blank, each that is there has an id of its own, and there is a greatest.
SoundRows(rows) ==
  /\ \A m \in CacheIds : rows[m].rowid = 0 => rows[m].version = 0 /\ rows[m].heard = FALSE
  /\ \A m, n \in RowsIn(rows) : rows[m].rowid = rows[n].rowid => m = n
  /\ \E bound \in Nat : \A m \in CacheIds : rows[m].rowid <= bound

SameRows(rows, was) ==
  \A m \in CacheIds : /\ rows[m].version = was[m].version /\ rows[m].heard = was[m].heard
                      /\ (rows[m].rowid # 0) = was[m].held

FileTyped ==
  /\ db \in FileType /\ db.previous = NoRows /\ db.triggersOn # "previous"
  /\ opener \in OpenersType
  /\ history \in ToldType
  /\ stores \in 0 .. MaxStores

FileMade ==
  /\ db.version # Unmade => db.made = {"messages", "index"} /\ db.triggersOn = "messages"
  /\ db.version = Unmade =>
       /\ \A m \in CacheIds : db.messages[m].rowid = 0
       /\ \A p \in Openers : opener[p].at \notin {"waits", "open", "cleared"}
  /\ \A p \in Openers :
       /\ opener[p].at = "index" => "messages" \in db.made
       /\ opener[p].at \in {"triggers", "version"} => db.made = {"messages", "index"}
       /\ opener[p].at = "version" => db.triggersOn = "messages"

FileTold ==
  /\ SoundRows(db.messages)
  /\ db.index = Entries(db.messages)
  /\ SameRows(db.messages, history)

FileInv == FileTyped /\ FileMade /\ FileTold

\* A set of natural numbers with a bound has a greatest element, and that is Max.
LEMMA LeastOfNat ==
  ASSUME NEW S, S \subseteq Nat, S # {}
  PROVE  \E n \in S : \A m \in S : n <= m
  <1>1. IsWellFoundedOn(OpToRel(<, Nat), Nat)
    BY NatLessThanWellFounded
  <1>2. PICK n \in S : \A m \in S : << m, n >> \notin OpToRel(<, Nat)
    BY <1>1, WFMin
  <1>3. \A m \in S : ~(m < n)
    BY <1>2 DEF OpToRel
  <1> QED
    BY <1>3

LEMMA MaxOf ==
  ASSUME NEW S, S \subseteq Nat, S # {}, NEW b \in Nat, \A x \in S : x <= b
  PROVE  Max(S) \in S /\ \A x \in S : x <= Max(S)
  <1> DEFINE D == { b - x : x \in S }
  <1>1. D \subseteq Nat /\ D # {}
    <2>1. ASSUME NEW x \in S PROVE b - x \in Nat
      OBVIOUS
    <2>2. PICK x \in S : TRUE
      OBVIOUS
    <2>3. b - x \in D
      OBVIOUS
    <2> QED
      BY <2>1, <2>3
  <1>2. PICK d \in D : \A e \in D : d <= e
    BY <1>1, LeastOfNat
  <1>3. PICK k \in S : d = b - k
    OBVIOUS
  <1>4. \A x \in S : k >= x
    <2> TAKE x \in S
    <2>1. b - x \in D
      OBVIOUS
    <2>2. d <= b - x
      BY <1>2, <2>1
    <2> HIDE DEF D
    <2> QED
      BY <1>3, <2>2
  <1> HIDE DEF D
  <1>5. Max(S) \in S /\ \A x \in S : Max(S) >= x
    BY <1>4 DEF Max
  <1> QED
    BY <1>5

LEMMA MaxOfTwo ==
  ASSUME NEW a \in Nat, NEW b \in Nat
  PROVE  Max({a, b}) = IF b >= a THEN b ELSE a
  <1>1. Max({a, b}) \in {a, b} /\ \A x \in {a, b} : x <= Max({a, b})
    <2>1. a + b \in Nat /\ \A x \in {a, b} : x \in Nat /\ x <= a + b
      OBVIOUS
    <2> QED
      BY <2>1, MaxOf
  <1> QED
    BY <1>1

\* What each statement leaves of a file.
LEMMA StatementsMade ==
  ASSUME NEW f \in FileType
  PROVE  /\ CreateTables(f) \in FileType /\ CreateTables(f).made = f.made \cup {"messages"}
         /\ CreateIndex(f) \in FileType /\ CreateIndex(f).made = f.made \cup {"index"}
         /\ CreateTriggers(f) \in FileType /\ CreateTriggers(f).made = f.made
         /\ CreateTriggers(f).triggersOn = IF f.triggersOn = NoTable THEN "messages" ELSE f.triggersOn
         /\ CreateTables(f).triggersOn = f.triggersOn /\ CreateIndex(f).triggersOn = f.triggersOn
         /\ SetVersion(f) \in FileType /\ SetVersion(f).version = SchemaVersion
         /\ SetVersion(f).made = f.made /\ SetVersion(f).triggersOn = f.triggersOn
         /\ CreateTables(f).version = f.version /\ CreateIndex(f).version = f.version
         /\ CreateTriggers(f).version = f.version
  BY DEF FileType, CreateTables, CreateIndex, CreateTriggers, SetVersion

RowsKept(f, g) == g.messages = f.messages /\ g.previous = f.previous /\ g.index = f.index

LEMMA StatementsKeep ==
  ASSUME NEW f \in FileType
  PROVE  RowsKept(f, CreateTables(f)) /\ RowsKept(f, CreateIndex(f)) /\ RowsKept(f, CreateTriggers(f)) /\ RowsKept(f, SetVersion(f))
  BY DEF RowsKept, FileType, CreateTables, CreateIndex, CreateTriggers, SetVersion

LEMMA BlankRows ==
  /\ NoMessage \in MessageRow /\ NoRows \in StoredRows /\ SoundRows(NoRows)
  /\ RowsIn(NoRows) = {} /\ Entries(NoRows) = {}
  /\ \A m \in CacheIds : NoRows[m].rowid = 0 /\ NoRows[m].version = 0 /\ NoRows[m].heard = FALSE
  <1>1. NoMessage \in MessageRow
    BY CacheFileAssumption DEF NoMessage, MessageRow
  <1>2. \A m \in CacheIds : NoRows[m].rowid = 0 /\ NoRows[m].version = 0 /\ NoRows[m].heard = FALSE
    BY DEF NoRows, NoMessage
  <1>3. RowsIn(NoRows) = {}
    BY <1>2 DEF RowsIn
  <1> QED
    BY <1>1, <1>2, <1>3 DEF NoRows, StoredRows, SoundRows, Entries

LEMMA EntryTyped ==
  ASSUME NEW rows \in StoredRows
  PROVE  Entries(rows) \subseteq [rowid : Nat \ {0}, word : 0 .. LastVersion]
  <1> SUFFICES ASSUME NEW m \in RowsIn(rows)
               PROVE  EntryOf(rows[m]) \in [rowid : Nat \ {0}, word : 0 .. LastVersion]
    BY DEF Entries
  <1>1. rows[m] \in MessageRow /\ rows[m].rowid # 0
    BY DEF RowsIn, StoredRows
  <1> QED
    BY <1>1 DEF EntryOf, MessageRow

\* The triggers keep the index that of the rows, whatever becomes of them.
LEMMA FollowKeeps ==
  ASSUME NEW f \in FileType, NEW rows \in StoredRows, f.triggersOn = "messages",
         f.index = Entries(f.messages), SoundRows(f.messages)
  PROVE  /\ Follow(f, rows) \in FileType /\ Follow(f, rows).messages = rows
         /\ Follow(f, rows).index = Entries(rows)
         /\ Follow(f, rows).version = f.version /\ Follow(f, rows).made = f.made
         /\ Follow(f, rows).previous = f.previous /\ Follow(f, rows).triggersOn = "messages"
  <1> DEFINE out == { EntryOf(f.messages[m]) : m \in { n \in RowsIn(f.messages) : rows[n] # f.messages[n] } }
             in == { EntryOf(rows[m]) : m \in { n \in RowsIn(rows) : rows[n] # f.messages[n] } }
  <1>1. (f.index \ out) \cup in = Entries(rows)
    <2>1. ASSUME NEW e \in f.index, e \notin out PROVE e \in Entries(rows)
      <3>1. PICK m \in RowsIn(f.messages) : e = EntryOf(f.messages[m])
        BY <2>1 DEF Entries
      <3>2. rows[m] = f.messages[m]
        BY <2>1, <3>1
      <3> QED
        BY <3>1, <3>2 DEF Entries, RowsIn
    <2>2. in \subseteq Entries(rows)
      BY DEF Entries
    <2>3. ASSUME NEW m \in RowsIn(rows), rows[m] = f.messages[m]
          PROVE  EntryOf(rows[m]) \in f.index \ out
      <3>1. m \in RowsIn(f.messages) /\ EntryOf(rows[m]) \in f.index
        BY <2>3 DEF Entries, RowsIn
      <3>2. ASSUME NEW n \in RowsIn(f.messages), rows[n] # f.messages[n]
            PROVE  EntryOf(f.messages[n]) # EntryOf(rows[m])
        <4>1. f.messages[n].rowid # f.messages[m].rowid
          BY <2>3, <3>1, <3>2 DEF SoundRows
        <4> QED
          BY <2>3, <4>1 DEF EntryOf
      <3> QED
        BY <3>1, <3>2
    <2>4. ASSUME NEW m \in RowsIn(rows) PROVE EntryOf(rows[m]) \in (f.index \ out) \cup in
      BY <2>3
    <2> QED
      BY <2>1, <2>2, <2>4 DEF Entries
  <1>2. Follow(f, rows) = [f EXCEPT !.messages = rows, !.index = (f.index \ out) \cup in]
    BY DEF Follow
  <1>3. Entries(rows) \in SUBSET [rowid : Nat \ {0}, word : 0 .. LastVersion]
    BY EntryTyped
  <1> HIDE DEF out, in
  <1>4. Follow(f, rows) = [f EXCEPT !.messages = rows, !.index = Entries(rows)]
    BY <1>1, <1>2
  <1> QED
    BY <1>3, <1>4 DEF FileType

\* The order of the old row ids is one of new ones.
Place(rows, m) == Cardinality({ n \in RowsIn(rows) : rows[n].rowid <= rows[m].rowid })

LEMMA PlacesAreOwn ==
  ASSUME NEW rows \in StoredRows, SoundRows(rows)
  PROVE  /\ \A m \in RowsIn(rows) : Place(rows, m) \in Nat \ {0} /\ Place(rows, m) <= Cardinality(CacheIds)
         /\ \A m, n \in RowsIn(rows) : Place(rows, m) = Place(rows, n) => m = n
         /\ Cardinality(CacheIds) \in Nat
  <1> DEFINE Upto(m) == { n \in RowsIn(rows) : rows[n].rowid <= rows[m].rowid }
  <1>1. \A m \in CacheIds : rows[m].rowid \in Nat
    BY DEF StoredRows, MessageRow
  <1>2. RowsIn(rows) \subseteq CacheIds
    BY DEF RowsIn
  <1>3. IsFiniteSet(CacheIds) /\ Cardinality(CacheIds) \in Nat
    BY CacheFileAssumption, FS_CardinalityType
  <1>4. \A m \in RowsIn(rows) : m \in Upto(m) /\ Upto(m) \subseteq CacheIds
    BY <1>1, <1>2
  <1>5. \A m \in RowsIn(rows) : /\ IsFiniteSet(Upto(m)) /\ Cardinality(Upto(m)) \in Nat
                                /\ Cardinality(Upto(m)) <= Cardinality(CacheIds)
    BY <1>3, <1>4, FS_Subset, FS_CardinalityType
  <1>6. \A m \in RowsIn(rows) : Cardinality(Upto(m)) # 0
    <2> TAKE m \in RowsIn(rows)
    <2>1. Upto(m) # {}
      BY <1>4
    <2> HIDE DEF Upto
    <2> QED
      BY <1>5, <2>1, FS_EmptySet
  <1>7. ASSUME NEW m \in RowsIn(rows), NEW n \in RowsIn(rows), rows[m].rowid < rows[n].rowid
        PROVE  Cardinality(Upto(m)) # Cardinality(Upto(n))
    <2>1. Upto(m) \subseteq Upto(n) /\ n \notin Upto(m) /\ n \in Upto(n)
      BY <1>1, <1>2, <1>7
    <2>2. IsFiniteSet(Upto(n)) /\ Upto(m) # Upto(n)
      BY <1>5, <2>1
    <2> HIDE DEF Upto
    <2> QED
      BY <2>1, <2>2, FS_Subset
  <1>8. \A m \in RowsIn(rows) : Place(rows, m) = Cardinality(Upto(m))
    BY DEF Place
  <1>9. \A m, n \in RowsIn(rows) : Cardinality(Upto(m)) = Cardinality(Upto(n)) => m = n
    <2> HIDE DEF Upto
    <2> SUFFICES ASSUME NEW m \in RowsIn(rows), NEW n \in RowsIn(rows), m # n
                 PROVE  Cardinality(Upto(m)) # Cardinality(Upto(n))
      OBVIOUS
    <2>1. rows[m].rowid # rows[n].rowid /\ rows[m].rowid \in Nat /\ rows[n].rowid \in Nat
      BY <1>1, <1>2 DEF SoundRows
    <2>2. CASE rows[m].rowid < rows[n].rowid
      BY <1>7, <2>2
    <2>3. CASE rows[n].rowid < rows[m].rowid
      BY <1>7, <2>3
    <2> QED
      BY <2>1, <2>2, <2>3
  <1> HIDE DEF Upto
  <1> QED
    BY <1>3, <1>5, <1>6, <1>8, <1>9

\* The rows that a rebuild puts back.
Replaced(old) ==
  [m \in CacheIds |-> IF m \in RowsIn(old) THEN [old[m] EXCEPT !.rowid = Place(old, m)] ELSE NoMessage]

LEMMA ReplacedAreSame ==
  ASSUME NEW old \in StoredRows, SoundRows(old)
  PROVE  /\ Replaced(old) \in StoredRows /\ SoundRows(Replaced(old))
         /\ \A m \in CacheIds : /\ Replaced(old)[m].version = old[m].version
                                /\ Replaced(old)[m].heard = old[m].heard
                                /\ Replaced(old)[m].rowid = 0 <=> old[m].rowid = 0
  <1> DEFINE new == Replaced(old)
  <1>1. ASSUME NEW m \in RowsIn(old)
        PROVE  /\ new[m] = [old[m] EXCEPT !.rowid = Place(old, m)] /\ new[m] \in MessageRow
               /\ new[m].rowid = Place(old, m) /\ new[m].version = old[m].version /\ new[m].heard = old[m].heard
               /\ new[m].rowid # 0 /\ old[m].rowid # 0
    <2>1. m \in CacheIds /\ old[m] \in MessageRow /\ old[m].rowid # 0
      BY DEF RowsIn, StoredRows
    <2>2. Place(old, m) \in Nat \ {0}
      BY PlacesAreOwn
    <2>3. new[m] = [old[m] EXCEPT !.rowid = Place(old, m)]
      BY <2>1 DEF Replaced
    <2> HIDE DEF new
    <2> QED
      BY <2>1, <2>2, <2>3 DEF MessageRow
  <1>2. ASSUME NEW m \in CacheIds, m \notin RowsIn(old)
        PROVE  /\ new[m] = NoMessage /\ new[m].rowid = 0 /\ old[m].rowid = 0
               /\ old[m].version = 0 /\ old[m].heard = FALSE
    <2>1. new[m] = NoMessage
      BY <1>2 DEF Replaced
    <2>2. old[m].rowid = 0
      BY <1>2 DEF RowsIn
    <2> HIDE DEF new
    <2> QED
      BY <2>1, <2>2 DEF NoMessage, SoundRows
  <1>3. new \in StoredRows
    <2>1. \A m \in CacheIds : new[m] \in MessageRow
      BY <1>1, <1>2, BlankRows
    <2>2. new = [m \in CacheIds |-> new[m]]
      BY DEF Replaced
    <2> HIDE DEF new
    <2> QED
      BY <2>1, <2>2 DEF StoredRows
  <1>4. \A m \in CacheIds : m \in RowsIn(new) <=> m \in RowsIn(old)
    BY <1>1, <1>2 DEF RowsIn
  <1> HIDE DEF new
  <1>5. NoMessage.version = 0 /\ NoMessage.heard = FALSE /\ NoMessage.rowid = 0
    BY DEF NoMessage
  <1>6. SoundRows(new)
    <2>1. \A m \in CacheIds : new[m].rowid = 0 => new[m].version = 0 /\ new[m].heard = FALSE
      BY <1>1, <1>2, <1>5
    <2>2. \A m, n \in RowsIn(new) : new[m].rowid = new[n].rowid => m = n
      <3>1. \A m \in RowsIn(new) : m \in RowsIn(old) /\ new[m].rowid = Place(old, m)
        BY <1>1, <1>4 DEF RowsIn
      <3> QED
        BY <3>1, PlacesAreOwn
    <2>3. ASSUME NEW m \in CacheIds PROVE new[m].rowid <= Cardinality(CacheIds)
      <3>1. CASE m \in RowsIn(old)
        BY <1>1, <3>1, PlacesAreOwn
      <3>2. CASE m \notin RowsIn(old)
        <4>1. new[m].rowid = 0
          BY <1>2, <3>2
        <4> QED
          BY <4>1, PlacesAreOwn
      <3> QED
        BY <3>1, <3>2
    <2> QED
      BY <2>1, <2>2, <2>3, PlacesAreOwn DEF SoundRows
  <1> QED
    BY <1>1, <1>2, <1>3, <1>5, <1>6 DEF new

LEMMA RebuiltFile ==
  ASSUME NEW f \in FileType
  PROVE  /\ RebuildFile(f) \in FileType
         /\ RebuildFile(f).previous = f.messages /\ RebuildFile(f).messages = NoRows
         /\ RebuildFile(f).index = {} /\ RebuildFile(f).triggersOn = NoTable
         /\ RebuildFile(f).version = f.version
  <1> DEFINE g == DropTriggers(f)
             h == DropIndex(g)
  <1>1. g \in FileType /\ g.triggersOn = NoTable /\ g.messages = f.messages /\ g.version = f.version
    BY DEF DropTriggers, FileType, NoTable
  <1> HIDE DEF g
  <1>2. h \in FileType /\ h.triggersOn = NoTable /\ h.messages = f.messages /\ h.index = {} /\ h.version = f.version
    BY <1>1 DEF DropIndex, FileType
  <1> HIDE DEF h
  <1>3. SetAside(h) = [h EXCEPT !.previous = h.messages, !.messages = NoRows,
                                !.made = h.made \ {"messages"}, !.triggersOn = NoTable]
    BY <1>2 DEF SetAside, FileType, NoTable
  <1> DEFINE x == [h EXCEPT !.previous = h.messages, !.messages = NoRows]
  <1>4. /\ x \in FileType /\ x.previous = f.messages /\ x.messages = NoRows /\ x.made = h.made
        /\ x.index = {} /\ x.version = f.version
    BY <1>2, BlankRows DEF FileType
  <1>5. SetAside(h) = [x EXCEPT !.made = h.made \ {"messages"}, !.triggersOn = NoTable]
    BY <1>3 DEF x
  <1> HIDE DEF x
  <1>6. /\ SetAside(h) \in FileType
        /\ SetAside(h).previous = f.messages /\ SetAside(h).messages = NoRows
        /\ SetAside(h).index = {} /\ SetAside(h).triggersOn = NoTable
        /\ SetAside(h).version = f.version
    <2>1. h.made \ {"messages"} \in SUBSET {"messages", "index"}
      BY <1>2 DEF FileType
    <2>2. NoTable \in {NoTable, "messages", "previous"}
      OBVIOUS
    <2> DEFINE y == [x EXCEPT !.made = h.made \ {"messages"}]
    <2>3. /\ y \in FileType /\ y.previous = f.messages /\ y.messages = NoRows
          /\ y.index = {} /\ y.version = f.version
      BY <1>4, <2>1 DEF FileType
    <2>4. SetAside(h) = [y EXCEPT !.triggersOn = NoTable]
      BY <1>5
    <2> HIDE DEF y
    <2> QED
      BY <2>2, <2>3, <2>4 DEF FileType
  <1> QED
    BY <1>6 DEF RebuildFile, g, h

\* An upgrade leaves a whole file with the rows it found, and their index.
LEMMA UpgradedFile ==
  ASSUME NEW f \in FileType, SoundRows(f.messages)
  PROVE  /\ Upgraded(f) \in FileType /\ Upgraded(f).version = SchemaVersion
         /\ Upgraded(f).made = {"messages", "index"} /\ Upgraded(f).triggersOn = "messages"
         /\ Upgraded(f).previous = NoRows /\ Upgraded(f).messages = Replaced(f.messages)
         /\ Upgraded(f).index = Entries(Replaced(f.messages))
  <1> DEFINE r == RebuildFile(f)
             t == CreateTables(r)
             i == CreateIndex(t)
             g == CreateTriggers(i)
             h == Restore(g)
  <1>1. /\ r \in FileType /\ r.previous = f.messages /\ r.messages = NoRows
        /\ r.index = {} /\ r.triggersOn = NoTable
    BY RebuiltFile
  <1> HIDE DEF r
  <1>2. /\ t \in FileType /\ t.previous = f.messages /\ t.messages = NoRows
        /\ t.index = {} /\ t.triggersOn = NoTable /\ "messages" \in t.made
    BY <1>1, StatementsMade, StatementsKeep DEF RowsKept
  <1> HIDE DEF t
  <1>3. /\ i \in FileType /\ i.previous = f.messages /\ i.messages = NoRows
        /\ i.index = {} /\ i.triggersOn = NoTable /\ {"messages", "index"} \subseteq i.made
    <2>1. i \in FileType /\ i.made = t.made \cup {"index"} /\ i.triggersOn = t.triggersOn
      BY <1>2, StatementsMade
    <2>2. RowsKept(t, i)
      BY <1>2, StatementsKeep
    <2> HIDE DEF i
    <2> QED
      BY <1>2, <2>1, <2>2 DEF RowsKept
  <1> HIDE DEF i
  <1>4. /\ g \in FileType /\ g.previous = f.messages /\ g.messages = NoRows
        /\ g.index = {} /\ g.triggersOn = "messages" /\ {"messages", "index"} \subseteq g.made
    BY <1>3, StatementsMade, StatementsKeep DEF RowsKept
  <1> HIDE DEF g
  <1>5. Restore(g) = [Follow(g, Replaced(f.messages)) EXCEPT
                        !.previous = NoRows, !.triggersOn = IF @ = "previous" THEN NoTable ELSE @]
    BY <1>4 DEF Restore, Replaced, Place
  <1>6. Replaced(f.messages) \in StoredRows /\ SoundRows(g.messages) /\ g.index = Entries(g.messages)
    BY <1>4, BlankRows, ReplacedAreSame DEF FileType
  <1> DEFINE w == Follow(g, Replaced(f.messages))
  <1>7. /\ w \in FileType /\ w.messages = Replaced(f.messages) /\ w.index = Entries(Replaced(f.messages))
        /\ w.triggersOn = "messages" /\ w.made = g.made
    BY <1>4, <1>6, FollowKeeps
  <1> HIDE DEF w
  <1>8. h = [w EXCEPT !.previous = NoRows, !.triggersOn = IF @ = "previous" THEN NoTable ELSE @]
    BY <1>5 DEF w
  <1> HIDE DEF h
  <1>9. /\ h \in FileType /\ h.messages = Replaced(f.messages) /\ h.index = Entries(Replaced(f.messages))
        /\ h.triggersOn = "messages" /\ h.made = g.made /\ h.previous = NoRows
    BY <1>7, <1>8, BlankRows DEF FileType
  <1>10. h.made = {"messages", "index"}
    BY <1>4, <1>9 DEF FileType
  <1>11. Upgraded(f) = SetVersion(h)
    BY DEF Upgraded, r, t, i, g, h
  <1>12. /\ SetVersion(h) \in FileType /\ SetVersion(h).version = SchemaVersion
         /\ SetVersion(h).made = h.made /\ SetVersion(h).triggersOn = h.triggersOn
    BY <1>9, StatementsMade
  <1>13. RowsKept(h, SetVersion(h))
    BY <1>9, StatementsKeep
  <1> QED
    BY <1>9, <1>10, <1>11, <1>12, <1>13 DEF RowsKept

ToldOf == [version : 0 .. LastVersion, heard : BOOLEAN, held : BOOLEAN]

\* One row of the table, written under its own id, under a new one or taken away.
LEMMA RowWritten ==
  ASSUME NEW rows \in StoredRows, SoundRows(rows), NEW was \in ToldType, SameRows(rows, was),
         NEW m \in CacheIds, NEW row \in MessageRow, NEW t \in ToldOf,
         \/ row.rowid \in {0, rows[m].rowid}
         \/ \A n \in CacheIds : rows[n].rowid < row.rowid,
         row.rowid = 0 => row.version = 0 /\ row.heard = FALSE,
         row.version = t.version /\ row.heard = t.heard /\ (row.rowid # 0) = t.held
  PROVE  /\ [rows EXCEPT ![m] = row] \in StoredRows /\ SoundRows([rows EXCEPT ![m] = row])
         /\ [was EXCEPT ![m] = t] \in ToldType
         /\ SameRows([rows EXCEPT ![m] = row], [was EXCEPT ![m] = t])
  <1> DEFINE new == [rows EXCEPT ![m] = row]
             now == [was EXCEPT ![m] = t]
  <1>1. new \in StoredRows /\ now \in ToldType
    BY DEF StoredRows, ToldType, ToldOf
  <1>2. new[m] = row /\ now[m] = t /\ \A n \in CacheIds \ {m} : new[n] = rows[n] /\ now[n] = was[n]
    BY DEF StoredRows, ToldType
  <1> HIDE DEF new, now
  <1>3. \A n \in CacheIds : rows[n].rowid \in Nat
    BY DEF StoredRows, MessageRow
  <1>4. row.rowid \in Nat
    BY DEF MessageRow
  <1>5. SoundRows(new)
    <2>1. \A n \in CacheIds : new[n].rowid = 0 => new[n].version = 0 /\ new[n].heard = FALSE
      BY <1>2 DEF SoundRows
    <2>2. ASSUME NEW n \in CacheIds \ {m}, rows[n].rowid # 0 PROVE rows[n].rowid # row.rowid
      <3>1. CASE row.rowid \in {0, rows[m].rowid}
        BY <2>2, <3>1 DEF SoundRows, RowsIn
      <3>2. CASE \A k \in CacheIds : rows[k].rowid < row.rowid
        BY <1>3, <1>4, <3>2
      <3> QED
        BY <3>1, <3>2
    <2>3. ASSUME NEW k \in RowsIn(new), NEW n \in RowsIn(new), new[k].rowid = new[n].rowid PROVE k = n
      <3>1. k \in CacheIds /\ n \in CacheIds /\ new[k].rowid # 0 /\ new[n].rowid # 0
        BY DEF RowsIn
      <3>2. CASE k # m /\ n # m
        BY <1>2, <2>3, <3>1, <3>2 DEF SoundRows, RowsIn
      <3>3. CASE k = m \/ n = m
        BY <1>2, <2>2, <2>3, <3>1, <3>3
      <3> QED
        BY <3>2, <3>3
    <2>4. \E bound \in Nat : \A n \in CacheIds : new[n].rowid <= bound
      <3>1. PICK b \in Nat : \A n \in CacheIds : rows[n].rowid <= b
        BY DEF SoundRows
      <3>2. b + row.rowid \in Nat /\ \A n \in CacheIds : new[n].rowid <= b + row.rowid
        BY <1>2, <1>3, <1>4, <3>1
      <3> QED
        BY <3>2
    <2> QED
      BY <2>1, <2>3, <2>4 DEF SoundRows
  <1>6. SameRows(new, now)
    BY <1>2 DEF SameRows
  <1> QED
    BY <1>1, <1>5, <1>6 DEF new, now

LEMMA NextIsNew ==
  ASSUME NEW rows \in StoredRows, SoundRows(rows)
  PROVE  NextRowId(rows) \in Nat \ {0} /\ \A n \in CacheIds : rows[n].rowid < NextRowId(rows)
  <1> DEFINE S == {0} \cup { rows[m].rowid : m \in RowsIn(rows) }
  <1>1. \A n \in CacheIds : rows[n].rowid \in Nat
    BY DEF StoredRows, MessageRow
  <1>2. S \subseteq Nat /\ S # {}
    BY <1>1 DEF RowsIn
  <1>3. PICK b \in Nat : \A x \in S : x <= b
    <2>1. PICK b \in Nat : \A n \in CacheIds : rows[n].rowid <= b
      BY DEF SoundRows
    <2>2. \A x \in S : x <= b
      BY <2>1 DEF RowsIn
    <2> QED
      BY <2>2
  <1>4. ASSUME NEW n \in CacheIds PROVE rows[n].rowid \in S
    <2>1. CASE rows[n].rowid = 0
      BY <2>1
    <2>2. CASE rows[n].rowid # 0
      BY <2>2 DEF RowsIn
    <2> QED
      BY <2>1, <2>2
  <1>5. NextRowId(rows) = 1 + Max(S)
    BY DEF NextRowId
  <1> HIDE DEF S
  <1>6. Max(S) \in S /\ \A x \in S : x <= Max(S)
    BY <1>2, <1>3, MaxOf
  <1> DEFINE top == Max(S)
  <1>7. top \in Nat /\ NextRowId(rows) = 1 + top
    BY <1>2, <1>5, <1>6
  <1>8. \A n \in CacheIds : rows[n].rowid <= top
    BY <1>4, <1>6
  <1> HIDE DEF top
  <1> QED
    BY <1>1, <1>7, <1>8
-----------------------------------------------------------------------------
LEMMA FileInvInit == CacheFileInit => FileInv
  <1> SUFFICES ASSUME CacheFileInit PROVE FileInv
    OBVIOUS
  <1>1. PICK version \in {Unmade, Earlier, Newer}, held \in SUBSET CacheIds, edits \in 0 .. LastVersion :
          /\ held = {} => edits = 0
          /\ version = Unmade => held = {}
          /\ \E rowid \in [CacheIds -> RowIds] :
               /\ \A m, n \in held : m # n => rowid[m] # rowid[n]
               /\ \A m \in CacheIds \ held : rowid[m] = 1
               /\ LET rows == [m \in CacheIds |-> IF m \in held THEN [rowid |-> rowid[m], version |-> edits, heard |-> FALSE] ELSE NoMessage]
                  IN db = [version |-> version, made |-> IF version = Unmade THEN {} ELSE {"messages", "index"},
                           messages |-> rows, previous |-> NoRows, index |-> Entries(rows),
                           triggersOn |-> IF version = Unmade THEN NoTable ELSE "messages"]
          /\ history = [m \in CacheIds |->
               IF m \in held THEN [version |-> edits, heard |-> FALSE, held |-> TRUE] ELSE NothingTold]
    BY Zenon DEF CacheFileInit
  <1>2. PICK rowid \in [CacheIds -> RowIds] :
          /\ \A m, n \in held : m # n => rowid[m] # rowid[n]
          /\ LET rows == [m \in CacheIds |-> IF m \in held THEN [rowid |-> rowid[m], version |-> edits, heard |-> FALSE] ELSE NoMessage]
             IN db = [version |-> version, made |-> IF version = Unmade THEN {} ELSE {"messages", "index"},
                      messages |-> rows, previous |-> NoRows, index |-> Entries(rows),
                      triggersOn |-> IF version = Unmade THEN NoTable ELSE "messages"]
    BY <1>1, Zenon
  <1> DEFINE rows == [m \in CacheIds |-> IF m \in held THEN [rowid |-> rowid[m], version |-> edits, heard |-> FALSE] ELSE NoMessage]
             made == IF version = Unmade THEN {} ELSE {"messages", "index"}
             on == IF version = Unmade THEN NoTable ELSE "messages"
  <1>3. db = [version |-> version, made |-> made, messages |-> rows, previous |-> NoRows,
              index |-> Entries(rows), triggersOn |-> on]
    BY <1>2, Zenon
  <1>4. Cardinality(CacheIds) \in Nat
    BY CacheFileAssumption, FS_CardinalityType
  <1>5. \A m \in CacheIds : rowid[m] \in Nat \ {0} /\ rowid[m] <= Cardinality(CacheIds)
    BY <1>4 DEF RowIds
  <1>6. ASSUME NEW m \in held PROVE rows[m] = [rowid |-> rowid[m], version |-> edits, heard |-> FALSE]
    OBVIOUS
  <1>7. ASSUME NEW m \in CacheIds \ held PROVE rows[m] = NoMessage
    OBVIOUS
  <1>8. rows \in StoredRows
    <2>1. ASSUME NEW m \in CacheIds PROVE rows[m] \in MessageRow
      BY <1>5, <1>6, <1>7, BlankRows DEF MessageRow
    <2>2. rows = [m \in CacheIds |-> rows[m]]
      OBVIOUS
    <2> HIDE DEF rows
    <2> QED
      BY <2>1, <2>2 DEF StoredRows
  <1> HIDE DEF rows
  <1>9. ASSUME NEW m \in CacheIds
        PROVE  /\ m \in held => rows[m].rowid = rowid[m] /\ rows[m].rowid # 0 /\ rows[m].version = edits /\ rows[m].heard = FALSE
               /\ m \notin held => rows[m].rowid = 0 /\ rows[m].version = 0 /\ rows[m].heard = FALSE
    <2>1. CASE m \in held
      <3>1. rows[m] = [rowid |-> rowid[m], version |-> edits, heard |-> FALSE]
        BY <1>6, <2>1
      <3> QED
        BY <1>5, <2>1, <3>1
    <2>2. CASE m \notin held
      <3>1. rows[m] = NoMessage
        BY <1>7, <2>2
      <3> QED
        BY <2>2, <3>1 DEF NoMessage
    <2> QED
      BY <2>1, <2>2
  <1>10. SoundRows(rows)
    <2>1. \A m, n \in RowsIn(rows) : rows[m].rowid = rows[n].rowid => m = n
      BY <1>2, <1>9 DEF RowsIn
    <2>2. ASSUME NEW m \in CacheIds PROVE rows[m].rowid <= Cardinality(CacheIds)
      <3>1. CASE m \in held
        BY <1>5, <1>9, <3>1
      <3>2. CASE m \notin held
        <4>1. rows[m].rowid = 0
          BY <1>9, <3>2
        <4> QED
          BY <1>4, <4>1
      <3> QED
        BY <3>1, <3>2
    <2>3. \A m \in CacheIds : rows[m].rowid = 0 => rows[m].version = 0 /\ rows[m].heard = FALSE
      BY <1>9
    <2> QED
      BY <1>4, <2>1, <2>2, <2>3 DEF SoundRows
  <1>11. history \in ToldType /\ SameRows(rows, history)
    <2>1. ASSUME NEW m \in CacheIds
          PROVE  /\ history[m] \in ToldOf
                 /\ rows[m].version = history[m].version /\ rows[m].heard = history[m].heard
                 /\ (rows[m].rowid # 0) = history[m].held
      <3>1. history[m] = IF m \in held THEN [version |-> edits, heard |-> FALSE, held |-> TRUE] ELSE NothingTold
        BY <1>1
      <3>2. CASE m \in held
        BY <1>1, <1>9, <3>1, <3>2 DEF ToldOf
      <3>3. CASE m \notin held
        <4>1. rows[m].rowid = 0 /\ rows[m].version = 0 /\ rows[m].heard = FALSE
          BY <1>9, <3>3
        <4>2. history[m] = NothingTold
          BY <3>1, <3>3
        <4>3. NothingTold \in ToldOf /\ NothingTold.version = 0 /\ NothingTold.heard = FALSE /\ NothingTold.held = FALSE
          BY CacheFileAssumption DEF NothingTold, ToldOf
        <4> QED
          BY <4>1, <4>2, <4>3
      <3> QED
        BY <3>2, <3>3
    <2>2. history = [m \in CacheIds |-> history[m]]
      BY <1>1
    <2> QED
      BY <2>1, <2>2 DEF ToldType, ToldOf, SameRows
  <1>12. /\ db.version = version /\ db.made = made /\ db.messages = rows /\ db.previous = NoRows
         /\ db.index = Entries(rows) /\ db.triggersOn = on
    BY <1>3
  <1>13. db \in FileType
    <2>1. Entries(rows) \in SUBSET [rowid : Nat \ {0}, word : 0 .. LastVersion]
      BY <1>8, EntryTyped
    <2>2. made \in SUBSET {"messages", "index"} /\ on \in {NoTable, "messages", "previous"}
          /\ version \in {Unmade, Earlier, SchemaVersion, Newer}
      OBVIOUS
    <2> HIDE DEF made, on
    <2> QED
      BY <1>3, <1>8, <2>1, <2>2, BlankRows DEF FileType
  <1>14. opener = [p \in Openers |-> [at |-> "away", command |-> "work"]] /\ stores = 0
    BY DEF CacheFileInit
  <1>15. opener \in OpenersType /\ stores \in 0 .. MaxStores /\ \A p \in Openers : opener[p].at = "away"
    BY <1>14, CacheFileAssumption DEF OpenersType
  <1>16. FileTyped
    BY <1>11, <1>12, <1>13, <1>15 DEF FileTyped, NoTable
  <1>17. FileMade
    BY <1>1, <1>9, <1>12, <1>15 DEF FileMade
  <1> QED
    BY <1>10, <1>11, <1>12, <1>16, <1>17 DEF FileInv, FileTold
-----------------------------------------------------------------------------
\* What the steps of a process do to what the processes are at.
LEMMA OpenerMoves ==
  ASSUME opener \in OpenersType, NEW p \in Openers,
         NEW where \in {"away", "opens", "without", "waits", "tables", "index", "triggers", "version", "open", "cleared"},
         opener' = [opener EXCEPT ![p].at = where]
  PROVE  /\ opener' \in OpenersType /\ opener'[p].at = where
         /\ \A q \in Openers \ {p} : opener'[q] = opener[q]
  BY DEF OpenersType

\* A step that leaves the file where a process may be.
LEMMA FileUnmoved ==
  ASSUME FileInv, opener' \in OpenersType, UNCHANGED << db, history, stores >>,
         \A q \in Openers :
           \/ opener'[q].at = opener[q].at
           \/ opener'[q].at \in {"away", "opens", "without", "tables"}
           \/ opener'[q].at = "waits" /\ db.version # Unmade
  PROVE  FileInv'
  <1>1. FileTyped'
    BY DEF FileInv, FileTyped
  <1>2. FileMade'
    BY DEF FileInv, FileMade
  <1>3. FileTold'
    BY DEF FileInv, FileTold
  <1> QED
    BY <1>1, <1>2, <1>3 DEF FileInv

\* A step of an open store: other rows, and other things told of them.
LEMMA RowsStored ==
  ASSUME FileInv, NEW p \in Openers, opener[p].at = "open",
         NEW rows \in StoredRows, SoundRows(rows), db' = Follow(db, rows),
         history' \in ToldType, SameRows(rows, history'),
         stores' \in 0 .. MaxStores, opener' \in OpenersType,
         \A q \in Openers : \/ opener'[q].at = opener[q].at
                            \/ q = p /\ opener'[q].at = "cleared"
  PROVE  FileInv'
  <1>1. db.version # Unmade /\ db.triggersOn = "messages" /\ db.made = {"messages", "index"}
    BY DEF FileInv, FileMade
  <1>2. /\ db' \in FileType /\ db'.messages = rows /\ db'.index = Entries(rows)
        /\ db'.version = db.version /\ db'.made = db.made /\ db'.previous = db.previous
        /\ db'.triggersOn = "messages"
    BY <1>1, FollowKeeps DEF FileInv, FileTyped, FileTold
  <1>3. FileTyped'
    BY <1>2 DEF FileInv, FileTyped
  <1>4. FileMade'
    BY <1>1, <1>2 DEF FileInv, FileMade
  <1>5. FileTold'
    BY <1>2 DEF FileTold
  <1> QED
    BY <1>3, <1>4, <1>5 DEF FileInv

LEMMA UpgradesStep ==
  ASSUME FileInv, NEW p \in Openers, Upgrades(p)
  PROVE  FileInv'
  <1>1. /\ opener[p].at = "waits" /\ opener' = [opener EXCEPT ![p].at = "open"]
        /\ UNCHANGED << history, stores >> /\ opener \in OpenersType
    BY DEF Upgrades, At, FileInv, FileTyped
  <1>2. opener' \in OpenersType /\ opener'[p].at = "open" /\ \A q \in Openers \ {p} : opener'[q] = opener[q]
    BY <1>1, OpenerMoves
  <1>3. db.version # Unmade
    BY <1>1 DEF FileInv, FileMade
  <1>4. CASE db' = db
    <2>1. FileTyped' /\ FileTold'
      BY <1>1, <1>2, <1>4 DEF FileInv, FileTyped, FileTold
    <2>2. FileMade'
      BY <1>2, <1>3, <1>4 DEF FileInv, FileMade
    <2> QED
      BY <2>1, <2>2 DEF FileInv
  <1>5. CASE db' = Upgraded(db)
    <2>1. db \in FileType /\ SoundRows(db.messages) /\ db.messages \in StoredRows
      BY DEF FileInv, FileTyped, FileTold, FileType
    <2>2. /\ db' \in FileType /\ db'.version = SchemaVersion
          /\ db'.made = {"messages", "index"} /\ db'.triggersOn = "messages"
          /\ db'.previous = NoRows /\ db'.messages = Replaced(db.messages)
          /\ db'.index = Entries(Replaced(db.messages))
      BY <1>5, <2>1, UpgradedFile
    <2>3. FileTyped'
      BY <1>1, <1>2, <2>2 DEF FileInv, FileTyped
    <2>4. FileMade'
      <3>1. db'.version # Unmade
        BY <2>2 DEF SchemaVersion, Unmade
      <3> QED
        BY <2>2, <3>1 DEF FileMade
    <2>5. FileTold'
      <3>1. SameRows(Replaced(db.messages), history)
        BY <2>1, ReplacedAreSame DEF FileInv, FileTold, SameRows
      <3> QED
        BY <1>1, <2>1, <2>2, <3>1, ReplacedAreSame DEF FileTold
    <2> QED
      BY <2>3, <2>4, <2>5 DEF FileInv
  <1> QED
    BY <1>4, <1>5 DEF Upgrades

\* The statements of a new file, each of which leaves the rows alone.
LEMMA StatementStep ==
  ASSUME FileInv, NEW g \in FileType, db' = g, RowsKept(db, g), UNCHANGED << history, stores >>,
         opener' \in OpenersType, g.triggersOn # "previous", FileMade'
  PROVE  FileInv'
  <1>1. FileTyped'
    BY DEF FileInv, FileTyped, RowsKept
  <1>2. FileTold'
    BY DEF FileInv, FileTold, RowsKept
  <1> QED
    BY <1>1, <1>2 DEF FileInv

LEMMA MakesStep ==
  ASSUME FileInv, NEW p \in Openers, Makes(p)
  PROVE  FileInv'
  <1>1. db \in FileType /\ db.triggersOn # "previous" /\ opener \in OpenersType /\ UNCHANGED << history, stores >>
    BY DEF Makes, FileInv, FileTyped
  <1>2. db.made \subseteq {"messages", "index"} /\ db.triggersOn \in {NoTable, "messages"}
    BY <1>1 DEF FileType
  <1>3. CASE opener[p].at = "tables" /\ db' = CreateTables(db) /\ opener' = [opener EXCEPT ![p].at = "index"]
    <2>1. opener' \in OpenersType /\ opener'[p].at = "index" /\ \A q \in Openers \ {p} : opener'[q] = opener[q]
      BY <1>1, <1>3, OpenerMoves
    <2>2. /\ db' \in FileType /\ db'.made = db.made \cup {"messages"} /\ db'.triggersOn = db.triggersOn
          /\ db'.version = db.version /\ RowsKept(db, db')
      BY <1>1, <1>3, StatementsMade, StatementsKeep
    <2>3. FileMade'
      BY <1>2, <2>1, <2>2 DEF FileInv, FileMade, RowsKept
    <2> QED
      BY <1>1, <2>1, <2>2, <2>3, StatementStep
  <1>4. CASE opener[p].at = "index" /\ db' = CreateIndex(db) /\ opener' = [opener EXCEPT ![p].at = "triggers"]
    <2>1. opener' \in OpenersType /\ opener'[p].at = "triggers" /\ \A q \in Openers \ {p} : opener'[q] = opener[q]
      BY <1>1, <1>4, OpenerMoves
    <2>2. /\ db' \in FileType /\ db'.made = db.made \cup {"index"} /\ db'.triggersOn = db.triggersOn
          /\ db'.version = db.version /\ RowsKept(db, db')
      BY <1>1, <1>4, StatementsMade, StatementsKeep
    <2>3. FileMade'
      BY <1>2, <1>4, <2>1, <2>2 DEF FileInv, FileMade, RowsKept
    <2> QED
      BY <1>1, <2>1, <2>2, <2>3, StatementStep
  <1>5. CASE opener[p].at = "triggers" /\ db' = CreateTriggers(db) /\ opener' = [opener EXCEPT ![p].at = "version"]
    <2>1. opener' \in OpenersType /\ opener'[p].at = "version" /\ \A q \in Openers \ {p} : opener'[q] = opener[q]
      BY <1>1, <1>5, OpenerMoves
    <2>2. /\ db' \in FileType /\ db'.made = db.made /\ db'.triggersOn = "messages"
          /\ db'.version = db.version /\ RowsKept(db, db')
      BY <1>1, <1>2, <1>5, StatementsMade, StatementsKeep
    <2>3. FileMade'
      BY <1>2, <1>5, <2>1, <2>2 DEF FileInv, FileMade, RowsKept
    <2> QED
      BY <1>1, <2>1, <2>2, <2>3, StatementStep
  <1>6. CASE opener[p].at = "version" /\ db' = SetVersion(db) /\ opener' = [opener EXCEPT ![p].at = "open"]
    <2>1. opener' \in OpenersType /\ opener'[p].at = "open" /\ \A q \in Openers \ {p} : opener'[q] = opener[q]
      BY <1>1, <1>6, OpenerMoves
    <2>2. /\ db' \in FileType /\ db'.made = db.made /\ db'.triggersOn = db.triggersOn
          /\ db'.version # Unmade /\ RowsKept(db, db')
      <3>1. /\ SetVersion(db) \in FileType /\ SetVersion(db).made = db.made
            /\ SetVersion(db).triggersOn = db.triggersOn /\ SetVersion(db).version = SchemaVersion
        BY <1>1, StatementsMade
      <3>2. RowsKept(db, SetVersion(db))
        BY <1>1, StatementsKeep
      <3> QED
        BY <1>6, <3>1, <3>2 DEF SchemaVersion, Unmade
    <2>3. FileMade'
      BY <1>2, <1>6, <2>1, <2>2 DEF FileInv, FileMade
    <2> QED
      BY <1>1, <2>1, <2>2, <2>3, StatementStep
  <1> QED
    BY <1>3, <1>4, <1>5, <1>6 DEF Makes, At

LEMMA PutStep ==
  ASSUME FileInv, NEW p \in Openers, NEW m \in CacheIds, NEW version \in 0 .. LastVersion,
         PutMessage(p, m, version)
  PROVE  FileInv'
  <1> DEFINE rows == db.messages
             put == IF m \notin RowsIn(rows) THEN [rowid |-> NextRowId(rows), version |-> version, heard |-> FALSE]
                    ELSE IF version >= rows[m].version THEN [rows[m] EXCEPT !.version = version] ELSE rows[m]
             t == [[history[m] EXCEPT !.held = TRUE] EXCEPT !.version = Max({@, version})]
  <1>1. /\ rows \in StoredRows /\ SoundRows(rows) /\ SameRows(rows, history) /\ history \in ToldType
        /\ opener \in OpenersType /\ stores \in 0 .. MaxStores
    BY DEF FileInv, FileTyped, FileTold, FileType
  <1>2. /\ opener[p].at = "open" /\ stores < MaxStores /\ stores' = stores + 1 /\ opener' = opener
        /\ db' = Follow(db, [rows EXCEPT ![m] = put])
        /\ history' = [history EXCEPT ![m].held = TRUE, ![m].version = Max({@, version})]
    BY DEF PutMessage, Writes
  <1>3. rows[m] \in MessageRow /\ history[m] \in ToldOf
    BY <1>1 DEF StoredRows, ToldType, ToldOf
  <1>4. /\ rows[m].version = history[m].version /\ rows[m].heard = history[m].heard
        /\ history[m].version \in Nat /\ version \in Nat /\ rows[m].version \in Nat
    BY <1>1, <1>3, CacheFileAssumption DEF SameRows, MessageRow
  <1>5. Max({history[m].version, version}) = IF version >= history[m].version THEN version ELSE history[m].version
    BY <1>4, MaxOfTwo
  <1>6. /\ t \in ToldOf /\ t.held = TRUE /\ t.heard = history[m].heard
        /\ t.version = IF version >= history[m].version THEN version ELSE history[m].version
    <2> DEFINE u == [history[m] EXCEPT !.held = TRUE]
    <2>1. u \in ToldOf /\ u.held = TRUE /\ u.heard = history[m].heard /\ u.version = history[m].version
      BY <1>3 DEF ToldOf
    <2>2. t = [u EXCEPT !.version = IF version >= history[m].version THEN version ELSE history[m].version]
      BY <1>5, <2>1 DEF ToldOf
    <2>3. (IF version >= history[m].version THEN version ELSE history[m].version) \in 0 .. LastVersion
      BY <1>3 DEF ToldOf
    <2> HIDE DEF u, t
    <2> QED
      BY <2>1, <2>2, <2>3 DEF ToldOf
  <1>7. history' = [history EXCEPT ![m] = t]
    BY <1>1, <1>2 DEF ToldType
  <1>8. /\ put \in MessageRow /\ put.rowid # 0
        /\ put.rowid = rows[m].rowid \/ \A n \in CacheIds : rows[n].rowid < put.rowid
        /\ put.version = t.version /\ put.heard = t.heard
    <2> HIDE DEF t, rows
    <2>1. CASE m \notin RowsIn(rows)
      <3>1. NextRowId(rows) \in Nat \ {0} /\ \A n \in CacheIds : rows[n].rowid < NextRowId(rows)
        BY <1>1, NextIsNew
      <3>2. rows[m].version = 0 /\ rows[m].heard = FALSE
        BY <1>1, <2>1 DEF RowsIn, SoundRows
      <3>3. put = [rowid |-> NextRowId(rows), version |-> version, heard |-> FALSE]
        BY <2>1
      <3> HIDE DEF put
      <3>4. put \in MessageRow /\ put.rowid = NextRowId(rows) /\ put.version = version /\ put.heard = FALSE
        BY <3>1, <3>3 DEF MessageRow
      <3>5. history[m].version = 0 /\ history[m].heard = FALSE
        BY <1>4, <3>2
      <3>6. t.version = version /\ t.heard = FALSE
        BY <1>4, <1>6, <3>5
      <3>7. \A n \in CacheIds : rows[n].rowid < put.rowid
        BY <3>1, <3>4
      <3> QED
        BY <3>1, <3>4, <3>6, <3>7
    <2>2. CASE m \in RowsIn(rows) /\ version >= rows[m].version
      <3>1. put = [rows[m] EXCEPT !.version = version] /\ rows[m].rowid # 0
        BY <2>2 DEF RowsIn
      <3> HIDE DEF put
      <3>2. put \in MessageRow /\ put.rowid = rows[m].rowid /\ put.version = version /\ put.heard = rows[m].heard
        BY <1>3, <3>1 DEF MessageRow
      <3>3. version >= history[m].version /\ t.version = version
        BY <1>4, <1>6, <2>2
      <3> QED
        BY <1>4, <1>6, <3>1, <3>2, <3>3
    <2>3. CASE m \in RowsIn(rows) /\ ~(version >= rows[m].version)
      <3>1. put = rows[m] /\ rows[m].rowid # 0
        BY <2>3 DEF RowsIn
      <3> HIDE DEF put
      <3> QED
        BY <1>3, <1>4, <1>6, <2>3, <3>1
    <2> QED
      BY <2>1, <2>2, <2>3
  <1> HIDE DEF put, t, rows
  <1>9. /\ [rows EXCEPT ![m] = put] \in StoredRows /\ SoundRows([rows EXCEPT ![m] = put])
        /\ history' \in ToldType /\ SameRows([rows EXCEPT ![m] = put], history')
    <2>1. put.rowid \in {0, rows[m].rowid} \/ \A n \in CacheIds : rows[n].rowid < put.rowid
      BY <1>8
    <2>2. (put.rowid # 0) = t.held
      BY <1>6, <1>8
    <2> QED
      BY <1>1, <1>6, <1>7, <1>8, <2>1, <2>2, RowWritten
  <1>10. stores' \in 0 .. MaxStores
    BY <1>1, <1>2, CacheFileAssumption
  <1> QED
    BY <1>1, <1>2, <1>9, <1>10, RowsStored

LEMMA ForgetStep ==
  ASSUME FileInv, NEW p \in Openers, NEW m \in CacheIds, ForgetRow(p, m)
  PROVE  FileInv'
  <1> DEFINE rows == db.messages
  <1>1. /\ rows \in StoredRows /\ SoundRows(rows) /\ SameRows(rows, history) /\ history \in ToldType
        /\ opener \in OpenersType /\ stores \in 0 .. MaxStores
    BY DEF FileInv, FileTyped, FileTold, FileType
  <1>2. /\ opener[p].at = "open" /\ stores < MaxStores /\ stores' = stores + 1 /\ opener' = opener
        /\ db' = Follow(db, [rows EXCEPT ![m] = NoMessage])
        /\ history' = [history EXCEPT ![m] = NothingTold]
    BY DEF ForgetRow, Writes
  <1>3. /\ NoMessage \in MessageRow /\ NoMessage.rowid = 0 /\ NoMessage.version = 0 /\ NoMessage.heard = FALSE
        /\ NothingTold \in ToldOf /\ NothingTold.version = 0 /\ NothingTold.heard = FALSE
        /\ NothingTold.held = FALSE
    BY BlankRows, CacheFileAssumption DEF NoMessage, NothingTold, ToldOf
  <1> HIDE DEF rows
  <1>4. /\ [rows EXCEPT ![m] = NoMessage] \in StoredRows /\ SoundRows([rows EXCEPT ![m] = NoMessage])
        /\ history' \in ToldType /\ SameRows([rows EXCEPT ![m] = NoMessage], history')
    <2>1. (NoMessage.rowid # 0) = NothingTold.held
      BY <1>3
    <2> QED
      BY <1>1, <1>2, <1>3, <2>1, RowWritten
  <1>5. stores' \in 0 .. MaxStores
    BY <1>1, <1>2, CacheFileAssumption
  <1> QED
    BY <1>1, <1>2, <1>4, <1>5, RowsStored

LEMMA TranscriptStep ==
  ASSUME FileInv, NEW p \in Openers, NEW m \in CacheIds, KeepTranscript(p, m)
  PROVE  FileInv'
  <1> DEFINE rows == db.messages
             row == [rows[m] EXCEPT !.heard = TRUE]
             t == [history[m] EXCEPT !.heard = TRUE]
  <1>1. /\ rows \in StoredRows /\ SoundRows(rows) /\ SameRows(rows, history) /\ history \in ToldType
        /\ opener \in OpenersType /\ stores \in 0 .. MaxStores
    BY DEF FileInv, FileTyped, FileTold, FileType
  <1>2. /\ opener[p].at = "open" /\ stores < MaxStores /\ stores' = stores + 1 /\ opener' = opener
        /\ db' = Follow(db, [rows EXCEPT ![m].heard = TRUE])
        /\ history' = [history EXCEPT ![m].heard = TRUE] /\ m \in RowsIn(rows)
    BY DEF KeepTranscript, Writes
  <1>3. /\ [rows EXCEPT ![m].heard = TRUE] = [rows EXCEPT ![m] = row]
        /\ history' = [history EXCEPT ![m] = t]
    BY <1>1, <1>2 DEF StoredRows, ToldType
  <1>4. /\ row \in MessageRow /\ row.rowid = rows[m].rowid /\ row.version = rows[m].version /\ row.heard = TRUE
        /\ t \in ToldOf /\ t.version = history[m].version /\ t.heard = TRUE /\ t.held = history[m].held
    BY <1>1 DEF StoredRows, ToldType, MessageRow, ToldOf
  <1> HIDE DEF rows, row, t
  <1>5. /\ [rows EXCEPT ![m] = row] \in StoredRows /\ SoundRows([rows EXCEPT ![m] = row])
        /\ history' \in ToldType /\ SameRows([rows EXCEPT ![m] = row], history')
    <2>1. row.version = t.version /\ (row.rowid # 0) = t.held /\ row.rowid # 0
      BY <1>1, <1>2, <1>4 DEF SameRows, RowsIn
    <2> QED
      BY <1>1, <1>3, <1>4, <2>1, RowWritten
  <1>6. stores' \in 0 .. MaxStores
    BY <1>1, <1>2, CacheFileAssumption
  <1>7. db' = Follow(db, [rows EXCEPT ![m] = row])
    BY <1>2, <1>3
  <1> QED
    BY <1>1, <1>2, <1>5, <1>6, <1>7, RowsStored

LEMMA ClearsStep ==
  ASSUME FileInv, NEW p \in Openers, Clears(p)
  PROVE  FileInv'
  <1>1. /\ opener[p].at = "open" /\ opener' = [opener EXCEPT ![p].at = "cleared"] /\ opener \in OpenersType
        /\ db' = Follow(db, NoRows) /\ history' = [m \in CacheIds |-> NothingTold]
        /\ stores' = stores /\ stores \in 0 .. MaxStores
    BY DEF Clears, At, FileInv, FileTyped
  <1>2. opener' \in OpenersType /\ opener'[p].at = "cleared" /\ \A q \in Openers \ {p} : opener'[q] = opener[q]
    BY <1>1, OpenerMoves
  <1>3. /\ NothingTold \in ToldOf /\ NothingTold.version = 0 /\ NothingTold.heard = FALSE
        /\ NothingTold.held = FALSE
    BY CacheFileAssumption DEF NothingTold, ToldOf
  <1>4. history' \in ToldType /\ SameRows(NoRows, history')
    <2>1. \A m \in CacheIds : history'[m] = NothingTold
      BY <1>1
    <2>2. history' \in ToldType
      BY <1>1, <1>3 DEF ToldType, ToldOf
    <2>3. ASSUME NEW m \in CacheIds
          PROVE  /\ NoRows[m].version = NothingTold.version /\ NoRows[m].heard = NothingTold.heard
                 /\ (NoRows[m].rowid # 0) = NothingTold.held
      BY <1>3, BlankRows
    <2> QED
      BY <2>1, <2>2, <2>3 DEF SameRows
  <1>5. NoRows \in StoredRows /\ SoundRows(NoRows)
    BY BlankRows
  <1> QED
    BY <1>1, <1>2, <1>4, <1>5, RowsStored

LEMMA FileInvStep == FileInv /\ [CacheFileNext]_cacheFileVars => FileInv'
  <1> SUFFICES ASSUME FileInv, [CacheFileNext]_cacheFileVars PROVE FileInv'
    OBVIOUS
  <1>1. opener \in OpenersType
    BY DEF FileInv, FileTyped
  <1>2. CASE UNCHANGED cacheFileVars
    BY <1>1, <1>2, FileUnmoved DEF cacheFileVars
  <1>3. CASE NewerUpgrades
    <2>1. /\ db.version # Unmade /\ db' = [db EXCEPT !.version = Newer] /\ UNCHANGED << opener, history, stores >>
      BY <1>3 DEF NewerUpgrades, Unmade, Earlier, SchemaVersion
    <2>2. db \in FileType
      BY DEF FileInv, FileTyped
    <2>3. /\ db' \in FileType /\ db'.version = Newer /\ db'.made = db.made /\ db'.triggersOn = db.triggersOn
          /\ RowsKept(db, db')
      BY <2>1, <2>2 DEF FileType, RowsKept
    <2>4. FileMade'
      BY <2>1, <2>3 DEF FileInv, FileMade, Newer, Unmade
    <2>5. db.triggersOn # "previous"
      BY DEF FileInv, FileTyped
    <2> QED
      BY <1>1, <2>1, <2>3, <2>4, <2>5, StatementStep
  <1>4. ASSUME NEW p \in Openers, NEW command \in {"work", "clear"}, Opens(p, command) PROVE FileInv'
    <2>1. /\ opener' = [opener EXCEPT ![p] = [at |-> "opens", command |-> command]]
          /\ UNCHANGED << db, history, stores >>
      BY <1>4 DEF Opens
    <2>2. opener' \in OpenersType /\ opener'[p].at = "opens" /\ \A q \in Openers \ {p} : opener'[q] = opener[q]
      BY <1>1, <2>1 DEF OpenersType
    <2> QED
      BY <2>1, <2>2, FileUnmoved
  <1>5. ASSUME NEW p \in Openers, Leaves(p) PROVE FileInv'
    <2>1. /\ opener' = [opener EXCEPT ![p] = [at |-> "away", command |-> "work"]]
          /\ UNCHANGED << db, history, stores >>
      BY <1>5 DEF Leaves
    <2>2. opener' \in OpenersType /\ opener'[p].at = "away" /\ \A q \in Openers \ {p} : opener'[q] = opener[q]
      BY <1>1, <2>1 DEF OpenersType
    <2> QED
      BY <2>1, <2>2, FileUnmoved
  <1>6. ASSUME NEW p \in Openers, ReadsVersion(p) PROVE FileInv'
    <2>1. PICK where \in {"without", "waits", "tables"} :
            opener' = [opener EXCEPT ![p].at = where] /\ (where = "waits" => db.version # Unmade)
      <3> DEFINE w == CASE db.version > SchemaVersion -> "without"
                        [] db.version = Earlier -> "waits"
                        [] db.version \in {Unmade, SchemaVersion} -> "tables"
      <3>1. opener' = [opener EXCEPT ![p].at = w]
        BY <1>6 DEF ReadsVersion, At
      <3>2. db.version \in {Unmade, Earlier, SchemaVersion, Newer}
        BY DEF FileInv, FileTyped, FileType
      <3>3. w \in {"without", "waits", "tables"} /\ (w = "waits" => db.version # Unmade)
        BY <3>2 DEF Unmade, Earlier, SchemaVersion, Newer
      <3> HIDE DEF w
      <3> QED
        BY <3>1, <3>3
    <2>2. opener' \in OpenersType /\ opener'[p].at = where /\ \A q \in Openers \ {p} : opener'[q] = opener[q]
      BY <1>1, <2>1, OpenerMoves
    <2>3. UNCHANGED << db, history, stores >>
      BY <1>6 DEF ReadsVersion
    <2> QED
      BY <2>1, <2>2, <2>3, FileUnmoved
  <1>7. ASSUME NEW p \in Openers, TooBusy(p) PROVE FileInv'
    <2>1. opener' = [opener EXCEPT ![p].at = "without"] /\ UNCHANGED << db, history, stores >>
      BY <1>7 DEF TooBusy, At
    <2>2. opener' \in OpenersType /\ opener'[p].at = "without" /\ \A q \in Openers \ {p} : opener'[q] = opener[q]
      BY <1>1, <2>1, OpenerMoves
    <2> QED
      BY <2>1, <2>2, FileUnmoved
  <1> QED
    BY <1>2, <1>3, <1>4, <1>5, <1>6, <1>7, UpgradesStep, MakesStep, ClearsStep, PutStep, ForgetStep, TranscriptStep
    DEF CacheFileNext

LEMMA FileInvHolds == CacheFileSpec => []FileInv
  BY FileInvInit, FileInvStep, PTL DEF CacheFileSpec

(***************************************************************************)
(* Every variable of the file and of the processes at it keeps its type.    *)
(***************************************************************************)
THEOREM FileTypeCorrect == CacheFileSpec => []CacheFileTypeOK
  <1>1. FileInv => CacheFileTypeOK
    BY DEF FileInv, FileTyped, CacheFileTypeOK, FileType, OpenersType, ToldType, StoredRows
  <1> QED
    BY <1>1, FileInvHolds, PTL

\* A search of an index that is that of the rows finds those that have the word.
LEMMA SearchFinds ==
  ASSUME FileInv, NEW word
  PROVE  Search(word) = { m \in CacheIds : db.messages[m].rowid # 0 /\ db.messages[m].version = word }
  <1> DEFINE rows == db.messages
  <1>1. rows \in StoredRows /\ SoundRows(rows) /\ db.index = Entries(rows)
    BY DEF FileInv, FileTyped, FileTold, FileType
  <1> HIDE DEF rows
  <1>2. ASSUME NEW m \in RowsIn(rows), [rowid |-> rows[m].rowid, word |-> word] \in Entries(rows)
        PROVE  rows[m].version = word
    <2>1. PICK n \in RowsIn(rows) : [rowid |-> rows[m].rowid, word |-> word] = EntryOf(rows[n])
      BY <1>2 DEF Entries
    <2>2. rows[m].rowid = rows[n].rowid /\ word = rows[n].version
      BY <2>1 DEF EntryOf
    <2> QED
      BY <1>1, <2>2 DEF SoundRows
  <1>3. ASSUME NEW m \in RowsIn(rows), rows[m].version = word
        PROVE  [rowid |-> rows[m].rowid, word |-> word] \in Entries(rows)
    BY <1>3 DEF Entries, EntryOf
  <1>4. Search(word) = { m \in RowsIn(rows) : [rowid |-> rows[m].rowid, word |-> word] \in Entries(rows) }
    BY <1>1 DEF Search, rows
  <1> QED
    BY <1>2, <1>3, <1>4 DEF RowsIn, rows

(***************************************************************************)
(* For any number of processes, messages and edits, and whoever dies at     *)
(* whichever statement: a file that is open holds what was told to it, and  *)
(* a search of it finds every message that has the word and no other, after *)
(* creations that crossed, an upgrade, or one by a newer max beside it.     *)
(***************************************************************************)
THEOREM OpenFileIsTrue == CacheFileSpec => []FileAnswersTruly
  <1>1. FileInv => FileAnswersTruly
    <2> SUFFICES ASSUME FileInv, NEW p \in Openers, opener[p].at \in {"open", "cleared"}
                 PROVE  /\ db.made = {"messages", "index"}
                        /\ \A m \in CacheIds :
                             [version |-> db.messages[m].version, heard |-> db.messages[m].heard,
                              held |-> db.messages[m].rowid # 0] = history[m]
                        /\ \A word \in 0 .. LastVersion :
                             Search(word) = { m \in CacheIds : history[m].held /\ history[m].version = word }
      BY DEF FileAnswersTruly
    <2>1. db.made = {"messages", "index"}
      BY DEF FileInv, FileMade
    <2>2. ASSUME NEW m \in CacheIds
          PROVE  /\ db.messages[m].version = history[m].version /\ db.messages[m].heard = history[m].heard
                 /\ (db.messages[m].rowid # 0) = history[m].held /\ history[m] \in ToldOf
      BY DEF FileInv, FileTold, FileTyped, SameRows, ToldType, ToldOf
    <2>3. ASSUME NEW m \in CacheIds
          PROVE  [version |-> db.messages[m].version, heard |-> db.messages[m].heard,
                  held |-> db.messages[m].rowid # 0] = history[m]
      <3>1. [version |-> history[m].version, heard |-> history[m].heard, held |-> history[m].held] = history[m]
        BY <2>2 DEF ToldOf
      <3> QED
        BY <2>2, <3>1
    <2>4. ASSUME NEW word \in 0 .. LastVersion
          PROVE  Search(word) = { m \in CacheIds : history[m].held /\ history[m].version = word }
      <3>1. \A m \in CacheIds : history[m].held <=> db.messages[m].rowid # 0
        BY <2>2
      <3>2. \A m \in CacheIds : history[m].version = db.messages[m].version
        BY <2>2
      <3>3. Search(word) = { m \in CacheIds : db.messages[m].rowid # 0 /\ db.messages[m].version = word }
        BY SearchFinds
      <3> QED
        BY <3>1, <3>2, <3>3
    <2> QED
      BY <2>1, <2>3, <2>4
  <1> QED
    BY <1>1, FileInvHolds, PTL
-----------------------------------------------------------------------------
(***************************************************************************)
(* The points of inbox and review (InboxReview).  What a run has still to   *)
(* read, has read or could not reach accounts for every message up to the   *)
(* newest its login spoke of; the point it saves is no later.               *)
(***************************************************************************)
ChatOf(sent, c) == { m \in 1 .. Len(sent) : sent[m] = c }

Seen == shown \cup pointedAt \cup buried
Covered == reviewed \cup outrun

\* What a run starts from, or is about to save, its owner has been shown.
StartsWell(job, seen, covered) ==
  /\ job.at = "login" => Theirs(1 .. job.state) \subseteq seen
  /\ job.at # "save" /\ job.kind = "inbox" => Theirs(1 .. job.since) \subseteq seen
  /\ job.kind = "review" => 1 .. job.since \subseteq covered
  /\ job.at = "save" => Theirs(1 .. job.until) \subseteq seen

Bounded(job, n) ==
  /\ job.state <= n /\ job.since <= n /\ job.cut <= n /\ job.until <= n
  /\ job.at = "read" => /\ job.since <= job.cut /\ job.until <= job.cut
                        /\ job.since <= job.from /\ job.from <= job.cut

\* Nothing between the point an inbox starts from and the cut is lost sight of.
InboxReadsAll(job, sent) ==
  job.at = "read" /\ job.kind = "inbox" =>
    \A m \in Theirs(1 .. job.cut) :
      job.since < m => sent[m] \in ToSet(job.todo) \/ m \in job.got \cup job.hints \cup job.over

ReviewReadsAll(job, sent) ==
  job.at = "read" /\ job.kind = "review" /\ ~ job.more =>
    \A m \in 1 .. job.cut :
      job.since < m => sent[m] \in ToSet(job.todo) \/ m \in job.got \cup job.over

\* The pages of the chat under review: all up to the last message of the last page, which is the
\* first page, and full.
PagesRead(job, sent) ==
  /\ job.at # "read" => job.part = {}
  /\ job.at = "read" /\ job.kind = "review" /\ job.todo # << >> =>
       /\ job.part = { m \in ChatOf(sent, Head(job.todo)) : job.since < m /\ m <= job.from }
       /\ job.from # job.since =>
            /\ job.from \in ChatOf(sent, Head(job.todo))
            /\ job.since \notin ChatOf(sent, Head(job.todo))
            /\ ReviewPage <= Cardinality(job.part)
            /\ Cardinality(job.part) < PerChat

JobTrue(job, sent, seen, covered) ==
  /\ StartsWell(job, seen, covered)
  /\ Bounded(job, Len(sent))
  /\ InboxReadsAll(job, sent)
  /\ ReviewReadsAll(job, sent)
  /\ PagesRead(job, sent)

InboxTyped == log \in Seq(Chats) /\ InboxTypeOK

InboxInv ==
  /\ InboxTyped
  /\ saved <= Len(log) /\ point <= Len(log)
  /\ Theirs(1 .. saved) \subseteq Seen
  /\ 1 .. point \subseteq Covered
  /\ \A r \in Runners : JobTrue(errand[r], log, Seen, Covered)

\* The oldest of a set of messages.
LEMMA PartsFinite ==
  ASSUME NEW N \in Nat, NEW S, S \subseteq 1 .. N
  PROVE  IsFiniteSet(S) /\ Cardinality(S) \in Nat /\ \A T \in SUBSET S : IsFiniteSet(T) /\ Cardinality(T) \in Nat /\ Cardinality(T) <= Cardinality(S)
  <1>1. IsFiniteSet(1 .. N)
    BY FS_Interval
  <1>2. IsFiniteSet(S)
    BY <1>1, FS_Subset
  <1>3. Cardinality(S) \in Nat
    BY <1>2, FS_CardinalityType
  <1>4. ASSUME NEW T \in SUBSET S PROVE IsFiniteSet(T) /\ Cardinality(T) \in Nat /\ Cardinality(T) <= Cardinality(S)
    <2>1. IsFiniteSet(T) /\ Cardinality(T) <= Cardinality(S)
      BY <1>2, FS_Subset
    <2> QED
      BY <2>1, FS_CardinalityType
  <1> QED
    BY <1>2, <1>3, <1>4

Below(S, m) == { k \in S : k < m }

LEMMA OldestBelow ==
  ASSUME NEW n, NEW S
  PROVE  OldestIn(n, S) = { m \in S : Cardinality(Below(S, m)) < n }
  BY DEF OldestIn, Below

LEMMA BelowCounts ==
  ASSUME NEW N \in Nat, NEW S, S \subseteq 1 .. N, NEW m
  PROVE  /\ IsFiniteSet(Below(S, m)) /\ Cardinality(Below(S, m)) \in Nat
         /\ \A T \in SUBSET S : Cardinality(Below(T, m)) \in Nat /\ Cardinality(Below(T, m)) <= Cardinality(Below(S, m))
         /\ \A k \in S : k < m /\ m \in Nat => Cardinality(Below(S, k)) < Cardinality(Below(S, m))
  <1>1. Below(S, m) \subseteq 1 .. N /\ Below(S, m) \subseteq S
    BY DEF Below
  <1>2. IsFiniteSet(Below(S, m)) /\ Cardinality(Below(S, m)) \in Nat
    BY <1>1, PartsFinite
  <1>3. ASSUME NEW T \in SUBSET S
        PROVE  Cardinality(Below(T, m)) \in Nat /\ Cardinality(Below(T, m)) <= Cardinality(Below(S, m))
    <2>1. Below(T, m) \in SUBSET Below(S, m)
      BY DEF Below
    <2> QED
      BY <1>1, <2>1, PartsFinite
  <1>4. ASSUME NEW k \in S, k < m, m \in Nat PROVE Cardinality(Below(S, k)) < Cardinality(Below(S, m))
    <2>0. k \in Nat /\ m \in Nat /\ S \subseteq Nat
      <3>1. k \in 1 .. N /\ S \subseteq 1 .. N
        OBVIOUS
      <3> QED
        BY <1>4, <3>1
    <2>1. Below(S, k) \in SUBSET Below(S, m) /\ k \in Below(S, m) /\ k \notin Below(S, k)
      <3>1. \A j \in S : j < k => j < m
        BY <1>4, <2>0
      <3>2. k \in Below(S, m) /\ ~(k < k)
        BY <1>4, <2>0 DEF Below
      <3> QED
        BY <3>1, <3>2 DEF Below
    <2>2. Below(S, k) \cup {k} \in SUBSET Below(S, m)
      BY <2>1
    <2>3. Cardinality(Below(S, k) \cup {k}) <= Cardinality(Below(S, m)) /\ IsFiniteSet(Below(S, k)) /\ Cardinality(Below(S, k)) \in Nat
      BY <1>1, <2>1, <2>2, PartsFinite
    <2>4. Cardinality(Below(S, k) \cup {k}) = Cardinality(Below(S, k)) + 1
      BY <2>1, <2>3, FS_AddElement
    <2> QED
      BY <1>2, <2>3, <2>4
  <1> QED
    BY <1>2, <1>3, <1>4

LEMMA OldestTogether ==
  ASSUME NEW N \in Nat, NEW S, S \subseteq 1 .. N, NEW n \in Nat,
         NEW x \in OldestIn(n, S), NEW k \in S, k <= x
  PROVE  k \in OldestIn(n, S)
  <1>1. x \in S /\ Cardinality(Below(S, x)) < n
    BY OldestBelow
  <1>2. Cardinality(Below(S, k)) <= Cardinality(Below(S, x)) /\ Cardinality(Below(S, k)) \in Nat /\ Cardinality(Below(S, x)) \in Nat
    <2>1. Cardinality(Below(S, k)) \in Nat /\ Cardinality(Below(S, x)) \in Nat
      BY BelowCounts
    <2>2. CASE k = x
      BY <2>1, <2>2
    <2>3. CASE k < x
      <3>1. x \in Nat
        BY <1>1
      <3>2. Cardinality(Below(S, k)) < Cardinality(Below(S, x))
        BY <2>3, <3>1, BelowCounts
      <3> QED
        BY <2>1, <3>2
    <2>4. k \in Nat /\ x \in Nat
      BY <1>1
    <2> QED
      BY <2>2, <2>3, <2>4
  <1>3. Cardinality(Below(S, k)) < n
    BY <1>1, <1>2
  <1> QED
    BY <1>3, OldestBelow

LEMMA OldestOfOldest ==
  ASSUME NEW N \in Nat, NEW S, S \subseteq 1 .. N, NEW n \in Nat, NEW k \in Nat, n <= k
  PROVE  OldestIn(n, OldestIn(k, S)) = OldestIn(n, S)
  <1>1. ASSUME NEW m \in OldestIn(k, S) PROVE Below(OldestIn(k, S), m) = Below(S, m)
    <2>1. \A j \in S : j < m => j \in OldestIn(k, S)
      <3> SUFFICES ASSUME NEW j \in S, j < m PROVE j \in OldestIn(k, S)
        OBVIOUS
      <3>1. m \in S
        BY OldestBelow
      <3>2. m \in 1 .. N /\ j \in 1 .. N
        BY <3>1
      <3>3. j <= m
        BY <3>2
      <3> QED
        BY <3>3, OldestTogether
    <2>2. OldestIn(k, S) \subseteq S
      BY OldestBelow
    <2> QED
      BY <2>1, <2>2 DEF Below
  <1>2. OldestIn(n, S) \subseteq OldestIn(k, S)
    <2> SUFFICES ASSUME NEW m \in OldestIn(n, S) PROVE m \in OldestIn(k, S)
      OBVIOUS
    <2>1. m \in S /\ Cardinality(Below(S, m)) < n
      BY OldestBelow
    <2>2. Cardinality(Below(S, m)) \in Nat
      BY BelowCounts
    <2> QED
      BY <2>1, <2>2, OldestBelow
  <1>3. OldestIn(k, S) \subseteq S
    BY OldestBelow
  <1>4. ASSUME NEW m \in OldestIn(k, S) PROVE m \in OldestIn(n, OldestIn(k, S)) <=> m \in OldestIn(n, S)
    BY <1>1, <1>3, <1>4, OldestBelow
  <1>5. OldestIn(n, OldestIn(k, S)) \subseteq OldestIn(k, S)
    BY OldestBelow
  <1> QED
    BY <1>2, <1>4, <1>5

\* A page that does not hold everything is full, and one more message would have made it longer.
LEMMA PageFull ==
  ASSUME NEW N \in Nat, NEW S, S \subseteq 1 .. N, NEW n \in Nat \ {0}, NEW m \in S \ OldestIn(n, S)
  PROVE  n <= Cardinality(OldestIn(n, S)) /\ OldestIn(n, S) # {} /\ OldestIn(n + 1, S) # OldestIn(n, S)
  <1> DEFINE Rest == S \ OldestIn(n, S)
  <1>1. PICK x \in Rest : \A k \in Rest : x <= k
    <2>1. m \in Rest
      OBVIOUS
    <2>2. ASSUME NEW k \in Rest PROVE k \in Nat
      <3>1. k \in 1 .. N
        OBVIOUS
      <3> QED
        BY <3>1
    <2> HIDE DEF Rest
    <2> QED
      BY <2>1, <2>2, LeastOfNat
  <1>2. x \in S /\ x \in Nat /\ Cardinality(Below(S, x)) \in Nat /\ n <= Cardinality(Below(S, x))
    <2>1. x \in S /\ x \in Nat
      OBVIOUS
    <2>2. Cardinality(Below(S, x)) \in Nat
      BY BelowCounts
    <2>3. ~(Cardinality(Below(S, x)) < n)
      BY <2>1, OldestBelow
    <2> QED
      BY <2>1, <2>2, <2>3
  <1>3. Below(S, x) \in SUBSET OldestIn(n, S)
    <2> SUFFICES ASSUME NEW k \in Below(S, x) PROVE k \in OldestIn(n, S)
      OBVIOUS
    <2>1. k \in S /\ k < x /\ k \in Nat
      BY DEF Below
    <2> QED
      BY <1>1, <1>2, <2>1
  <1>4. OldestIn(n, S) \subseteq 1 .. N
    BY OldestBelow
  <1>5. Cardinality(OldestIn(n, S)) \in Nat /\ Cardinality(Below(S, x)) <= Cardinality(OldestIn(n, S))
    BY <1>3, <1>4, PartsFinite
  <1>6. Below(S, x) # {}
    BY <1>2, FS_EmptySet
  <1> DEFINE y == Max(Below(S, x))
  <1>7. y \in Below(S, x) /\ \A k \in Below(S, x) : k <= y
    <2>1. Below(S, x) \subseteq Nat /\ \A k \in Below(S, x) : k <= N
      <3> SUFFICES ASSUME NEW k \in Below(S, x) PROVE k \in Nat /\ k <= N
        OBVIOUS
      <3>1. k \in 1 .. N
        BY DEF Below
      <3> QED
        BY <3>1
    <2> QED
      BY <1>6, <2>1, MaxOf
  <1> HIDE DEF y
  <1>8. Cardinality(Below(S, x)) = Cardinality(Below(S, y)) + 1
    <2>1. Below(S, x) = Below(S, y) \cup {y} /\ y \notin Below(S, y)
      <3>1. y \in S /\ y < x /\ y \in Nat /\ S \subseteq Nat
        BY <1>7 DEF Below
      <3>2. ASSUME NEW k \in Below(S, x) PROVE k \in Below(S, y) \cup {y}
        <4>1. k \in S /\ k <= y /\ k \in Nat
          BY <1>7 DEF Below
        <4> QED
          BY <3>1, <4>1 DEF Below
      <3>3. ASSUME NEW k \in Below(S, y) PROVE k \in Below(S, x)
        BY <1>2, <3>1 DEF Below
      <3>4. y \notin Below(S, y)
        BY <3>1 DEF Below
      <3> QED
        BY <1>7, <3>2, <3>3, <3>4
    <2>2. IsFiniteSet(Below(S, y))
      BY BelowCounts
    <2> QED
      BY <2>1, <2>2, FS_AddElement
  <1>9. Cardinality(Below(S, y)) < n /\ Cardinality(Below(S, y)) \in Nat
    <2>1. y \in OldestIn(n, S)
      BY <1>3, <1>7
    <2>2. Cardinality(Below(S, y)) \in Nat
      BY BelowCounts
    <2> QED
      BY <2>1, <2>2, OldestBelow
  <1>10. x \in OldestIn(n + 1, S) /\ x \notin OldestIn(n, S)
    <2>1. Cardinality(Below(S, x)) < n + 1
      BY <1>8, <1>9
    <2> QED
      BY <1>2, <2>1, OldestBelow
  <1>11. n <= Cardinality(OldestIn(n, S))
    BY <1>2, <1>5
  <1> QED
    BY <1>3, <1>7, <1>10, <1>11

\* A page of a chat is its oldest messages after the anchor; when that is a message, it takes the
\* place of the one that would tell of more.
IsPage(N, S, n, from, G, later, page) ==
  /\ N \in Nat /\ S \subseteq 1 .. N /\ n \in Nat \ {0} /\ from \in Nat
  /\ G = { m \in S : m > from }
  /\ later = { m \in OldestIn(n + 1, { m \in S : m >= from }) : m > from }
  /\ page = OldestIn(n, later)

LEMMA PageOfChat ==
  ASSUME NEW N, NEW S, NEW n, NEW from, NEW G, NEW later, NEW page, IsPage(N, S, n, from, G, later, page)
  PROVE  /\ page = OldestIn(n, G)
         /\ later = IF from \in S THEN page ELSE OldestIn(n + 1, G)
  <1> DEFINE A == { m \in S : m >= from }
  <1>. N \in Nat /\ S \subseteq 1 .. N /\ n \in Nat \ {0} /\ from \in Nat
    BY DEF IsPage
  <1>0. G = { m \in S : m > from } /\ later = { m \in OldestIn(n + 1, A) : m > from } /\ page = OldestIn(n, later)
    BY DEF IsPage
  <1>1. S \subseteq Nat /\ A \subseteq 1 .. N /\ G \subseteq 1 .. N /\ n \in Nat /\ n + 1 \in Nat /\ n <= n + 1
    <2>1. n \in Nat /\ n + 1 \in Nat /\ n <= n + 1 /\ 1 .. N \subseteq Nat
      OBVIOUS
    <2>2. A \subseteq S /\ G \subseteq S
      BY <1>0
    <2> QED
      BY <2>1, <2>2
  <1>2. CASE from \notin S
    <2>1. \A m \in S : m >= from <=> m > from
      BY <1>1, <1>2
    <2>2. A = G
      BY <1>0, <2>1
    <2>3. later = OldestIn(n + 1, G)
      <3>1. OldestIn(n + 1, G) \subseteq G
        BY OldestBelow
      <3> QED
        BY <1>0, <2>2, <3>1
    <2>4. page = OldestIn(n, G)
      <3>1. OldestIn(n, OldestIn(n + 1, G)) = OldestIn(n, G)
        BY <1>1, OldestOfOldest
      <3> QED
        BY <1>0, <2>3, <3>1
    <2> QED
      BY <1>2, <2>3, <2>4
  <1>3. CASE from \in S
    <2>1. \A m \in G : Below(A, m) = Below(G, m) \cup {from} /\ from \notin Below(G, m)
      <3> SUFFICES ASSUME NEW m \in G PROVE Below(A, m) = Below(G, m) \cup {from} /\ from \notin Below(G, m)
        OBVIOUS
      <3>1. m > from /\ m \in Nat
        BY <1>0, <1>1
      <3>2. \A k \in S : k >= from /\ k < m <=> (k > from /\ k < m) \/ k = from
        BY <1>1, <3>1
      <3>3. ~(from > from)
        OBVIOUS
      <3> QED
        BY <1>0, <1>3, <3>2, <3>3 DEF Below
    <2>2. \A m \in G : Cardinality(Below(A, m)) < n + 1 <=> Cardinality(Below(G, m)) < n
      <3> SUFFICES ASSUME NEW m \in G PROVE Cardinality(Below(A, m)) < n + 1 <=> Cardinality(Below(G, m)) < n
        OBVIOUS
      <3>1. IsFiniteSet(Below(G, m)) /\ Cardinality(Below(G, m)) \in Nat
        BY <1>1, BelowCounts
      <3>2. Cardinality(Below(A, m)) = Cardinality(Below(G, m)) + 1
        BY <2>1, <3>1, FS_AddElement
      <3> QED
        BY <3>1, <3>2
    <2>3. \A m : m \in later <=> m \in A /\ Cardinality(Below(A, m)) < n + 1 /\ m > from
      BY <1>0, OldestBelow
    <2>4. \A m : m \in G <=> m \in A /\ m > from
      <3>1. \A m \in S : m > from => m >= from
        BY <1>1
      <3> QED
        BY <1>0, <3>1
    <2>5. \A m : m \in OldestIn(n, G) <=> m \in G /\ Cardinality(Below(G, m)) < n
      BY OldestBelow
    <2>6. \A m : m \in later <=> m \in OldestIn(n, G)
      BY <2>2, <2>3, <2>4, <2>5
    <2>7. later = OldestIn(n, G)
      BY <2>6
    <2>8. page = OldestIn(n, G)
      <3>1. n <= n
        BY <1>1
      <3>2. OldestIn(n, OldestIn(n, G)) = OldestIn(n, G)
        BY <1>1, <3>1, OldestOfOldest
      <3> QED
        BY <1>0, <2>7, <3>2
    <2> QED
      BY <1>3, <2>7, <2>8
  <1> QED
    BY <1>2, <1>3


LEMMA InboxBounds ==
  /\ MaxPosts \in Nat /\ MaxRuns \in Nat
  /\ Limit \in Nat \ {0} /\ ChatsRead \in Nat \ {0} /\ ReviewPage \in Nat \ {0} /\ PerChat \in Nat \ {0}
  /\ ReviewPage <= PerChat
  /\ PerChat > ReviewPage => 2 * ReviewPage <= PerChat
  <1>1. MaxPosts \in Nat /\ MaxRuns \in Nat /\ Limit \in Nat \ {0} /\ ChatsRead \in Nat \ {0} /\ ReviewPage \in Nat \ {0}
    BY InboxAssumption
  <1>2. PICK pages \in 1 .. PerChat : PerChat = pages * ReviewPage
    BY InboxAssumption
  <1>3. pages \in Nat \ {0}
    <2>1. PerChat \in Int \/ PerChat \notin Int
      OBVIOUS
    <2> QED
      BY <1>2
  <1>4. PerChat \in Nat
    BY <1>1, <1>2, <1>3
  <1>5. CASE pages = 1
    BY <1>1, <1>2, <1>5
  <1>6. CASE pages >= 2
    <2>1. pages - 2 \in Nat
      BY <1>3, <1>6
    <2>2. (pages - 2) * ReviewPage \in Nat
      BY <1>1, <2>1
    <2>3. pages * ReviewPage = (pages - 2) * ReviewPage + 2 * ReviewPage
      BY <1>1, <1>3, <2>1
    <2> QED
      BY <1>1, <1>2, <1>4, <2>2, <2>3
  <1> QED
    BY <1>3, <1>5, <1>6

LEMMA LogOfChats ==
  ASSUME log \in Seq(Chats)
  PROVE  /\ Len(log) \in Nat /\ Posts = 1 .. Len(log)
         /\ \A c : InChat(c) = ChatOf(log, c) /\ InChat(c) \subseteq 1 .. Len(log)
         /\ \A m \in 1 .. Len(log) : log[m] \in Chats /\ m \in InChat(log[m])
  <1>1. Len(log) \in Nat /\ DOMAIN log = 1 .. Len(log) /\ \A m \in 1 .. Len(log) : log[m] \in Chats
    BY LenProperties, ElementOfSeq
  <1> QED
    BY <1>1 DEF Posts, InChat, ChatOf

LEMMA LastOfChat ==
  ASSUME log \in Seq(Chats), NEW c
  PROVE  /\ LastOf(c) \in 0 .. Len(log)
         /\ \A m \in InChat(c) : m <= LastOf(c)
         /\ LastOf(c) = 0 \/ LastOf(c) \in InChat(c)
  <1>1. Len(log) \in Nat /\ InChat(c) \subseteq 1 .. Len(log)
    BY LogOfChats
  <1> DEFINE S == InChat(c) \cup {0}
  <1>2. S \subseteq 0 .. Len(log) /\ 0 \in S
    BY <1>1
  <1> HIDE DEF S
  <1>3. S \subseteq Nat /\ S # {} /\ \A x \in S : x <= Len(log)
    BY <1>1, <1>2
  <1>4. Max(S) \in S /\ \A x \in S : x <= Max(S)
    BY <1>1, <1>3, MaxOf
  <1>5. LastOf(c) = Max(S)
    BY DEF LastOf, S
  <1> QED
    BY <1>2, <1>4, <1>5 DEF S

LEMMA LogGoesOn ==
  ASSUME NEW sent \in Seq(Chats), NEW c \in Chats, NEW longer, longer = Append(sent, c)
  PROVE  /\ longer \in Seq(Chats) /\ Len(sent) \in Nat /\ Len(longer) = Len(sent) + 1
         /\ \A m \in 1 .. Len(sent) : longer[m] = sent[m]
         /\ \A d : \A m \in 0 .. Len(sent) : m \in ChatOf(longer, d) <=> m \in ChatOf(sent, d)
  <1>1. longer \in Seq(Chats) /\ Len(longer) = Len(sent) + 1 /\ \A m \in 1 .. Len(sent) : longer[m] = sent[m]
    BY AppendProperties
  <1>2. Len(sent) \in Nat
    BY LenProperties
  <1>3. ASSUME NEW d, NEW m \in 0 .. Len(sent) PROVE m \in ChatOf(longer, d) <=> m \in ChatOf(sent, d)
    <2>1. CASE m = 0
      BY <1>1, <1>2, <2>1 DEF ChatOf
    <2>2. CASE m # 0
      <3>1. m \in 1 .. Len(sent) /\ m \in 1 .. Len(longer)
        BY <1>1, <1>2, <2>2
      <3> QED
        BY <1>1, <3>1 DEF ChatOf
    <2> QED
      BY <2>1, <2>2
  <1> QED
    BY <1>1, <1>2, <1>3

LEMMA ErrandFields ==
  ASSUME NEW job \in ErrandType
  PROVE  /\ job.at \in {"free", "login", "list", "read", "save"} /\ job.kind \in {"none", "inbox", "review", "other"}
         /\ job.state \in 0 .. MaxPosts /\ job.since \in 0 .. MaxPosts /\ job.cut \in 0 .. MaxPosts
         /\ job.until \in 0 .. MaxPosts /\ job.from \in 0 .. MaxPosts
         /\ job.todo \in BoundedSeq(Chats, ChatsRead)
         /\ job.part \in SUBSET (1 .. MaxPosts) /\ job.got \in SUBSET (1 .. MaxPosts)
         /\ job.hints \in SUBSET (1 .. MaxPosts) /\ job.over \in SUBSET (1 .. MaxPosts)
         /\ job.more \in BOOLEAN
  BY DEF ErrandType

LEMMA BoundedTodo ==
  ASSUME NEW todo
  PROVE  todo \in BoundedSeq(Chats, ChatsRead) <=> todo \in Seq(Chats) /\ Len(todo) <= ChatsRead
  <1>1. ASSUME todo \in BoundedSeq(Chats, ChatsRead) PROVE todo \in Seq(Chats) /\ Len(todo) <= ChatsRead
    <2>1. PICK k \in 0 .. ChatsRead : todo \in [1 .. k -> Chats]
      BY <1>1 DEF BoundedSeq, SeqOf
    <2>2. k \in Nat /\ k <= ChatsRead
      BY <2>1, InboxBounds
    <2> QED
      BY <2>1, <2>2, LenProperties, SeqDef
  <1>2. ASSUME todo \in Seq(Chats), Len(todo) <= ChatsRead PROVE todo \in BoundedSeq(Chats, ChatsRead)
    <2>1. Len(todo) \in Nat /\ todo \in [1 .. Len(todo) -> Chats]
      BY <1>2, LenProperties
    <2>2. Len(todo) \in 0 .. ChatsRead
      BY <1>2, <2>1, InboxBounds
    <2> QED
      BY <2>1, <2>2 DEF BoundedSeq, SeqOf
  <1> QED
    BY <1>1, <1>2

\* What is true of a run stays so when others show more, and when messages arrive.
LEMMA SeenGrows ==
  ASSUME NEW job, NEW sent, NEW seen, NEW covered, JobTrue(job, sent, seen, covered),
         NEW seen2, seen \subseteq seen2, NEW covered2, covered \subseteq covered2
  PROVE  JobTrue(job, sent, seen2, covered2)
  <1>1. StartsWell(job, seen, covered)
    BY DEF JobTrue
  <1>2. StartsWell(job, seen2, covered2)
    BY <1>1 DEF StartsWell
  <1> QED
    BY <1>2 DEF JobTrue

LEMMA MessagesArrive ==
  ASSUME NEW job \in ErrandType, NEW sent \in Seq(Chats), NEW seen, NEW covered, JobTrue(job, sent, seen, covered),
         NEW c \in Chats, NEW longer, longer = Append(sent, c)
  PROVE  JobTrue(job, longer, seen, covered)
  <1>1. /\ Len(sent) \in Nat /\ Len(longer) = Len(sent) + 1
        /\ \A m \in 1 .. Len(sent) : longer[m] = sent[m]
        /\ \A d : \A m \in 0 .. Len(sent) : m \in ChatOf(longer, d) <=> m \in ChatOf(sent, d)
    BY LogGoesOn
  <1>2. job.state \in Nat /\ job.since \in Nat /\ job.cut \in Nat /\ job.until \in Nat /\ job.from \in Nat
    BY ErrandFields, InboxBounds
  <1>3. Bounded(job, Len(sent)) /\ Bounded(job, Len(longer))
    BY <1>1, <1>2 DEF JobTrue, Bounded
  <1>4. 1 .. job.cut \subseteq 1 .. Len(sent)
    BY <1>1, <1>2, <1>3 DEF Bounded
  <1>5. InboxReadsAll(job, longer)
    BY <1>1, <1>4 DEF JobTrue, InboxReadsAll, Theirs
  <1>6. ReviewReadsAll(job, longer)
    BY <1>1, <1>4 DEF JobTrue, ReviewReadsAll
  <1>7. PagesRead(job, longer)
    <2> SUFFICES ASSUME job.at = "read", job.kind = "review", job.todo # << >> PROVE PagesRead(job, longer)
      BY DEF JobTrue, PagesRead
    <2> DEFINE d == Head(job.todo)
    <2>1. job.from \in 0 .. Len(sent) /\ job.since \in 0 .. Len(sent)
      BY <1>1, <1>2, <1>3 DEF Bounded
    <2>2. \A m \in 1 .. Len(longer) : m <= job.from => m \in 0 .. Len(sent)
      BY <1>1, <2>1
    <2>3. { m \in ChatOf(longer, d) : job.since < m /\ m <= job.from } =
          { m \in ChatOf(sent, d) : job.since < m /\ m <= job.from }
      <3>1. \A m : m \in ChatOf(longer, d) => m \in 1 .. Len(longer)
        BY DEF ChatOf
      <3>2. \A m : m \in ChatOf(sent, d) => m \in 0 .. Len(sent)
        BY <1>1 DEF ChatOf
      <3> HIDE DEF d
      <3>3. ASSUME NEW m, m <= job.from PROVE m \in ChatOf(longer, d) <=> m \in ChatOf(sent, d)
        BY <1>1, <2>2, <3>1, <3>2, <3>3
      <3> QED
        BY <3>3
    <2>4. job.from \in ChatOf(longer, d) <=> job.from \in ChatOf(sent, d)
      BY <1>1, <2>1
    <2>5. job.since \in ChatOf(longer, d) <=> job.since \in ChatOf(sent, d)
      BY <1>1, <2>1
    <2> QED
      BY <2>3, <2>4, <2>5 DEF JobTrue, PagesRead
  <1> QED
    BY <1>3, <1>5, <1>6, <1>7 DEF JobTrue

LEMMA NothingToDo == << >> \in BoundedSeq(Chats, ChatsRead)
  <1>1. << >> \in Seq(Chats) /\ Len(<< >>) = 0
    BY EmptySeq
  <1>2. 0 <= ChatsRead
    BY InboxBounds
  <1> DEFINE none == << >>
  <1>3. none \in Seq(Chats) /\ Len(none) <= ChatsRead
    BY <1>1, <1>2
  <1> HIDE DEF none
  <1>4. none \in BoundedSeq(Chats, ChatsRead)
    BY <1>3, BoundedTodo
  <1> QED
    BY <1>4 DEF none

LEMMA FreeIsTrue ==
  /\ Free \in ErrandType
  /\ \A sent, seen, covered : Len(sent) \in Nat => JobTrue(Free, sent, seen, covered)
  <1>1. << >> \in BoundedSeq(Chats, ChatsRead)
    BY NothingToDo
  <1>2. 0 \in 0 .. MaxPosts
    BY InboxBounds
  <1>3. Free \in ErrandType
    BY <1>1, <1>2 DEF Free, ErrandType
  <1>4. /\ Free.at = "free" /\ Free.kind = "none" /\ Free.state = 0 /\ Free.since = 0 /\ Free.cut = 0
        /\ Free.until = 0 /\ Free.part = {}
    BY DEF Free
  <1> QED
    BY <1>3, <1>4 DEF JobTrue, StartsWell, Bounded, InboxReadsAll, ReviewReadsAll, PagesRead

LEMMA LogOfInv ==
  ASSUME InboxInv
  PROVE  /\ log \in Seq(Chats) /\ Len(log) \in Nat /\ Len(log) <= MaxPosts
         /\ 1 .. Len(log) \subseteq 1 .. MaxPosts
         /\ errand \in [Runners -> ErrandType]
         /\ saved \in 0 .. MaxPosts /\ saved <= Len(log) /\ point \in 0 .. MaxPosts /\ point <= Len(log)
         /\ runs \in 0 .. MaxRuns
         /\ shown \cup pointedAt \cup reviewed \cup buried \cup outrun \subseteq 1 .. MaxPosts
         /\ Theirs(1 .. saved) \subseteq Seen /\ 1 .. point \subseteq Covered
         /\ \A r \in Runners : JobTrue(errand[r], log, Seen, Covered)
  <1>1. log \in Seq(Chats) /\ Len(log) <= MaxPosts
    BY DEF InboxInv, InboxTyped, InboxTypeOK
  <1>2. Len(log) \in Nat
    BY <1>1, LenProperties
  <1>3. 1 .. Len(log) \subseteq 1 .. MaxPosts
    BY <1>1, <1>2, InboxBounds
  <1> QED
    BY <1>1, <1>2, <1>3 DEF InboxInv, InboxTyped, InboxTypeOK

\* One runner moves: its new errand holds, the others' still do.
LEMMA RunnerMoves ==
  ASSUME InboxInv, NEW r \in Runners, NEW new \in ErrandType,
         errand' = [errand EXCEPT ![r] = new], log' = log,
         Seen \subseteq Seen', Covered \subseteq Covered', JobTrue(new, log, Seen', Covered'),
         saved' \in 0 .. MaxPosts, saved' <= Len(log), point' \in 0 .. MaxPosts, point' <= Len(log),
         Theirs(1 .. saved') \subseteq Seen', 1 .. point' \subseteq Covered',
         runs' \in 0 .. MaxRuns,
         shown' \cup pointedAt' \cup reviewed' \cup buried' \cup outrun' \subseteq 1 .. MaxPosts
  PROVE  InboxInv'
  <1>1. errand \in [Runners -> ErrandType] /\ log \in Seq(Chats) /\ Len(log) <= MaxPosts
    BY LogOfInv
  <1>2. errand' \in [Runners -> ErrandType]
    BY <1>1
  <1>3. ASSUME NEW q \in Runners PROVE JobTrue(errand'[q], log', Seen', Covered')
    <2>1. CASE q = r
      BY <1>1, <2>1
    <2>2. CASE q # r
      <3>1. errand'[q] = errand[q] /\ JobTrue(errand[q], log, Seen, Covered)
        BY <1>1, <2>2, LogOfInv
      <3> QED
        BY <3>1, SeenGrows
    <2> QED
      BY <2>1, <2>2
  <1>4. InboxTyped'
    BY <1>1, <1>2 DEF InboxTyped, InboxTypeOK, InboxInv
  <1> QED
    BY <1>3, <1>4 DEF InboxInv

\* As RunnerMoves, when nothing is shown and no point moves.
LEMMA RunnerGoes ==
  ASSUME InboxInv, NEW r \in Runners, NEW new \in ErrandType, JobTrue(new, log, Seen, Covered),
         errand' = [errand EXCEPT ![r] = new], runs' \in 0 .. MaxRuns,
         UNCHANGED << log, saved, point, shown, pointedAt, reviewed, buried, outrun >>
  PROVE  InboxInv'
  <1>1. Seen' = Seen /\ Covered' = Covered /\ log' = log /\ saved' = saved /\ point' = point
    BY DEF Seen, Covered
  <1>2. shown' \cup pointedAt' \cup reviewed' \cup buried' \cup outrun' \subseteq 1 .. MaxPosts
    BY LogOfInv
  <1> QED
    BY <1>1, <1>2, LogOfInv, RunnerMoves

LEMMA ArriveStep == InboxInv /\ Arrive => InboxInv'
  <1> SUFFICES ASSUME InboxInv, Arrive PROVE InboxInv'
    OBVIOUS
  <1>1. PICK c \in Chats : log' = Append(log, c)
    BY DEF Arrive
  <1>2. /\ log \in Seq(Chats) /\ log' \in Seq(Chats) /\ Len(log) \in Nat /\ Len(log') = Len(log) + 1 /\ Len(log') <= MaxPosts
    <2>1. log \in Seq(Chats) /\ Len(log) < MaxPosts
      BY LogOfInv DEF Arrive
    <2> QED
      BY <1>1, <2>1, LogGoesOn, InboxBounds
  <1>3. ToSet(log') \subseteq Chats
    BY <1>2, LenProperties, ElementOfSeq DEF ToSet
  <1>4. Seen' = Seen /\ Covered' = Covered
    BY DEF Arrive, Seen, Covered
  <1>5. ASSUME NEW r \in Runners PROVE JobTrue(errand'[r], log', Seen', Covered')
    <2>1. errand'[r] = errand[r] /\ errand[r] \in ErrandType /\ JobTrue(errand[r], log, Seen, Covered)
      BY LogOfInv DEF Arrive
    <2>2. JobTrue(errand[r], log', Seen, Covered)
      BY <1>1, <1>2, <2>1, MessagesArrive
    <2> QED
      BY <1>4, <2>1, <2>2
  <1>6. InboxTyped'
    BY <1>2, <1>3 DEF InboxTyped, InboxTypeOK, Arrive, InboxInv
  <1>7. saved' <= Len(log') /\ point' <= Len(log')
    BY <1>2, LogOfInv, InboxBounds DEF Arrive
  <1>8. Theirs(1 .. saved') \subseteq Seen' /\ 1 .. point' \subseteq Covered'
    BY <1>4, LogOfInv DEF Arrive
  <1> QED
    BY <1>5, <1>6, <1>7, <1>8 DEF InboxInv

LEMMA StartStep == ASSUME InboxInv, NEW r \in Runners, Start(r) PROVE InboxInv'
  <1>1. PICK kind \in {"inbox", "review", "other"} :
          errand' = [errand EXCEPT ![r] = [Free EXCEPT !.at = "login", !.kind = kind, !.state = saved,
                                                      !.since = CASE kind = "inbox" -> saved
                                                                  [] kind = "review" -> point
                                                                  [] OTHER -> 0]]
    BY DEF Start
  <1> DEFINE from == CASE kind = "inbox" -> saved [] kind = "review" -> point [] OTHER -> 0
  <1> DEFINE new == [Free EXCEPT !.at = "login", !.kind = kind, !.state = saved, !.since = from]
  <1>2. /\ kind = "inbox" => from = saved
        /\ kind = "review" => from = point
        /\ kind = "other" => from = 0
    OBVIOUS
  <1>3. from \in 0 .. MaxPosts /\ from <= Len(log) /\ saved \in 0 .. MaxPosts /\ saved <= Len(log)
    <2>1. 0 \in 0 .. MaxPosts /\ 0 <= Len(log)
      BY LogOfInv, InboxBounds
    <2> QED
      BY <1>2, <2>1, LogOfInv
  <1>4. errand' = [errand EXCEPT ![r] = new]
    BY <1>1
  <1> HIDE DEF from
  <1>5. new \in ErrandType
    <2>1. << >> \in BoundedSeq(Chats, ChatsRead) /\ 0 \in 0 .. MaxPosts
      BY NothingToDo, InboxBounds
    <2> QED
      BY <1>3, <2>1 DEF Free, ErrandType
  <1>6. /\ new.at = "login" /\ new.kind = kind /\ new.state = saved /\ new.since = from /\ new.cut = 0
        /\ new.until = 0 /\ new.part = {}
    BY DEF Free
  <1> HIDE DEF new
  <1>7. StartsWell(new, Seen, Covered)
    BY <1>2, <1>6, LogOfInv DEF StartsWell
  <1>8. JobTrue(new, log, Seen, Covered)
    <2>1. Bounded(new, Len(log))
      <3>1. Len(log) \in Nat
        BY LogOfInv
      <3> QED
        BY <1>3, <1>6, <3>1 DEF Bounded
    <2> QED
      BY <1>6, <1>7, <2>1 DEF JobTrue, InboxReadsAll, ReviewReadsAll, PagesRead
  <1>9. runs' \in 0 .. MaxRuns
    BY LogOfInv, InboxBounds DEF Start
  <1> QED
    BY <1>4, <1>5, <1>8, <1>9, RunnerGoes DEF Start

LEMMA LoggedInStep == ASSUME InboxInv, NEW r \in Runners, LoggedIn(r) PROVE InboxInv'
  <1> DEFINE job == errand[r]
  <1> DEFINE new == IF job.kind = "other" THEN Free ELSE [job EXCEPT !.at = "list", !.state = 0]
  <1>1. job \in ErrandType /\ JobTrue(job, log, Seen, Covered) /\ job.at = "login"
    BY LogOfInv DEF LoggedIn
  <1>2. errand' = [errand EXCEPT ![r] = new] /\ saved' = job.state
    BY DEF LoggedIn, Goes
  <1>3. UNCHANGED << log, runs, point, reviewed, outrun, shown, pointedAt, buried >>
    BY DEF LoggedIn, Goes
  <1> HIDE DEF job
  <1>4. /\ job.state \in 0 .. MaxPosts /\ job.state <= Len(log)
        /\ Theirs(1 .. job.state) \subseteq Seen
    BY <1>1, ErrandFields DEF JobTrue, Bounded, StartsWell
  <1>5. new \in ErrandType /\ JobTrue(new, log, Seen, Covered)
    <2>1. CASE job.kind = "other"
      BY <2>1, FreeIsTrue, LogOfInv
    <2>2. CASE job.kind # "other"
      <3>1. new = [job EXCEPT !.at = "list", !.state = 0]
        BY <2>2
      <3> HIDE DEF new
      <3>2. 0 \in 0 .. MaxPosts /\ 0 <= Len(log)
        BY LogOfInv, InboxBounds
      <3>3. new \in ErrandType
        BY <1>1, <3>1, <3>2 DEF ErrandType
      <3>4. /\ new.at = "list" /\ new.kind = job.kind /\ new.state = 0 /\ new.since = job.since /\ new.cut = job.cut
            /\ new.until = job.until /\ new.part = job.part
        BY <1>1, <3>1 DEF ErrandType
      <3>5. StartsWell(new, Seen, Covered)
        BY <1>1, <3>4 DEF StartsWell, JobTrue
      <3>6. Bounded(new, Len(log))
        BY <1>1, <3>2, <3>4 DEF Bounded, JobTrue
      <3>7. JobTrue(new, log, Seen, Covered)
        BY <1>1, <3>4, <3>5, <3>6 DEF JobTrue, InboxReadsAll, ReviewReadsAll, PagesRead
      <3> QED
        BY <3>3, <3>7
    <2> QED
      BY <2>1, <2>2
  <1> HIDE DEF new
  <1>6. Seen' = Seen /\ Covered' = Covered
    BY <1>3 DEF Seen, Covered
  <1>7. shown' \cup pointedAt' \cup reviewed' \cup buried' \cup outrun' \subseteq 1 .. MaxPosts
    BY <1>3, LogOfInv
  <1>8. saved' \in 0 .. MaxPosts /\ saved' <= Len(log) /\ Theirs(1 .. saved') \subseteq Seen'
    BY <1>2, <1>4, <1>6
  <1>9. point' \in 0 .. MaxPosts /\ point' <= Len(log) /\ 1 .. point' \subseteq Covered' /\ runs' \in 0 .. MaxRuns
    BY <1>3, <1>6, LogOfInv
  <1>10. JobTrue(new, log, Seen', Covered')
    BY <1>5, <1>6
  <1> QED
    BY <1>2, <1>3, <1>5, <1>6, <1>7, <1>8, <1>9, <1>10, RunnerMoves

LEMMA DiesStep == ASSUME InboxInv, NEW r \in Runners, Dies(r) PROVE InboxInv'
  <1>1. errand' = [errand EXCEPT ![r] = Free]
    BY DEF Dies, Goes
  <1>2. UNCHANGED << log, saved, point, shown, pointedAt, reviewed, buried, outrun >> /\ runs' = runs
    BY DEF Dies, Goes
  <1>3. Free \in ErrandType /\ JobTrue(Free, log, Seen, Covered)
    BY FreeIsTrue, LogOfInv
  <1> QED
    BY <1>1, <1>2, <1>3, LogOfInv, RunnerGoes

\* What ListChats chooses: every chat that changed, to be read or named; the newest message of them.
LEMMA CutOfList ==
  ASSUME log \in Seq(Chats), NEW since \in Nat, since <= Len(log)
  PROVE  LET upTo == Max({since} \cup { LastOf(c) : c \in Changed(since) })
         IN  /\ upTo \in Nat /\ since <= upTo /\ upTo <= Len(log)
             /\ \A m \in 1 .. upTo : since < m => log[m] \in Changed(since) /\ m \in Window(log[m], since, upTo)
  <1> DEFINE S == {since} \cup { LastOf(c) : c \in Changed(since) }
  <1>1. Len(log) \in Nat /\ \A c : LastOf(c) \in Nat /\ LastOf(c) <= Len(log)
    <2>1. Len(log) \in Nat
      BY LogOfChats
    <2>2. ASSUME NEW c PROVE LastOf(c) \in Nat /\ LastOf(c) <= Len(log)
      BY <2>1, LastOfChat
    <2> QED
      BY <2>1, <2>2
  <1>2. S \subseteq Nat /\ \A x \in S : x <= Len(log)
    <2>1. ASSUME NEW x \in S PROVE x \in Nat /\ x <= Len(log)
      <3>1. x = since \/ \E c \in Changed(since) : x = LastOf(c)
        OBVIOUS
      <3> QED
        BY <1>1, <3>1
    <2> QED
      BY <2>1
  <1>3. since \in S
    OBVIOUS
  <1> DEFINE upTo == Max(S)
  <1>4. upTo \in S /\ \A x \in S : x <= upTo
    <2> HIDE DEF S
    <2> QED
      BY <1>1, <1>2, <1>3, MaxOf
  <1>5. upTo \in Nat /\ since <= upTo /\ upTo <= Len(log)
    <2> HIDE DEF upTo, S
    <2> QED
      BY <1>2, <1>3, <1>4
  <1> HIDE DEF upTo
  <1>6. ASSUME NEW m \in 1 .. upTo, since < m
        PROVE  log[m] \in Changed(since) /\ m \in Window(log[m], since, upTo)
    <2>1. m \in 1 .. Len(log) /\ m \in Nat /\ m <= upTo
      BY <1>1, <1>5
    <2>2. log[m] \in Chats /\ m \in InChat(log[m])
      BY <2>1, LogOfChats
    <2>3. m <= LastOf(log[m])
      BY <2>2, LastOfChat
    <2>4. LastOf(log[m]) > since
      <3>1. LastOf(log[m]) \in Nat
        BY <1>1
      <3> QED
        BY <1>6, <2>1, <2>3, <3>1
    <2> QED
      BY <1>6, <2>1, <2>2, <2>4 DEF Changed, Window
  <1> QED
    BY <1>5, <1>6 DEF upTo

LEMMA MinOfTwo ==
  ASSUME NEW a \in Nat, NEW b \in Nat
  PROVE  Min({a, b}) = IF a <= b THEN a ELSE b
  <1>1. \E x \in {a, b} : \A y \in {a, b} : x <= y
    <2>1. a <= b \/ b <= a
      OBVIOUS
    <2>2. a <= a /\ b <= b
      OBVIOUS
    <2> QED
      BY <2>1, <2>2
  <1>2. Min({a, b}) \in {a, b} /\ \A y \in {a, b} : Min({a, b}) <= y
    BY <1>1 DEF Min
  <1> QED
    BY <1>2

LEMMA ChangedIsFinite ==
  ASSUME log \in Seq(Chats), NEW since \in Nat
  PROVE  Cardinality(Changed(since)) \in Nat
  <1> DEFINE D == { m \in 1 .. Len(log) : log[m] \in Changed(since) }
  <1> DEFINE f == [m \in D |-> log[m]]
  <1>1. IsFiniteSet(D)
    <2>1. IsFiniteSet(1 .. Len(log))
      BY LogOfChats, FS_Interval
    <2> QED
      BY <2>1, FS_Subset
  <1>2. f \in Surjection(D, Changed(since))
    <2>1. ASSUME NEW c \in Changed(since) PROVE \E m \in D : f[m] = c
      <3>1. LastOf(c) > since /\ (LastOf(c) = 0 \/ LastOf(c) \in InChat(c)) /\ LastOf(c) \in 0 .. Len(log)
        BY LastOfChat DEF Changed
      <3>2. LastOf(c) \in InChat(c)
        BY <3>1, LogOfChats
      <3>3. LastOf(c) \in 1 .. Len(log) /\ log[LastOf(c)] = c
        BY <3>2, LogOfChats DEF InChat
      <3>4. LastOf(c) \in D
        BY <3>3
      <3> QED
        BY <3>3, <3>4
    <2>2. f \in [D -> Changed(since)]
      OBVIOUS
    <2> QED
      BY <2>1, <2>2 DEF Surjection
  <1>3. IsFiniteSet(Changed(since))
    <2> HIDE DEF f, D
    <2> QED
      BY <1>1, <1>2, FS_Surjection
  <1> QED
    BY <1>3, FS_CardinalityType

LEMMA CappedTodo ==
  ASSUME NEW S \in SUBSET Chats, Cardinality(S) \in Nat, NEW q \in ByRecency(S)
  PROVE  Capped(q) \in BoundedSeq(Chats, ChatsRead)
  <1>1. q \in [1 .. Cardinality(S) -> S]
    BY DEF ByRecency
  <1>2. Len(q) = Cardinality(S) /\ q \in Seq(S)
    BY <1>1, SeqDef, LenProperties
  <1> DEFINE k == Min({ChatsRead, Len(q)})
  <1>3. k \in Nat /\ k <= ChatsRead /\ k <= Len(q)
    <2>1. ChatsRead \in Nat /\ Len(q) \in Nat
      BY <1>2, InboxBounds
    <2>2. k = IF ChatsRead <= Len(q) THEN ChatsRead ELSE Len(q)
      BY <2>1, MinOfTwo
    <2> QED
      BY <2>1, <2>2
  <1>4. Capped(q) = SubSeq(q, 1, k)
    BY DEF Capped
  <1> HIDE DEF k
  <1>5. \A i \in 1 .. k : q[i] \in Chats
    BY <1>1, <1>2, <1>3
  <1>6. SubSeq(q, 1, k) \in Seq(Chats) /\ Len(SubSeq(q, 1, k)) = k
    <2>1. 1 \in Int /\ k \in Int
      BY <1>3
    <2>2. /\ SubSeq(q, 1, k) \in Seq(Chats)
          /\ Len(SubSeq(q, 1, k)) = IF 1 <= k THEN k - 1 + 1 ELSE 0
      BY <1>5, <2>1, SubSeqProperties
    <2> QED
      BY <1>3, <2>2
  <1> DEFINE read == SubSeq(q, 1, k)
  <1>7. read \in Seq(Chats) /\ Len(read) <= ChatsRead
    BY <1>3, <1>6
  <1> HIDE DEF read
  <1>8. read \in BoundedSeq(Chats, ChatsRead)
    BY <1>7, BoundedTodo
  <1> QED
    BY <1>4, <1>8 DEF read

LEMMA ListChatsStep == ASSUME InboxInv, NEW r \in Runners, ListChats(r) PROVE InboxInv'
  <1> DEFINE job == errand[r]
  <1>1. job \in ErrandType /\ JobTrue(job, log, Seen, Covered) /\ job.at = "list"
    BY LogOfInv DEF ListChats
  <1> DEFINE since == job.since
  <1> DEFINE upTo == Max({since} \cup { LastOf(c) : c \in Changed(since) })
  <1>2. UNCHANGED << log, runs, point, reviewed, outrun, saved, shown, pointedAt, buried >>
    BY DEF ListChats, Goes
  <1>3. PICK latest \in ByRecency(Changed(since)) :
          errand' = [errand EXCEPT ![r] =
            [job EXCEPT !.at = "read", !.cut = upTo, !.todo = Capped(latest), !.until = since, !.from = since,
                        !.more = Changed(since) \ ToSet(Capped(latest)) # {},
                        !.hints = UNION { Window(c, since, upTo) : c \in Changed(since) \ ToSet(Capped(latest)) }]]
    BY DEF ListChats, Goes
  <1> DEFINE read == Capped(latest)
  <1> DEFINE skipped == Changed(since) \ ToSet(read)
  <1> DEFINE named == UNION { Window(c, since, upTo) : c \in skipped }
  <1> DEFINE some == skipped # {}
  <1> DEFINE new == [job EXCEPT !.at = "read", !.cut = upTo, !.todo = read, !.until = since, !.from = since,
                                !.more = some, !.hints = named]
  <1>4. errand' = [errand EXCEPT ![r] = new]
    BY <1>3
  <1>5. since \in Nat /\ since <= Len(log) /\ since \in 0 .. MaxPosts
    <2>1. since \in 0 .. MaxPosts /\ since <= Len(log)
      BY <1>1, ErrandFields DEF JobTrue, Bounded
    <2> QED
      BY <2>1, InboxBounds
  <1>6. /\ upTo \in Nat /\ since <= upTo /\ upTo <= Len(log)
        /\ \A m \in 1 .. upTo : since < m => log[m] \in Changed(since) /\ m \in Window(log[m], since, upTo)
    BY <1>5, LogOfInv, CutOfList
  <1>7. read \in BoundedSeq(Chats, ChatsRead)
    <2>1. Cardinality(Changed(since)) \in Nat /\ Changed(since) \in SUBSET Chats
      BY <1>5, LogOfInv, ChangedIsFinite DEF Changed
    <2> QED
      BY <2>1, CappedTodo
  <1>8. named \in SUBSET (1 .. MaxPosts)
    <2>1. \A c : Window(c, since, upTo) \subseteq 1 .. Len(log)
      BY LogOfInv, LogOfChats DEF Window
    <2> QED
      BY <2>1, LogOfInv
  <1>9. some \in BOOLEAN
    OBVIOUS
  <1>10. \A m \in 1 .. upTo : since < m => log[m] \in ToSet(read) \/ (m \in named /\ some)
    <2> SUFFICES ASSUME NEW m \in 1 .. upTo, since < m, log[m] \notin ToSet(read) PROVE m \in named /\ some
      OBVIOUS
    <2>1. log[m] \in skipped /\ m \in Window(log[m], since, upTo)
      BY <1>6
    <2> QED
      BY <2>1
  <1> HIDE DEF upTo, read, named, some
  <1>11. upTo \in 0 .. MaxPosts
    BY <1>6, LogOfInv, InboxBounds
  <1> HIDE DEF since
  <1>12. new \in ErrandType
    BY <1>1, <1>5, <1>7, <1>8, <1>9, <1>11 DEF ErrandType
  <1>13. /\ new.at = "read" /\ new.kind = job.kind /\ new.state = job.state /\ new.since = job.since /\ new.cut = upTo
         /\ new.todo = read /\ new.until = since /\ new.from = since /\ new.part = job.part
         /\ new.more = some /\ new.hints = named
    BY <1>1 DEF ErrandType
  <1> HIDE DEF new
  <1>14. since = job.since /\ job.state \in 0 .. MaxPosts
    BY <1>1, ErrandFields DEF since
  <1> HIDE DEF job
  <1>15. StartsWell(new, Seen, Covered)
    BY <1>1, <1>13 DEF StartsWell, JobTrue
  <1>16. Bounded(new, Len(log))
    <2>1. job.state <= Len(log)
      BY <1>1 DEF JobTrue, Bounded
    <2>2. since <= since
      BY <1>5
    <2>3. since <= Len(log)
      BY <1>5
    <2> QED
      BY <1>6, <1>13, <1>14, <2>1, <2>2, <2>3 DEF Bounded
  <1>17. InboxReadsAll(new, log)
    BY <1>10, <1>13, <1>14 DEF InboxReadsAll, Theirs
  <1>18. ReviewReadsAll(new, log)
    BY <1>10, <1>13, <1>14 DEF ReviewReadsAll
  <1>19. PagesRead(new, log)
    <2>1. job.part = {}
      BY <1>1 DEF JobTrue, PagesRead
    <2>2. \A m \in ChatOf(log, Head(read)) : ~(since < m /\ m <= since)
      <3>1. \A m \in ChatOf(log, Head(read)) : m \in Nat
        BY DEF ChatOf
      <3> QED
        BY <1>5, <3>1
    <2> QED
      BY <1>13, <1>14, <2>1, <2>2 DEF PagesRead
  <1> QED
    BY <1>2, <1>4, <1>12, <1>15, <1>16, <1>17, <1>18, <1>19, LogOfInv, RunnerGoes DEF JobTrue

LEMMA NextChat ==
  ASSUME NEW todo \in BoundedSeq(Chats, ChatsRead), todo # << >>
  PROVE  /\ Head(todo) \in Chats /\ Tail(todo) \in BoundedSeq(Chats, ChatsRead)
         /\ ToSet(todo) \subseteq {Head(todo)} \cup ToSet(Tail(todo))
  <1>1. todo \in Seq(Chats) /\ Len(todo) <= ChatsRead /\ Len(todo) \in Nat
    BY BoundedTodo, LenProperties
  <1>2. /\ Head(todo) \in Chats /\ Tail(todo) \in Seq(Chats) /\ Len(Tail(todo)) = Len(todo) - 1
        /\ \A i \in 1 .. Len(Tail(todo)) : Tail(todo)[i] = todo[i + 1]
    BY <1>1, HeadTailProperties
  <1>3. Tail(todo) \in BoundedSeq(Chats, ChatsRead)
    <2>1. Len(Tail(todo)) <= ChatsRead
      BY <1>1, <1>2, InboxBounds
    <2> DEFINE rest == Tail(todo)
    <2>2. rest \in Seq(Chats) /\ Len(rest) <= ChatsRead
      BY <1>2, <2>1
    <2> HIDE DEF rest
    <2>3. rest \in BoundedSeq(Chats, ChatsRead)
      BY <2>2, BoundedTodo
    <2> QED
      BY <2>3 DEF rest
  <1>4. ASSUME NEW i \in DOMAIN todo PROVE todo[i] \in {Head(todo)} \cup ToSet(Tail(todo))
    <2>1. i \in 1 .. Len(todo)
      BY <1>1, LenProperties
    <2>2. CASE i = 1
      BY <2>2
    <2>3. CASE i # 1
      <3>1. i - 1 \in 1 .. Len(Tail(todo)) /\ (i - 1) + 1 = i
        BY <1>1, <1>2, <2>1, <2>3
      <3>2. i - 1 \in DOMAIN Tail(todo) /\ Tail(todo)[i - 1] = todo[i]
        BY <1>2, <3>1, LenProperties
      <3> QED
        BY <3>2 DEF ToSet
    <2> QED
      BY <2>2, <2>3
  <1>5. ToSet(todo) \subseteq {Head(todo)} \cup ToSet(Tail(todo))
    BY <1>4 DEF ToSet
  <1> QED
    BY <1>2, <1>3, <1>5

LEMMA MaxOfPoint ==
  ASSUME NEW a \in Nat, NEW S, NEW b \in Nat, a <= b, \A x \in S : x \in Nat /\ x <= b
  PROVE  Max({a} \cup S) \in Nat /\ a <= Max({a} \cup S) /\ Max({a} \cup S) <= b /\ \A x \in S : x <= Max({a} \cup S)
  <1> DEFINE T == {a} \cup S
  <1>1. T \subseteq Nat /\ a \in T /\ \A x \in T : x <= b
    OBVIOUS
  <1>2. \A x \in S : x \in T
    OBVIOUS
  <1> HIDE DEF T
  <1>3. Max(T) \in T /\ \A x \in T : x <= Max(T)
    BY <1>1, MaxOf
  <1>4. Max(T) \in Nat /\ a <= Max(T) /\ Max(T) <= b /\ \A x \in S : x <= Max(T)
    BY <1>1, <1>2, <1>3
  <1> QED
    BY <1>4 DEF T

LEMMA InboxReadsStep == ASSUME InboxInv, NEW r \in Runners, InboxReads(r) PROVE InboxInv'
  <1> DEFINE job == errand[r]
  <1> DEFINE c == Head(job.todo)
  <1> DEFINE fresh == Fresh(NewestIn(Limit, InChat(c)), job)
  <1> DEFINE more == Theirs(fresh) # {} /\ Cardinality(fresh) >= Limit
  <1> DEFINE until == Max({job.until} \cup fresh)
  <1> DEFINE got == job.got \cup Theirs(fresh)
  <1> DEFINE hints == IF more THEN job.hints \cup Window(c, job.since, job.cut) ELSE job.hints
  <1> DEFINE over == IF more THEN job.over ELSE job.over \cup Unreached(c, job.since, job.cut)
  <1> DEFINE rest == Tail(job.todo)
  <1> DEFINE new == [job EXCEPT !.todo = rest, !.until = until, !.got = got, !.hints = hints, !.over = over]
  <1>1. /\ job \in ErrandType /\ JobTrue(job, log, Seen, Covered)
        /\ job.at = "read" /\ job.kind = "inbox" /\ job.todo # << >>
    BY LogOfInv DEF InboxReads
  <1>2. UNCHANGED << log, runs, point, reviewed, outrun, saved, shown, pointedAt, buried >>
    BY DEF InboxReads, Goes
  <1>3. errand' = [errand EXCEPT ![r] = new]
    BY DEF InboxReads, Goes
  <1> HIDE DEF job
  <1>4. /\ job.since \in Nat /\ job.cut \in Nat /\ job.until \in Nat /\ job.from \in Nat /\ job.state \in Nat
        /\ job.until <= job.cut /\ job.cut <= Len(log) /\ job.cut \in 0 .. MaxPosts
    BY <1>1, ErrandFields, InboxBounds DEF JobTrue, Bounded
  <1>5. /\ c \in Chats /\ rest \in BoundedSeq(Chats, ChatsRead)
        /\ ToSet(job.todo) \subseteq {c} \cup ToSet(rest)
    BY <1>1, ErrandFields, NextChat
  <1> HIDE DEF c, rest
  <1>6. InChat(c) \subseteq 1 .. Len(log) /\ \A m \in 1 .. Len(log) : log[m] = c => m \in InChat(c)
    BY LogOfInv, LogOfChats
  <1>7. \A m \in fresh : m \in InChat(c) /\ m \in 1 .. MaxPosts /\ m \in Nat /\ m <= job.cut
    BY <1>6, LogOfInv DEF Fresh, NewestIn
  <1>8. \A x \in Window(c, job.since, job.cut) : x \in 1 .. MaxPosts
    BY <1>6, LogOfInv DEF Window
  <1>9. \A m \in InChat(c) \ Ours : job.since < m /\ m <= job.cut => m \in got \cup hints \cup over
    <2> SUFFICES ASSUME NEW m \in InChat(c) \ Ours, job.since < m, m <= job.cut PROVE m \in got \cup hints \cup over
      OBVIOUS
    <2>1. m \in Window(c, job.since, job.cut) /\ m > job.since
      BY <1>4, <1>6, LogOfInv DEF Window
    <2>2. CASE more
      BY <2>1, <2>2
    <2>3. CASE ~ more /\ m \in NewestIn(Limit, InChat(c))
      BY <2>1, <2>3 DEF Fresh, Theirs
    <2>4. CASE ~ more /\ m \notin NewestIn(Limit, InChat(c))
      <3>1. m \in Unreached(c, job.since, job.cut)
        BY <2>1, <2>4 DEF Unreached
      <3> QED
        BY <2>4, <3>1
    <2> QED
      BY <2>2, <2>3, <2>4
  <1>10. until \in Nat /\ until <= job.cut
    <2> HIDE DEF fresh
    <2> QED
      BY <1>4, <1>7, MaxOfPoint
  <1>11. got \in SUBSET (1 .. MaxPosts) /\ hints \in SUBSET (1 .. MaxPosts) /\ over \in SUBSET (1 .. MaxPosts)
    <2>1. Theirs(fresh) \subseteq 1 .. MaxPosts
      BY <1>7 DEF Theirs
    <2>2. Unreached(c, job.since, job.cut) \subseteq 1 .. MaxPosts
      BY <1>8 DEF Unreached
    <2>3. job.got \in SUBSET (1 .. MaxPosts) /\ job.hints \in SUBSET (1 .. MaxPosts) /\ job.over \in SUBSET (1 .. MaxPosts)
      BY <1>1, ErrandFields
    <2> HIDE DEF fresh, more
    <2> QED
      BY <1>8, <2>1, <2>2, <2>3
  <1>12. job.got \subseteq got /\ job.hints \subseteq hints /\ job.over \subseteq over
    OBVIOUS
  <1> HIDE DEF until, got, hints, over, fresh, more
  <1>13. until \in 0 .. MaxPosts
    BY <1>4, <1>10, InboxBounds
  <1>14. new \in ErrandType
    BY <1>1, <1>5, <1>11, <1>13 DEF ErrandType
  <1>15. /\ new.at = "read" /\ new.kind = "inbox" /\ new.state = job.state /\ new.since = job.since
         /\ new.cut = job.cut /\ new.from = job.from /\ new.until = until /\ new.todo = rest
         /\ new.got = got /\ new.hints = hints /\ new.over = over
    BY <1>1 DEF ErrandType
  <1> HIDE DEF new
  <1>16. StartsWell(new, Seen, Covered)
    BY <1>1, <1>15 DEF StartsWell, JobTrue
  <1>17. Bounded(new, Len(log))
    <2>1. until <= Len(log)
      BY <1>4, <1>10, LogOfInv
    <2> QED
      BY <1>1, <1>10, <1>15, <2>1 DEF JobTrue, Bounded
  <1>18. InboxReadsAll(new, log)
    <2> SUFFICES ASSUME NEW m \in Theirs(1 .. job.cut), job.since < m
                 PROVE  log[m] \in ToSet(rest) \/ m \in got \cup hints \cup over
      BY <1>15 DEF InboxReadsAll
    <2>1. m \in 1 .. job.cut /\ m \notin Ours /\ m \in 1 .. Len(log) /\ m <= job.cut
      BY <1>4, LogOfInv DEF Theirs
    <2>2. log[m] \in ToSet(job.todo) \/ m \in job.got \cup job.hints \cup job.over
      BY <1>1 DEF JobTrue, InboxReadsAll
    <2>3. CASE log[m] = c
      BY <1>6, <1>9, <2>1, <2>3
    <2>4. CASE log[m] # c
      BY <1>5, <1>12, <2>2, <2>4
    <2> QED
      BY <2>3, <2>4
  <1>19. ReviewReadsAll(new, log) /\ PagesRead(new, log)
    BY <1>15 DEF ReviewReadsAll, PagesRead
  <1> QED
    BY <1>2, <1>3, <1>14, <1>16, <1>17, <1>18, <1>19, LogOfInv, RunnerGoes DEF JobTrue

LEMMA InboxPrintsStep == ASSUME InboxInv, NEW r \in Runners, InboxPrints(r) PROVE InboxInv'
  <1> DEFINE job == errand[r]
  <1> DEFINE new == IF job.until = job.since THEN Free ELSE [Free EXCEPT !.at = "save", !.until = job.until]
  <1>1. /\ job \in ErrandType /\ JobTrue(job, log, Seen, Covered)
        /\ job.at = "read" /\ job.kind = "inbox" /\ job.todo = << >>
    BY LogOfInv DEF InboxPrints
  <1>2. UNCHANGED << log, runs, point, reviewed, outrun, saved >>
    BY DEF InboxPrints, Goes
  <1>3. errand' = [errand EXCEPT ![r] = new]
    BY DEF InboxPrints, Goes
  <1>4. shown' = shown \cup job.got /\ pointedAt' = pointedAt \cup (job.hints \ job.got) /\ buried' = buried \cup job.over
    BY DEF InboxPrints
  <1> HIDE DEF job
  <1>5. Seen \subseteq Seen' /\ Covered' = Covered /\ job.got \cup job.hints \cup job.over \subseteq Seen'
    BY <1>2, <1>4 DEF Seen, Covered
  <1>6. /\ job.since \in Nat /\ job.cut \in Nat /\ job.until \in Nat
        /\ job.until <= job.cut /\ job.until <= Len(log) /\ job.until \in 0 .. MaxPosts
        /\ Theirs(1 .. job.since) \subseteq Seen
    BY <1>1, ErrandFields, InboxBounds DEF JobTrue, Bounded, StartsWell
  <1>7. Theirs(1 .. job.until) \subseteq Seen'
    <2> SUFFICES ASSUME NEW m \in Theirs(1 .. job.until) PROVE m \in Seen'
      OBVIOUS
    <2>1. m \in 1 .. job.until /\ m \notin Ours /\ m \in 1 .. job.cut
      BY <1>6 DEF Theirs
    <2>2. CASE m <= job.since
      <3>1. m \in Theirs(1 .. job.since)
        BY <1>6, <2>1, <2>2 DEF Theirs
      <3> QED
        BY <1>5, <1>6, <3>1
    <2>3. CASE job.since < m
      <3>1. ToSet(job.todo) = {}
        BY <1>1 DEF ToSet
      <3>2. m \in Theirs(1 .. job.cut)
        BY <2>1 DEF Theirs
      <3>3. log[m] \in ToSet(job.todo) \/ m \in job.got \cup job.hints \cup job.over
        BY <1>1, <2>3, <3>2 DEF JobTrue, InboxReadsAll
      <3> QED
        BY <1>5, <3>1, <3>3
    <2> QED
      BY <1>6, <2>1, <2>2, <2>3
  <1>8. new \in ErrandType /\ JobTrue(new, log, Seen', Covered')
    <2>1. CASE job.until = job.since
      BY <2>1, FreeIsTrue, LogOfInv
    <2>2. CASE job.until # job.since
      <3>1. new = [Free EXCEPT !.at = "save", !.until = job.until]
        BY <2>2
      <3> HIDE DEF new
      <3>2. new \in ErrandType
        BY <1>6, <3>1, FreeIsTrue DEF ErrandType
      <3>3. /\ new.at = "save" /\ new.kind = "none" /\ new.state = 0 /\ new.since = 0 /\ new.cut = 0
            /\ new.until = job.until /\ new.part = {}
        BY <3>1 DEF Free
      <3>4. StartsWell(new, Seen', Covered')
        BY <1>7, <3>3 DEF StartsWell
      <3>5. Bounded(new, Len(log))
        BY <1>6, <3>3, LogOfInv DEF Bounded
      <3> QED
        BY <3>2, <3>3, <3>4, <3>5 DEF JobTrue, InboxReadsAll, ReviewReadsAll, PagesRead
    <2> QED
      BY <2>1, <2>2
  <1> HIDE DEF new
  <1>9. shown' \cup pointedAt' \cup reviewed' \cup buried' \cup outrun' \subseteq 1 .. MaxPosts
    <2>1. job.got \in SUBSET (1 .. MaxPosts) /\ job.hints \in SUBSET (1 .. MaxPosts) /\ job.over \in SUBSET (1 .. MaxPosts)
      BY <1>1, ErrandFields
    <2> QED
      BY <1>2, <1>4, <2>1, LogOfInv
  <1>10. /\ saved' \in 0 .. MaxPosts /\ saved' <= Len(log) /\ point' \in 0 .. MaxPosts /\ point' <= Len(log)
         /\ Theirs(1 .. saved') \subseteq Seen' /\ 1 .. point' \subseteq Covered' /\ runs' \in 0 .. MaxRuns
    BY <1>2, <1>5, LogOfInv
  <1> QED
    BY <1>2, <1>3, <1>5, <1>8, <1>9, <1>10, RunnerMoves

LEMMA InboxSavesStep == ASSUME InboxInv, NEW r \in Runners, InboxSaves(r) PROVE InboxInv'
  <1> DEFINE job == errand[r]
  <1>1. /\ job \in ErrandType /\ JobTrue(job, log, Seen, Covered) /\ job.at = "save"
    BY LogOfInv DEF InboxSaves
  <1>2. /\ UNCHANGED << log, runs, point, reviewed, outrun, shown, pointedAt, buried >>
        /\ errand' = [errand EXCEPT ![r] = Free] /\ saved' = job.until
    BY DEF InboxSaves, Goes
  <1> HIDE DEF job
  <1>3. Seen' = Seen /\ Covered' = Covered
    BY <1>2 DEF Seen, Covered
  <1>4. saved' \in 0 .. MaxPosts /\ saved' <= Len(log) /\ Theirs(1 .. saved') \subseteq Seen'
    BY <1>1, <1>2, <1>3, ErrandFields DEF JobTrue, Bounded, StartsWell
  <1>5. Free \in ErrandType /\ JobTrue(Free, log, Seen', Covered')
    BY FreeIsTrue, LogOfInv
  <1>6. /\ shown' \cup pointedAt' \cup reviewed' \cup buried' \cup outrun' \subseteq 1 .. MaxPosts
        /\ point' \in 0 .. MaxPosts /\ point' <= Len(log) /\ 1 .. point' \subseteq Covered' /\ runs' \in 0 .. MaxRuns
    BY <1>2, <1>3, LogOfInv
  <1> QED
    BY <1>2, <1>3, <1>4, <1>5, <1>6, RunnerMoves
\* A review reading one chat: the pages it has, and the next.
OnPage(N, S, since, from, upTo, part, G, later, page, read) ==
  /\ N \in Nat /\ S \subseteq 1 .. N /\ since \in Nat /\ from \in Nat /\ upTo \in Nat
  /\ since <= from /\ from <= upTo
  /\ part = { m \in S : since < m /\ m <= from }
  /\ from # since => from \in S /\ since \notin S /\ ReviewPage <= Cardinality(part) /\ Cardinality(part) < PerChat
  /\ IsPage(N, S, ReviewPage, from, G, later, page)
  /\ read = part \cup { m \in page : m <= upTo }

\* Where a review is done with a chat, it has every message of the window that is within reach.
LEMMA ReviewReaches ==
  ASSUME NEW N, NEW S, NEW since, NEW from, NEW upTo, NEW part, NEW G, NEW later, NEW page, NEW read,
         OnPage(N, S, since, from, upTo, part, G, later, page, read),
         later = page \/ page = {} \/ { m \in page : m <= upTo } # page,
         NEW W, W = { m \in S : since < m /\ m <= upTo },
         NEW reach, reach = IF since \in S THEN ReviewPage ELSE 2 * ReviewPage,
         NEW m \in OldestIn(reach, W)
  PROVE  m \in OldestIn(PerChat, read)
  <1>. /\ N \in Nat /\ S \subseteq 1 .. N /\ since \in Nat /\ from \in Nat /\ upTo \in Nat
       /\ since <= from /\ from <= upTo
       /\ part = { k \in S : since < k /\ k <= from }
       /\ from # since => from \in S /\ since \notin S /\ ReviewPage <= Cardinality(part) /\ Cardinality(part) < PerChat
       /\ IsPage(N, S, ReviewPage, from, G, later, page)
       /\ read = part \cup { k \in page : k <= upTo }
    BY DEF OnPage
  <1>0. G = { k \in S : k > from }
    BY DEF IsPage
  <1>1. page = OldestIn(ReviewPage, G) /\ later = IF from \in S THEN page ELSE OldestIn(ReviewPage + 1, G)
    BY PageOfChat
  <1>2. S \subseteq Nat /\ W \subseteq 1 .. N /\ G \subseteq 1 .. N /\ G \subseteq Nat /\ W \subseteq Nat
    <2>1. 1 .. N \subseteq Nat /\ W \subseteq S /\ G \subseteq S
      BY <1>0
    <2> QED
      BY <2>1
  <1>3. m \in W /\ m \in S /\ m \in Nat /\ since < m /\ m <= upTo /\ Cardinality(Below(W, m)) < reach /\ Cardinality(Below(W, m)) \in Nat
    <2>1. m \in W /\ Cardinality(Below(W, m)) < reach
      BY OldestBelow
    <2>2. Cardinality(Below(W, m)) \in Nat
      BY <1>2, BelowCounts
    <2> QED
      BY <1>2, <2>1, <2>2
  <1>4. ReviewPage \in Nat \ {0} /\ PerChat \in Nat /\ ReviewPage <= PerChat /\ (PerChat > ReviewPage => 2 * ReviewPage <= PerChat)
    BY InboxBounds
  <1>5. \A k : k \in page => k \in G /\ Cardinality(Below(G, k)) < ReviewPage
    BY <1>1, OldestBelow
  <1>6. read \subseteq W
    <2>1. \A k \in part : k \in W
      BY <1>2
    <2>2. \A k \in G : k > since
      BY <1>0, <1>2
    <2>3. \A k \in page : k <= upTo => k \in W
      BY <1>0, <1>5, <2>2
    <2> QED
      BY <2>1, <2>3
  <1>7. Cardinality(Below(read, m)) \in Nat /\ Cardinality(Below(read, m)) <= Cardinality(Below(W, m))
    BY <1>2, <1>6, BelowCounts
  <1>8. SUFFICES m \in read /\ Cardinality(Below(read, m)) < PerChat
    BY OldestBelow
  <1>9. CASE from # since
    <2>1. reach = 2 * ReviewPage /\ ReviewPage <= Cardinality(part) /\ Cardinality(part) < PerChat
      BY <1>9
    <2>2. part \subseteq 1 .. N /\ Cardinality(part) \in Nat /\ IsFiniteSet(part)
      <3>1. part \subseteq 1 .. N
        OBVIOUS
      <3> QED
        BY <3>1, PartsFinite
    <2>3. 2 * ReviewPage <= PerChat
      BY <1>4, <2>1, <2>2
    <2>4. CASE m <= from
      <3>1. m \in part
        BY <1>3, <2>4
      <3> QED
        BY <1>3, <1>4, <1>7, <2>1, <2>3, <3>1
    <2>5. CASE m > from
      <3>1. IsFiniteSet(Below(G, m)) /\ Cardinality(Below(G, m)) \in Nat
        BY <1>2, BelowCounts
      <3>2. part \cup Below(G, m) \in SUBSET Below(W, m) /\ part \cap Below(G, m) = {}
        <4>1. ASSUME NEW k \in part PROVE k \in Below(W, m) /\ k \notin Below(G, m)
          <5>1. k \in S /\ k \in Nat /\ since < k /\ k <= from
            BY <1>2
          <5>2. k < m /\ k <= upTo /\ ~(k > from)
            BY <1>3, <2>5, <5>1
          <5> QED
            BY <1>0, <5>1, <5>2 DEF Below
        <4>2. ASSUME NEW k \in Below(G, m) PROVE k \in Below(W, m)
          <5>1. k \in S /\ k \in Nat /\ k > from /\ k < m
            BY <1>0, <1>2 DEF Below
          <5>2. since < k /\ k <= upTo
            BY <1>3, <5>1
          <5> QED
            BY <5>1, <5>2 DEF Below
        <4> QED
          BY <4>1, <4>2
      <3>3. Cardinality(part \cup Below(G, m)) = Cardinality(part) + Cardinality(Below(G, m))
        <4> DEFINE B == Below(G, m)
        <4>1. IsFiniteSet(part) /\ IsFiniteSet(B)
          BY <2>2, <3>1
        <4>2. Cardinality(part \cup B) = Cardinality(part) + Cardinality(B) - Cardinality(part \cap B)
          BY <4>1, FS_Union
        <4>3. Cardinality(part \cap B) = 0
          BY <3>2, FS_EmptySet
        <4> HIDE DEF B
        <4>4. Cardinality(part) \in Nat /\ Cardinality(B) \in Nat
          BY <2>2, <4>1, FS_CardinalityType
        <4>5. Cardinality(part \cup B) = Cardinality(part) + Cardinality(B)
          BY <4>2, <4>3, <4>4
        <4> QED
          BY <4>5 DEF B
      <3>4. Cardinality(part \cup Below(G, m)) <= Cardinality(Below(W, m))
        <4>1. Below(W, m) \subseteq 1 .. N
          BY <1>2 DEF Below
        <4> QED
          BY <3>2, <4>1, PartsFinite
      <3>5. Cardinality(Below(G, m)) < ReviewPage
        BY <1>3, <1>4, <2>1, <2>2, <3>1, <3>3, <3>4
      <3>6. m \in page
        BY <1>0, <1>1, <1>3, <2>5, <3>5, OldestBelow
      <3> QED
        BY <1>3, <1>4, <1>7, <2>1, <2>3, <3>6
    <2> QED
      BY <1>3, <2>4, <2>5
  <1>10. CASE from = since
    <2>1. m \in G
      BY <1>0, <1>3, <1>10
    <2>2. \A k : k \in Below(W, m) <=> k \in Below(G, m)
      <3> SUFFICES ASSUME NEW k \in S PROVE since < k /\ k <= upTo /\ k < m <=> k > from /\ k < m
        BY <1>0 DEF Below
      <3>1. k \in Nat
        BY <1>2
      <3> QED
        BY <1>3, <1>10, <3>1
    <2>3. Below(W, m) = Below(G, m)
      BY <2>2
    <2>4. SUFFICES m \in page
      <3>1. m \in read
        BY <1>3, <2>4
      <3>2. Cardinality(Below(W, m)) < ReviewPage
        BY <1>5, <2>3, <2>4
      <3> QED
        BY <1>3, <1>4, <1>7, <3>1, <3>2
    <2>5. CASE since \in S
      <3>1. Cardinality(Below(G, m)) < ReviewPage
        BY <1>3, <2>3, <2>5
      <3> QED
        BY <1>1, <2>1, <3>1, OldestBelow
    <2>6. CASE since \notin S
      <3> SUFFICES ASSUME m \notin page PROVE FALSE
        OBVIOUS
      <3>1. later = OldestIn(ReviewPage + 1, G)
        BY <1>1, <1>10, <2>6
      <3>2. page # {} /\ later # page
        <4>1. m \in G \ OldestIn(ReviewPage, G)
          BY <1>1, <2>1
        <4>2. OldestIn(ReviewPage, G) # {} /\ OldestIn(ReviewPage + 1, G) # OldestIn(ReviewPage, G)
          BY <1>2, <1>4, <4>1, PageFull
        <4> QED
          BY <1>1, <3>1, <4>2
      <3>3. ASSUME NEW x \in page PROVE x <= upTo
        <4>1. x \in G /\ x \in Nat /\ x \in OldestIn(ReviewPage, G)
          BY <1>1, <1>2, <1>5
        <4>2. CASE m <= x
          <5>1. m \in OldestIn(ReviewPage, G)
            BY <1>2, <1>4, <2>1, <4>1, <4>2, OldestTogether
          <5> QED
            BY <1>1, <5>1
        <4>3. CASE ~(m <= x)
          BY <1>3, <4>1, <4>3
        <4> QED
          BY <4>2, <4>3
      <3>4. { k \in page : k <= upTo } = page
        BY <3>3
      <3> QED
        BY <3>2, <3>4
    <2> QED
      BY <2>5, <2>6
  <1> QED
    BY <1>9, <1>10

\* Where it goes on, it has read one full page, and the chat has no message at `since`.
LEMMA ReviewGoesOn ==
  ASSUME NEW N, NEW S, NEW since, NEW from, NEW upTo, NEW part, NEW G, NEW later, NEW page, NEW read,
         OnPage(N, S, since, from, upTo, part, G, later, page, read),
         later # page, page # {}, { m \in page : m <= upTo } = page
  PROVE  /\ Max(page) \in S /\ Max(page) \in Nat /\ since <= Max(page) /\ Max(page) <= upTo
         /\ since \notin S /\ read = { m \in S : since < m /\ m <= Max(page) }
         /\ ReviewPage <= Cardinality(read)
  <1>. /\ N \in Nat /\ S \subseteq 1 .. N /\ since \in Nat /\ from \in Nat /\ upTo \in Nat
       /\ since <= from /\ from <= upTo
       /\ part = { k \in S : since < k /\ k <= from }
       /\ from # since => from \in S /\ since \notin S /\ ReviewPage <= Cardinality(part) /\ Cardinality(part) < PerChat
       /\ IsPage(N, S, ReviewPage, from, G, later, page)
       /\ read = part \cup { k \in page : k <= upTo }
    BY DEF OnPage
  <1>0. G = { k \in S : k > from }
    BY DEF IsPage
  <1> DEFINE p == Max(page)
  <1>1. page = OldestIn(ReviewPage, G) /\ later = IF from \in S THEN page ELSE OldestIn(ReviewPage + 1, G)
    BY PageOfChat
  <1>2. S \subseteq Nat /\ G \subseteq 1 .. N /\ G \subseteq Nat /\ page \subseteq G
    <2>1. 1 .. N \subseteq Nat /\ G \subseteq S
      BY <1>0
    <2>2. page \subseteq G
      BY <1>1, OldestBelow
    <2> QED
      BY <2>1, <2>2
  <1>3. from \notin S /\ from = since /\ later = OldestIn(ReviewPage + 1, G)
    BY <1>1
  <1>4. p \in page /\ \A k \in page : k <= p
    <2>1. page \subseteq Nat /\ \A k \in page : k <= upTo
      BY <1>2
    <2> QED
      BY <2>1, MaxOf
  <1>5. p \in G /\ p \in S /\ p \in Nat /\ p > since /\ p <= upTo
    BY <1>0, <1>2, <1>3, <1>4
  <1>6. part = {}
    <2>1. \A k \in S : ~(since < k /\ k <= from)
      BY <1>2, <1>3
    <2> QED
      BY <2>1
  <1>7. read = page
    BY <1>6
  <1>8. page = { k \in S : since < k /\ k <= p }
    <2>1. ASSUME NEW k \in page PROVE k \in S /\ since < k /\ k <= p
      BY <1>0, <1>2, <1>3, <1>4
    <2>2. ASSUME NEW k \in S, since < k, k <= p PROVE k \in page
      <3>1. k \in G
        BY <1>0, <1>3, <2>2
      <3>2. p \in OldestIn(ReviewPage, G)
        BY <1>1, <1>4
      <3>3. k \in OldestIn(ReviewPage, G)
        BY <1>2, <2>2, <3>1, <3>2, InboxBounds, OldestTogether
      <3> QED
        BY <1>1, <3>3
    <2> QED
      BY <2>1, <2>2
  <1>9. ReviewPage <= Cardinality(page)
    <2>1. OldestIn(ReviewPage + 1, G) \subseteq G
      BY OldestBelow
    <2>2. OldestIn(ReviewPage, G) \subseteq OldestIn(ReviewPage + 1, G)
      <3> SUFFICES ASSUME NEW k \in OldestIn(ReviewPage, G) PROVE k \in OldestIn(ReviewPage + 1, G)
        OBVIOUS
      <3>1. k \in G /\ Cardinality(Below(G, k)) < ReviewPage
        BY OldestBelow
      <3>2. Cardinality(Below(G, k)) \in Nat
        BY <1>2, BelowCounts
      <3>3. Cardinality(Below(G, k)) < ReviewPage + 1
        BY <3>1, <3>2, InboxBounds
      <3> QED
        BY <3>1, <3>3, OldestBelow
    <2>3. PICK k \in G : k \notin OldestIn(ReviewPage, G)
      BY <1>1, <1>3, <2>1, <2>2
    <2>4. ReviewPage <= Cardinality(OldestIn(ReviewPage, G))
      BY <1>2, <2>3, InboxBounds, PageFull
    <2> QED
      BY <1>1, <2>4
  <1>10. since <= p
    BY <1>5
  <1> QED
    BY <1>3, <1>5, <1>7, <1>8, <1>9, <1>10

LEMMA ReviewReadsStep == ASSUME InboxInv, NEW r \in Runners, ReviewReads(r) PROVE InboxInv'
  <1> DEFINE job == errand[r]
  <1> DEFINE c == Head(job.todo)
  <1> DEFINE S == InChat(c)
  <1> DEFINE N == Len(log)
  <1> DEFINE G == { m \in S : m > job.from }
  <1> DEFINE later == { m \in OldestIn(ReviewPage + 1, { m \in S : m >= job.from }) : m > job.from }
  <1> DEFINE page == OldestIn(ReviewPage, later)
  <1> DEFINE inWindow == { m \in page : m <= job.cut }
  <1> DEFINE read == job.part \cup inWindow
  <1> DEFINE ends == later = page \/ page = {} \/ inWindow # page
  <1> DEFINE full == ~ ends /\ Cardinality(read) >= PerChat
  <1> DEFINE W == Window(c, job.since, job.cut)
  <1> DEFINE got == job.got \cup OldestIn(PerChat, read)
  <1> DEFINE over == job.over \cup Beyond(c, job.since, job.cut)
  <1> DEFINE rest == Tail(job.todo)
  <1> DEFINE more == job.more \/ full
  <1> DEFINE next == [job EXCEPT !.todo = rest, !.from = job.since, !.part = {}, !.more = more, !.got = got, !.over = over]
  <1> DEFINE stays == [job EXCEPT !.part = read, !.from = Max(page)]
  <1>1. /\ job \in ErrandType /\ JobTrue(job, log, Seen, Covered)
        /\ job.at = "read" /\ job.kind = "review" /\ job.todo # << >>
    BY LogOfInv DEF ReviewReads
  <1>2. UNCHANGED << log, runs, point, reviewed, outrun, saved, shown, pointedAt, buried >>
    BY DEF ReviewReads, Goes
  <1>3. errand' = [errand EXCEPT ![r] = IF ends \/ full THEN next ELSE stays]
    BY DEF ReviewReads, Goes
  <1> HIDE DEF job
  <1>4. /\ job.since \in Nat /\ job.cut \in Nat /\ job.until \in Nat /\ job.from \in Nat /\ job.state \in Nat
        /\ job.since <= job.from /\ job.from <= job.cut /\ job.since <= job.cut /\ job.until <= job.cut
        /\ job.cut <= Len(log) /\ job.since <= Len(log) /\ job.until <= Len(log) /\ job.state <= Len(log)
        /\ job.cut \in 0 .. MaxPosts /\ job.since \in 0 .. MaxPosts /\ N \in Nat /\ job.more \in BOOLEAN
    BY <1>1, ErrandFields, InboxBounds, LogOfInv DEF JobTrue, Bounded
  <1>5. /\ c \in Chats /\ rest \in BoundedSeq(Chats, ChatsRead)
        /\ ToSet(job.todo) \subseteq {c} \cup ToSet(rest)
    BY <1>1, ErrandFields, NextChat
  <1> HIDE DEF rest
  <1>6. S = ChatOf(log, c) /\ S \subseteq 1 .. N /\ S \subseteq 1 .. MaxPosts /\ \A m \in 1 .. N : log[m] = c => m \in S
    <2>1. S = ChatOf(log, c) /\ S \subseteq 1 .. N
      BY LogOfInv, LogOfChats
    <2>2. \A m \in 1 .. N : log[m] = c => m \in S
      BY <2>1 DEF ChatOf
    <2> QED
      BY <2>1, <2>2, LogOfInv
  <1>7. /\ job.part = { m \in S : job.since < m /\ m <= job.from }
        /\ job.from # job.since =>
             job.from \in S /\ job.since \notin S /\ ReviewPage <= Cardinality(job.part) /\ Cardinality(job.part) < PerChat
    BY <1>1, <1>6 DEF JobTrue, PagesRead
  <1>8. IsPage(N, S, ReviewPage, job.from, G, later, page)
    <2> HIDE DEF S, N
    <2> QED
      BY <1>4, <1>6, InboxBounds DEF IsPage
  <1>page. OnPage(N, S, job.since, job.from, job.cut, job.part, G, later, page, read)
    <2> HIDE DEF S, N, G, later, page
    <2> QED
      BY <1>4, <1>6, <1>7, <1>8 DEF OnPage
  <1>9. W = { m \in S : job.since < m /\ m <= job.cut } /\ W \subseteq 1 .. MaxPosts
    BY <1>6 DEF Window
  <1>10. page \subseteq 1 .. MaxPosts /\ page \subseteq S
    <2>1. page \subseteq later /\ later \subseteq S
      BY DEF OldestIn
    <2> QED
      BY <1>6, <2>1
  <1>11. ASSUME ends, NEW m \in W PROVE m \in got \cup over
    <2> DEFINE reach == IF job.since \in S THEN ReviewPage ELSE 2 * ReviewPage
    <2>1. Beyond(c, job.since, job.cut) = W \ OldestIn(reach, W)
      BY DEF Beyond, Reach
    <2>2. CASE m \in OldestIn(reach, W)
      <3>1. m \in OldestIn(PerChat, read)
        <4> HIDE DEF S, N, G, later, page, reach, W
        <4>1. reach = IF job.since \in S THEN ReviewPage ELSE 2 * ReviewPage
          BY DEF reach
        <4>2. later = page \/ page = {} \/ { k \in page : k <= job.cut } # page
          BY <1>11
        <4>3. W = { k \in S : job.since < k /\ k <= job.cut }
          BY <1>9
        <4> HIDE DEF read
        <4> QED
          BY <1>page, <2>2, <4>1, <4>2, <4>3, ReviewReaches
      <3> QED
        BY <3>1
    <2>3. CASE m \notin OldestIn(reach, W)
      BY <1>11, <2>1, <2>3
    <2> QED
      BY <2>2, <2>3
  <1>12. read \subseteq 1 .. MaxPosts /\ got \in SUBSET (1 .. MaxPosts) /\ over \in SUBSET (1 .. MaxPosts)
    <2>1. job.part \in SUBSET (1 .. MaxPosts) /\ job.got \in SUBSET (1 .. MaxPosts) /\ job.over \in SUBSET (1 .. MaxPosts)
      BY <1>1, ErrandFields
    <2>2. read \subseteq 1 .. MaxPosts
      BY <1>10, <2>1
    <2>3. OldestIn(PerChat, read) \subseteq read
      BY DEF OldestIn
    <2>4. Beyond(c, job.since, job.cut) \subseteq W
      BY DEF Beyond
    <2> QED
      BY <1>9, <2>1, <2>2, <2>3, <2>4
  <1>13. job.got \subseteq got /\ job.over \subseteq over
    OBVIOUS
  <1>14. CASE ends \/ full
    <2>1. errand' = [errand EXCEPT ![r] = next]
      BY <1>3, <1>14
    <2>2. ~ more => ends /\ ~ job.more
      BY <1>14
    <2>3. more \in BOOLEAN
      BY <1>4
    <2>4. ASSUME ~ more, NEW m \in W PROVE m \in got \cup over
      BY <1>11, <2>2, <2>4
    <2> HIDE DEF more, got, over
    <2>5. next \in ErrandType
      BY <1>1, <1>4, <1>5, <1>12, <2>3 DEF ErrandType
    <2>6. /\ next.at = "read" /\ next.kind = "review" /\ next.state = job.state /\ next.since = job.since
          /\ next.cut = job.cut /\ next.from = job.since /\ next.until = job.until /\ next.todo = rest
          /\ next.got = got /\ next.over = over /\ next.part = {} /\ next.more = more
      BY <1>1 DEF ErrandType
    <2> HIDE DEF next
    <2>7. StartsWell(next, Seen, Covered)
      BY <1>1, <2>6 DEF StartsWell, JobTrue
    <2>8. Bounded(next, Len(log))
      BY <1>4, <2>6 DEF Bounded
    <2>9. ReviewReadsAll(next, log)
      <3> SUFFICES ASSUME ~ more, NEW m \in 1 .. job.cut, job.since < m
                   PROVE  log[m] \in ToSet(rest) \/ m \in got \cup over
        BY <2>6 DEF ReviewReadsAll
      <3>1. m \in 1 .. N /\ m <= job.cut
        BY <1>4
      <3>2. log[m] \in ToSet(job.todo) \/ m \in job.got \cup job.over
        BY <1>1, <2>2 DEF JobTrue, ReviewReadsAll
      <3>3. CASE log[m] = c
        <4>1. m \in W
          BY <1>6, <1>9, <3>1, <3>3
        <4> QED
          BY <2>4, <4>1
      <3>4. CASE log[m] # c
        <4>1. job.got \subseteq got /\ job.over \subseteq over
          BY <1>13
        <4> QED
          BY <1>5, <3>2, <3>4, <4>1
      <3> QED
        BY <3>3, <3>4
    <2>10. PagesRead(next, log)
      <3>1. { m \in ChatOf(log, Head(rest)) : job.since < m /\ m <= job.since } = {}
        <4>1. ChatOf(log, Head(rest)) \subseteq 1 .. N
          BY DEF ChatOf
        <4> HIDE DEF N
        <4>2. \A m \in ChatOf(log, Head(rest)) : m \in Nat
          BY <1>4, <4>1
        <4>3. \A m \in ChatOf(log, Head(rest)) : ~(job.since < m /\ m <= job.since)
          BY <1>4, <4>2
        <4> QED
          BY <4>3
      <3> QED
        BY <2>6, <3>1 DEF PagesRead
    <2>11. InboxReadsAll(next, log)
      BY <2>6 DEF InboxReadsAll
    <2>12. JobTrue(next, log, Seen, Covered)
      BY <2>7, <2>8, <2>9, <2>10, <2>11 DEF JobTrue
    <2> QED
      BY <1>2, <2>1, <2>5, <2>12, LogOfInv, RunnerGoes
  <1>15. CASE ~(ends \/ full)
    <2> DEFINE top == Max(page)
    <2>1. errand' = [errand EXCEPT ![r] = stays]
      BY <1>3, <1>15
    <2>2. later # page /\ page # {} /\ inWindow = page
      BY <1>15
    <2>3. /\ top \in S /\ top \in Nat /\ job.since <= top /\ top <= job.cut
          /\ job.since \notin S /\ read = { m \in S : job.since < m /\ m <= top }
          /\ ReviewPage <= Cardinality(read)
      <3> HIDE DEF S, N, G, later, page
      <3>1. { k \in page : k <= job.cut } = page
        BY <2>2
      <3> HIDE DEF read, inWindow
      <3> QED
        BY <1>page, <2>2, <3>1, ReviewGoesOn
    <2>4. Cardinality(read) < PerChat
      <3>1. ~(Cardinality(read) >= PerChat)
        BY <1>15
      <3>2. Cardinality(read) \in Nat
        BY <1>12, InboxBounds, PartsFinite
      <3> QED
        BY <3>1, <3>2, InboxBounds
    <2> HIDE DEF top, read
    <2>5. stays = [job EXCEPT !.part = read, !.from = top]
      BY DEF top
    <2>6. top \in 0 .. MaxPosts
      BY <1>4, <2>3, InboxBounds
    <2>7. stays \in ErrandType
      BY <1>1, <1>12, <2>5, <2>6 DEF ErrandType
    <2>8. /\ stays.at = "read" /\ stays.kind = "review" /\ stays.state = job.state /\ stays.since = job.since
          /\ stays.cut = job.cut /\ stays.from = top /\ stays.until = job.until /\ stays.todo = job.todo
          /\ stays.got = job.got /\ stays.over = job.over /\ stays.part = read /\ stays.more = job.more
      BY <1>1, <2>5 DEF ErrandType
    <2> HIDE DEF stays
    <2>9. StartsWell(stays, Seen, Covered)
      BY <1>1, <2>8 DEF StartsWell, JobTrue
    <2>10. Bounded(stays, Len(log))
      BY <1>4, <2>3, <2>8 DEF Bounded
    <2>11. ReviewReadsAll(stays, log)
      BY <1>1, <2>8 DEF ReviewReadsAll, JobTrue
    <2>12. PagesRead(stays, log)
      BY <1>6, <2>3, <2>4, <2>8 DEF PagesRead
    <2>13. InboxReadsAll(stays, log)
      BY <2>8 DEF InboxReadsAll
    <2>14. JobTrue(stays, log, Seen, Covered)
      BY <2>9, <2>10, <2>11, <2>12, <2>13 DEF JobTrue
    <2> QED
      BY <1>2, <2>1, <2>7, <2>14, LogOfInv, RunnerGoes
  <1> QED
    BY <1>14, <1>15

LEMMA ReviewPrintsStep == ASSUME InboxInv, NEW r \in Runners, ReviewPrints(r) PROVE InboxInv'
  <1> DEFINE job == errand[r]
  <1>1. /\ job \in ErrandType /\ JobTrue(job, log, Seen, Covered)
        /\ job.at = "read" /\ job.kind = "review" /\ job.todo = << >>
    BY LogOfInv DEF ReviewPrints
  <1>2. UNCHANGED << log, saved, runs, shown, pointedAt, buried >> /\ errand' = [errand EXCEPT ![r] = Free]
    BY DEF ReviewPrints
  <1>3. reviewed' = reviewed \cup job.got /\ outrun' = outrun \cup job.over
    BY DEF ReviewPrints
  <1>4. PICK heard \in BOOLEAN : point' = IF Complete(job, heard) THEN job.cut ELSE job.since
    BY DEF ReviewPrints
  <1> HIDE DEF job
  <1>5. Seen' = Seen /\ Covered \subseteq Covered' /\ job.got \cup job.over \subseteq Covered'
    BY <1>2, <1>3 DEF Seen, Covered
  <1>6. /\ job.since \in Nat /\ job.cut \in Nat /\ job.cut <= Len(log) /\ job.since <= Len(log)
        /\ job.cut \in 0 .. MaxPosts /\ job.since \in 0 .. MaxPosts /\ 1 .. job.since \subseteq Covered
    BY <1>1, ErrandFields, InboxBounds DEF JobTrue, Bounded, StartsWell
  <1>7. ASSUME ~ job.more PROVE 1 .. job.cut \subseteq Covered'
    <2> SUFFICES ASSUME NEW m \in 1 .. job.cut PROVE m \in Covered'
      OBVIOUS
    <2>1. m \in Nat /\ 1 <= m
      BY <1>6
    <2>2. CASE m <= job.since
      <3>1. m \in 1 .. job.since
        BY <1>6, <2>1, <2>2
      <3> QED
        BY <1>5, <1>6, <3>1
    <2>3. CASE job.since < m
      <3>1. ToSet(job.todo) = {}
        BY <1>1 DEF ToSet
      <3>2. log[m] \in ToSet(job.todo) \/ m \in job.got \cup job.over
        BY <1>1, <1>7, <2>3 DEF JobTrue, ReviewReadsAll
      <3> QED
        BY <1>5, <3>1, <3>2
    <2> QED
      BY <1>6, <2>1, <2>2, <2>3
  <1>8. point' \in 0 .. MaxPosts /\ point' <= Len(log) /\ 1 .. point' \subseteq Covered'
    <2>1. CASE Complete(job, heard)
      BY <1>4, <1>6, <1>7, <2>1 DEF Complete
    <2>2. CASE ~ Complete(job, heard)
      BY <1>4, <1>5, <1>6, <2>2
    <2> QED
      BY <2>1, <2>2
  <1>9. shown' \cup pointedAt' \cup reviewed' \cup buried' \cup outrun' \subseteq 1 .. MaxPosts
    <2>1. job.got \in SUBSET (1 .. MaxPosts) /\ job.over \in SUBSET (1 .. MaxPosts)
      BY <1>1, ErrandFields
    <2> QED
      BY <1>2, <1>3, <2>1, LogOfInv
  <1>10. saved' \in 0 .. MaxPosts /\ saved' <= Len(log) /\ Theirs(1 .. saved') \subseteq Seen' /\ runs' \in 0 .. MaxRuns
    BY <1>2, <1>5, LogOfInv
  <1>11. Free \in ErrandType /\ JobTrue(Free, log, Seen', Covered')
    BY FreeIsTrue, LogOfInv
  <1> QED
    BY <1>2, <1>5, <1>8, <1>9, <1>10, <1>11, RunnerMoves

LEMMA InboxInvInit == InboxInit => InboxInv
  <1> SUFFICES ASSUME InboxInit PROVE InboxInv
    OBVIOUS
  <1>1. log = << >> /\ log \in Seq(Chats) /\ Len(log) = 0
    BY EmptySeq DEF InboxInit
  <1>2. InboxTyped
    <2>1. 0 \in 0 .. MaxPosts /\ 0 \in 0 .. MaxRuns /\ Len(log) <= MaxPosts
      BY <1>1, InboxBounds
    <2>2. ToSet(log) \subseteq Chats
      BY <1>1 DEF ToSet
    <2>3. shown \cup pointedAt \cup reviewed \cup buried \cup outrun \subseteq 1 .. MaxPosts
      BY DEF InboxInit
    <2>4. errand \in [Runners -> ErrandType]
      BY FreeIsTrue DEF InboxInit
    <2> QED
      BY <1>1, <2>1, <2>2, <2>3, <2>4 DEF InboxTyped, InboxTypeOK, InboxInit
  <1>3. saved <= Len(log) /\ point <= Len(log) /\ Theirs(1 .. saved) \subseteq Seen /\ 1 .. point \subseteq Covered
    BY <1>1 DEF InboxInit, Theirs
  <1>4. \A r \in Runners : JobTrue(errand[r], log, Seen, Covered)
    BY <1>1, FreeIsTrue DEF InboxInit
  <1> QED
    BY <1>2, <1>3, <1>4 DEF InboxInv

LEMMA InboxInvNext == InboxInv /\ [InboxNext]_inboxVars => InboxInv'
  <1> SUFFICES ASSUME InboxInv, [InboxNext]_inboxVars PROVE InboxInv'
    OBVIOUS
  <1>1. CASE Arrive
    BY <1>1, ArriveStep
  <1>2. ASSUME NEW r \in Runners, Start(r) \/ LoggedIn(r) \/ ListChats(r) \/ Dies(r) PROVE InboxInv'
    BY <1>2, StartStep, LoggedInStep, ListChatsStep, DiesStep
  <1>3. ASSUME NEW r \in Runners, InboxReads(r) \/ InboxPrints(r) \/ InboxSaves(r) PROVE InboxInv'
    BY <1>3, InboxReadsStep, InboxPrintsStep, InboxSavesStep
  <1>4. ASSUME NEW r \in Runners, ReviewReads(r) \/ ReviewPrints(r) PROVE InboxInv'
    BY <1>4, ReviewReadsStep, ReviewPrintsStep
  <1>5. CASE UNCHANGED inboxVars
    BY <1>5 DEF inboxVars, InboxInv, InboxTyped, InboxTypeOK, Seen, Covered, Theirs
  <1> QED
    BY <1>1, <1>2, <1>3, <1>4, <1>5 DEF InboxNext

LEMMA InboxInvAlways == InboxSpec => []InboxInv
  BY InboxInvInit, InboxInvNext, PTL DEF InboxSpec

\* What a run of inbox or review carries from its login to its print has its type, and every message
\* it holds is one that may have been sent.
THEOREM InboxTypeCorrect == InboxSpec => []InboxTypeOK
  <1>1. InboxInv => InboxTypeOK
    BY DEF InboxInv, InboxTyped
  <1> QED
    BY <1>1, InboxInvAlways, PTL

\* Neither the saved point of `inbox --new` nor the point a review says to start from passes a message
\* its owner was not shown, but for those that newer ones hid from the inbox's page and those past
\* the two pages a review reads: for any number of runs at once, chats, pages and limits, although
\* a run may die anywhere and another command may write an older point back.
THEOREM PointsAreSafe == InboxSpec => []PointsLoseNothing
  <1>1. InboxInv => PointsLoseNothing
    BY DEF InboxInv, PointsLoseNothing, Seen, Covered
  <1> QED
    BY <1>1, InboxInvAlways, PTL
=============================================================================

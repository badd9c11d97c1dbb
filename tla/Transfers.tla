------------------------------- MODULE Transfers -------------------------------
(***************************************************************************)
(* Files that come over https: the attachments of a message                 *)
(* (src/src/download.ts), and the speech models a recording is turned into  *)
(* text with (src/src/transcribe/install.ts, src/src/transcribe/index.ts).  *)
(* Both write under a name of the process first, `.part`; an attachment     *)
(* then gets its name by a hard link, which fails where a file is, a model  *)
(* by a rename, once its sha256 is right.                                   *)
(*                                                                          *)
(* A file is a number of chunks.  A response that ends early is an error of *)
(* HTTP.  A process that dies leaves its `.part`, and a later one may get   *)
(* its number.  Deletion of attachments or models by hand is left out.      *)
(***************************************************************************)
EXTENDS Integers, Sequences, FiniteSets

CONSTANTS
  Fetchers,     \* processes, by their numbers
  Attached,     \* how many attachments the message has, all of one name
  Size,         \* chunks of an attachment, and of a file of a model
  Redirects,    \* REDIRECTS
  MaxFetches    \* bound: commands

VARIABLES
  fetcher,      \* of each process: its command, where it is, and which file it is at
  arriving,     \* of each process: redirects followed, chunks come, whether the bytes are those expected
  partial,      \* its `.part` file of each name: none, or its contents
  named,        \* the file under each name: none, or its contents
  fetches

transferVars == << fetcher, arriving, partial, named, fetches >>

ASSUME TransferAssumption ==
  /\ {Attached, Size} \subseteq Nat \ {0}
  /\ Redirects \in Nat /\ MaxFetches \in Nat

----------------------------------------------------------------------------
\* placed(): the files of a model, in order.  The voice detector lies beside every model.
Placed == << "encoder", "vad" >>
ModelFiles == { Placed[i] : i \in DOMAIN Placed }
Names == ModelFiles \cup {"attachment"}

Nothing == [hops |-> 0, got |-> 0, good |-> TRUE]
Contents(by, got, good) == [by |-> by, got |-> got, good |-> good]
NotFetching == [task |-> "none", at |-> "idle", file |-> 1]

TransfersInit ==
  /\ fetcher = [p \in Fetchers |-> NotFetching]
  /\ arriving = [p \in Fetchers |-> Nothing]
  /\ partial = [p \in Fetchers |-> [n \in Names |-> {}]]
  /\ named = [n \in Names |-> {}]
  /\ fetches = 0

NameOf(p) == IF fetcher[p].task = "install" THEN Placed[fetcher[p].file] ELSE "attachment"

IsThere(n) == \E f \in named[n] : f.got = Size      \* sizeOf(path) === file.bytes
IsInstalled == \A n \in ModelFiles : IsThere(n)

Moves(p, at) == fetcher' = [fetcher EXCEPT ![p].at = at]

\* A command begins.  `transcribe` refuses a model that is not installed before it connects.
StartFetch(p, task) ==
  /\ fetcher[p].at = "idle"
  /\ fetches < MaxFetches /\ fetches' = fetches + 1
  /\ task = "transcribe" => IsInstalled
  /\ fetcher' = [fetcher EXCEPT ![p] = [task |-> task, at |-> IF task = "transcribe" THEN "hearing" ELSE "next", file |-> 1]]
  /\ UNCHANGED << arriving, partial, named >>

\* The links of a message one after another; the files of a model that are not there yet.
More(p) ==
  IF fetcher[p].task = "install" THEN fetcher[p].file <= Len(Placed) ELSE fetcher[p].file <= Attached

NextFile(p) ==
  /\ fetcher[p].at = "next" /\ More(p)
  /\ arriving' = [arriving EXCEPT ![p] = Nothing]
  /\ IF fetcher[p].task = "install" /\ IsThere(NameOf(p))
     THEN fetcher' = [fetcher EXCEPT ![p].file = @ + 1]
     ELSE Moves(p, "opening")
  /\ UNCHANGED << partial, named, fetches >>

AllFetched(p) ==
  /\ fetcher[p].at = "next" /\ ~More(p)
  /\ fetcher' = [fetcher EXCEPT ![p] = NotFetching]
  /\ UNCHANGED << arriving, partial, named, fetches >>

----------------------------------------------------------------------------
\* open(): redirects by hand, each checked; an install leaves them to fetch.
Redirected(p) ==
  /\ fetcher[p].at = "opening" /\ fetcher[p].task = "save"
  /\ arriving[p].hops < Redirects
  /\ arriving' = [arriving EXCEPT ![p].hops = @ + 1]
  /\ UNCHANGED << fetcher, partial, named, fetches >>

\* `wx` does not open a `.part` that is there; an install writes over it.
MayCreate(p) == fetcher[p].task = "save" => partial[p][NameOf(p)] = {}

Responds(p, good) ==
  /\ fetcher[p].at = "opening"
  /\ fetcher[p].task = "save" => good
  /\ arriving' = [arriving EXCEPT ![p].good = good]
  /\ IF MayCreate(p)
     THEN Moves(p, "pumping") /\ partial' = [partial EXCEPT ![p][NameOf(p)] = {Contents(p, 0, good)}]
     ELSE Moves(p, "failing") /\ UNCHANGED partial
  /\ UNCHANGED << named, fetches >>

Chunk(p) ==
  /\ fetcher[p].at = "pumping"
  /\ arriving[p].got < Size
  /\ arriving' = [arriving EXCEPT ![p].got = @ + 1]
  /\ partial' = [partial EXCEPT ![p][NameOf(p)] = {Contents(p, arriving[p].got + 1, arriving[p].good)}]
  /\ UNCHANGED << fetcher, named, fetches >>

\* The last chunk has come; of a model, the hash is compared.
VerifiedBySize(p) == TRUE   \* a mutant: the size is enough
Verified(p) == fetcher[p].task = "save" \/ arriving[p].good

BodyEnds(p) ==
  /\ fetcher[p].at = "pumping"
  /\ arriving[p].got = Size
  /\ Moves(p, IF Verified(p) THEN "naming" ELSE "failing")
  /\ UNCHANGED << arriving, partial, named, fetches >>

\* link(): never over a file that is there.  rename(): over whatever is.
MayRename(p) == TRUE   \* a mutant: the name is taken over
MayLink(p) == named["attachment"] = {}

Link(p) ==
  /\ fetcher[p].at = "naming" /\ fetcher[p].task = "save"
  /\ IF MayLink(p)
     THEN named' = [named EXCEPT !["attachment"] = partial[p]["attachment"]] /\ Moves(p, "leaving")
     ELSE UNCHANGED named /\ Moves(p, "failing")
  /\ UNCHANGED << arriving, partial, fetches >>

Rename(p) ==
  /\ fetcher[p].at = "naming" /\ fetcher[p].task = "install"
  /\ named' = [named EXCEPT ![NameOf(p)] = partial[p][NameOf(p)]]
  /\ partial' = [partial EXCEPT ![p][NameOf(p)] = {}]
  /\ Moves(p, "leaving")
  /\ UNCHANGED << arriving, fetches >>

\* A link that is refused, leads on too often or answers with an error: no `.part` was touched.
Refused(p) ==
  /\ fetcher[p].at = "opening"
  /\ fetcher' = [fetcher EXCEPT ![p] = NotFetching]
  /\ arriving' = [arriving EXCEPT ![p] = Nothing]
  /\ UNCHANGED << partial, named, fetches >>

\* A body that is too large, or from which no byte came for STALL_MS.
Stalls(p) ==
  /\ fetcher[p].at = "pumping"
  /\ Moves(p, "failing")
  /\ UNCHANGED << arriving, partial, named, fetches >>

\* finally: the `.part` goes, and the next file is due or the command has failed.
Finally(p) ==
  /\ fetcher[p].at \in {"leaving", "failing"}
  /\ partial' = [partial EXCEPT ![p][NameOf(p)] = {}]
  /\ fetcher' = [fetcher EXCEPT ![p] = IF fetcher[p].at = "failing" THEN NotFetching
                                       ELSE [fetcher[p] EXCEPT !.at = "next", !.file = fetcher[p].file + 1]]
  /\ arriving' = [arriving EXCEPT ![p] = Nothing]
  /\ UNCHANGED << named, fetches >>

----------------------------------------------------------------------------
\* transcribe(): the recording comes into memory, the client is closed, and the model is loaded.
HasModel == IsInstalled

Hears(p) ==
  /\ fetcher[p].at = "hearing" /\ HasModel
  /\ Moves(p, "recognizing")
  /\ UNCHANGED << arriving, partial, named, fetches >>

Heard(p) ==
  /\ fetcher[p].at \in {"hearing", "recognizing"}
  /\ fetcher' = [fetcher EXCEPT ![p] = NotFetching]
  /\ UNCHANGED << arriving, partial, named, fetches >>

FetcherDies(p) ==
  /\ fetcher[p].at # "idle"
  /\ fetcher' = [fetcher EXCEPT ![p] = NotFetching]
  /\ arriving' = [arriving EXCEPT ![p] = Nothing]
  /\ UNCHANGED << partial, named, fetches >>

FetcherStep(p) ==
  \/ \E task \in {"save", "install", "transcribe"} : StartFetch(p, task)
  \/ NextFile(p) \/ AllFetched(p)
  \/ Redirected(p) \/ (\E good \in BOOLEAN : Responds(p, good)) \/ Chunk(p) \/ BodyEnds(p)
  \/ Link(p) \/ Rename(p) \/ Refused(p) \/ Stalls(p) \/ Finally(p)
  \/ Hears(p) \/ Heard(p) \/ FetcherDies(p)

TransfersNext == \E p \in Fetchers : FetcherStep(p)
TransfersSpec == TransfersInit /\ [][TransfersNext]_transferVars

----------------------------------------------------------------------------
Files == { {} } \cup { {f} : f \in [by : Fetchers, got : 0 .. Size, good : BOOLEAN] }

TransfersTypeOK ==
  /\ fetcher \in [Fetchers -> [task : {"none", "save", "install", "transcribe"},
                               at : {"idle", "next", "opening", "pumping", "naming", "leaving", "failing",
                                     "hearing", "recognizing"},
                               file : 1 .. Attached + Len(Placed) + 1]]
  /\ arriving \in [Fetchers -> [hops : 0 .. Redirects, got : 0 .. Size, good : BOOLEAN]]
  /\ partial \in [Fetchers -> [Names -> Files]]
  /\ named \in [Names -> Files]
  /\ fetches \in 0 .. MaxFetches

(***************************************************************************)
(* Downloads and installs that cross, stall, are refused or die leave no    *)
(* half file under a name somebody will open, and none of a model whose     *)
(* hash was not right: isInstalled looks at sizes alone                     *)
(* (src/src/transcribe/install.ts:29).  A recording is heard by a model     *)
(* that is there whole.                                                     *)
(***************************************************************************)
NamedIsWhole ==
  /\ \A n \in Names : \A f \in named[n] : f.got = Size /\ f.good
  /\ (\E p \in Fetchers : fetcher[p].at = "recognizing") => \A n \in ModelFiles : named[n] # {}

(***************************************************************************)
(* A download never replaces a file that is there, not even one that came   *)
(* while it ran (src/src/download.ts:201).                                  *)
(***************************************************************************)
NothingReplaced == [][named["attachment"] # {} => named'["attachment"] = named["attachment"]]_transferVars
=============================================================================

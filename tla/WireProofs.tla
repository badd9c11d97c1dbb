----------------------------- MODULE WireProofs -----------------------------
(***************************************************************************)
(* What goes over a socket: what Connection, LocalSocket and Transfers      *)
(* promise, for every value of their constants.                             *)
(***************************************************************************)
EXTENDS Connection, LocalSocket, Transfers, SequenceTheorems, FiniteSetTheorems, TLAPS

----------------------------------------------------------------------------
\* Transfers: what a process has written of the file it is at.
AtFile == {"opening", "pumping", "naming", "leaving", "failing"}

FileIsDue ==
  \A p \in Fetchers :
    /\ fetcher[p].at \in AtFile => fetcher[p].task \in {"save", "install"} /\ More(p)
    /\ fetcher[p].at = "next" => fetcher[p].task \in {"save", "install"}

PartialIsWhatCame ==
  \A p \in Fetchers :
    /\ fetcher[p].at = "pumping" =>
         /\ partial[p][NameOf(p)] = {Contents(p, arriving[p].got, arriving[p].good)}
         /\ fetcher[p].task = "save" => arriving[p].good
    /\ fetcher[p].at = "naming" => partial[p][NameOf(p)] = {Contents(p, Size, TRUE)}
    /\ fetcher[p].at = "opening" => arriving[p].got = 0

TransfersInv == TransfersTypeOK /\ FileIsDue /\ PartialIsWhatCame /\ NamedIsWhole

LEMMA ModelNames ==
  /\ ModelFiles = {"encoder", "vad"} /\ ModelFiles \subseteq Names /\ "attachment" \in Names
  /\ "attachment" \notin ModelFiles /\ Len(Placed) = 2 /\ Placed[1] \in ModelFiles /\ Placed[2] \in ModelFiles
  BY DEF ModelFiles, Placed, Names

LEMMA NameIsOne ==
  ASSUME TransfersTypeOK, FileIsDue, NEW p \in Fetchers, fetcher[p].at \in AtFile
  PROVE  /\ NameOf(p) \in Names
         /\ fetcher[p].task = "save" => NameOf(p) = "attachment"
         /\ fetcher[p].task = "install" => NameOf(p) \in ModelFiles
  <1>1. fetcher[p].task \in {"save", "install"} /\ More(p) /\ fetcher[p].file \in Nat \ {0}
    BY DEF FileIsDue, TransfersTypeOK
  <1>2. fetcher[p].task = "install" => fetcher[p].file \in {1, 2}
    BY <1>1, ModelNames DEF More
  <1> QED
    BY <1>1, <1>2, ModelNames DEF NameOf

\* The actions that move a process only, and those that write.
LEMMA TransfersInvInit == TransfersInit => TransfersInv
  <1> SUFFICES ASSUME TransfersInit PROVE TransfersInv
    OBVIOUS
  <1>1. TransfersTypeOK
    BY TransferAssumption, ModelNames DEF TransfersInit, TransfersTypeOK, NotFetching, Nothing, Files
  <1>2. FileIsDue /\ PartialIsWhatCame /\ NamedIsWhole
    BY DEF TransfersInit, FileIsDue, PartialIsWhatCame, NamedIsWhole, NotFetching, AtFile
  <1> QED
    BY <1>1, <1>2 DEF TransfersInv

FetcherStates ==
  [ task : {"none", "save", "install", "transcribe"},
    at : {"idle", "next", "opening", "pumping", "naming", "leaving", "failing", "hearing", "recognizing"},
    file : 1 .. Attached + Len(Placed) + 1 ]

ArrivingStates == [hops : 0 .. Redirects, got : 0 .. Size, good : BOOLEAN]

LEMMA TransfersParts ==
  TransfersTypeOK <=>
    /\ fetcher \in [Fetchers -> FetcherStates] /\ arriving \in [Fetchers -> ArrivingStates]
    /\ partial \in [Fetchers -> [Names -> Files]] /\ named \in [Names -> Files] /\ fetches \in 0 .. MaxFetches
  BY DEF TransfersTypeOK, FetcherStates, ArrivingStates

\* A process that moves, and one that goes on to its next file.
LEMMA FetcherMoves ==
  ASSUME fetcher \in [Fetchers -> FetcherStates], NEW p \in Fetchers,
         NEW place \in {"next", "opening", "pumping", "naming", "leaving", "failing", "recognizing"},
         fetcher' = [fetcher EXCEPT ![p].at = place]
  PROVE  fetcher' \in [Fetchers -> FetcherStates]
  BY DEF FetcherStates

LEMMA FetcherGoesOn ==
  ASSUME fetcher \in [Fetchers -> FetcherStates], NEW p \in Fetchers, More(p)
  PROVE  /\ [fetcher[p] EXCEPT !.file = fetcher[p].file + 1] \in FetcherStates
         /\ [fetcher[p] EXCEPT !.at = "next", !.file = fetcher[p].file + 1] \in FetcherStates
  <1>1. fetcher[p] \in FetcherStates
    OBVIOUS
  <1>2. fetcher[p].file \in Nat \ {0} /\ Attached \in Nat \ {0} /\ Len(Placed) = 2
    BY <1>1, TransferAssumption, ModelNames DEF FetcherStates
  <1>3. fetcher[p].file + 1 \in 1 .. Attached + Len(Placed) + 1
    BY <1>2 DEF More
  <1> QED
    BY <1>1, <1>3 DEF FetcherStates

LEMMA FilesOf ==
  /\ {} \in Files
  /\ \A p \in Fetchers, got \in 0 .. Size, good \in BOOLEAN : {Contents(p, got, good)} \in Files
  BY DEF Files, Contents

LEMMA PartialChanges ==
  ASSUME partial \in [Fetchers -> [Names -> Files]], NEW p \in Fetchers, NEW n \in Names, NEW file \in Files,
         partial' = [partial EXCEPT ![p][n] = file]
  PROVE  /\ partial' \in [Fetchers -> [Names -> Files]]
         /\ partial'[p][n] = file
         /\ \A q \in Fetchers, m \in Names : q # p \/ m # n => partial'[q][m] = partial[q][m]
  OBVIOUS

\* The types, action by action.
LEMMA FetcherTypeStep ==
  ASSUME TransfersInv, NEW p \in Fetchers, FetcherStep(p)
  PROVE  TransfersTypeOK'
  <1>1. TransfersTypeOK /\ FileIsDue
    BY DEF TransfersInv
  <1>2. /\ Attached \in Nat \ {0} /\ Size \in Nat \ {0} /\ Redirects \in Nat /\ MaxFetches \in Nat
        /\ Len(Placed) = 2 /\ "attachment" \in Names
    BY TransferAssumption, ModelNames
  <1>3. fetcher[p].at \in AtFile => NameOf(p) \in Names /\ fetcher[p].task \in {"save", "install"} /\ More(p)
    BY <1>1, NameIsOne DEF FileIsDue
  <1>4. ASSUME \E task \in {"save", "install", "transcribe"} : StartFetch(p, task) PROVE TransfersTypeOK'
    BY <1>1, <1>2, <1>3, <1>4 DEF TransfersTypeOK, StartFetch, NotFetching
  <1>5. ASSUME NextFile(p) PROVE TransfersTypeOK'
    <2>1. /\ arriving' = [arriving EXCEPT ![p] = Nothing] /\ UNCHANGED << partial, named, fetches >>
          /\ More(p)
          /\ \/ fetcher' = [fetcher EXCEPT ![p].file = @ + 1]
             \/ fetcher' = [fetcher EXCEPT ![p].at = "opening"]
      BY <1>5 DEF NextFile, Moves
    <2>2. [fetcher[p] EXCEPT !.file = fetcher[p].file + 1] \in FetcherStates
      BY <1>1, <2>1, TransfersParts, FetcherGoesOn
    <2>3. fetcher' \in [Fetchers -> FetcherStates]
      BY <1>1, <2>1, <2>2, TransfersParts, FetcherMoves
    <2>4. arriving' \in [Fetchers -> ArrivingStates]
      BY <1>1, <1>2, <2>1, TransfersParts DEF ArrivingStates, Nothing
    <2>5. (partial \in [Fetchers -> [Names -> Files]] /\ named \in [Names -> Files] /\ fetches \in 0 .. MaxFetches)'
      BY <1>1, <2>1, TransfersParts
    <2> QED
      BY <2>3, <2>4, <2>5 DEF TransfersTypeOK, FetcherStates, ArrivingStates
  <1>6. ASSUME AllFetched(p) PROVE TransfersTypeOK'
    BY <1>1, <1>2, <1>3, <1>6 DEF TransfersTypeOK, AllFetched, NotFetching
  <1>7. ASSUME Redirected(p) PROVE TransfersTypeOK'
    <2>1. /\ arriving[p].hops < Redirects /\ arriving' = [arriving EXCEPT ![p].hops = @ + 1]
          /\ UNCHANGED << fetcher, partial, named, fetches >>
      BY <1>7 DEF Redirected
    <2>2. arriving[p] \in ArrivingStates /\ [arriving[p] EXCEPT !.hops = arriving[p].hops + 1] \in ArrivingStates
      BY <1>1, <1>2, <2>1, TransfersParts DEF ArrivingStates
    <2>3. arriving' \in [Fetchers -> ArrivingStates]
      BY <1>1, <2>1, <2>2, TransfersParts
    <2> QED
      BY <1>1, <2>1, <2>3, TransfersParts DEF TransfersTypeOK, FetcherStates, ArrivingStates
  <1>8. ASSUME \E good \in BOOLEAN : Responds(p, good) PROVE TransfersTypeOK'
    <2>1. PICK good \in BOOLEAN : Responds(p, good)
      BY <1>8
    <2>2. NameOf(p) \in Names /\ 0 \in 0 .. Size
      BY <1>2, <1>3, <2>1 DEF Responds, AtFile
    <2>3. (partial \in [Fetchers -> [Names -> Files]])'
      BY <1>1, <2>1, <2>2, FilesOf, PartialChanges DEF TransfersTypeOK, Responds
    <2>4. /\ \E place \in {"pumping", "failing"} : fetcher' = [fetcher EXCEPT ![p].at = place]
          /\ arriving' = [arriving EXCEPT ![p].good = good] /\ UNCHANGED << named, fetches >>
      BY <2>1 DEF Responds, Moves
    <2>5. arriving' \in [Fetchers -> ArrivingStates]
      BY <1>1, <2>4, TransfersParts DEF ArrivingStates
    <2>6. fetcher' \in [Fetchers -> FetcherStates] /\ named' \in [Names -> Files] /\ fetches' \in 0 .. MaxFetches
      BY <1>1, <2>4, TransfersParts, FetcherMoves
    <2> QED
      BY <2>3, <2>5, <2>6 DEF TransfersTypeOK, FetcherStates, ArrivingStates
  <1>9. ASSUME Chunk(p) PROVE TransfersTypeOK'
    <2>1. /\ arriving[p].got + 1 \in 0 .. Size /\ arriving[p].good \in BOOLEAN /\ NameOf(p) \in Names
          /\ arriving' = [arriving EXCEPT ![p].got = @ + 1]
          /\ partial' = [partial EXCEPT ![p][NameOf(p)] = {Contents(p, arriving[p].got + 1, arriving[p].good)}]
          /\ UNCHANGED << fetcher, named, fetches >>
      BY <1>1, <1>2, <1>3, <1>9 DEF Chunk, AtFile, TransfersTypeOK
    <2>2. (partial \in [Fetchers -> [Names -> Files]])'
      BY <1>1, <2>1, FilesOf, PartialChanges DEF TransfersTypeOK
    <2> QED
      BY <1>1, <1>2, <2>1, <2>2 DEF TransfersTypeOK
  <1>10. ASSUME BodyEnds(p) PROVE TransfersTypeOK'
    BY <1>1, <1>2, <1>3, <1>10 DEF TransfersTypeOK, BodyEnds, Moves, AtFile
  <1>11. ASSUME Link(p) PROVE TransfersTypeOK'
    <2>1. /\ named' = [named EXCEPT !["attachment"] = partial[p]["attachment"]] \/ named' = named
          /\ \E place \in {"leaving", "failing"} : fetcher' = [fetcher EXCEPT ![p].at = place]
          /\ UNCHANGED << arriving, partial, fetches >>
      BY <1>11 DEF Link, Moves
    <2>2. (named \in [Names -> Files])'
      BY <1>1, <1>2, <2>1 DEF TransfersTypeOK
    <2>4. fetcher' \in [Fetchers -> FetcherStates]
      BY <1>1, <2>1, TransfersParts, FetcherMoves
    <2>5. (arriving \in [Fetchers -> ArrivingStates] /\ fetches \in 0 .. MaxFetches
           /\ partial \in [Fetchers -> [Names -> Files]])'
      BY <1>1, <2>1, TransfersParts
    <2> QED
      BY <2>2, <2>4, <2>5 DEF TransfersTypeOK, FetcherStates, ArrivingStates
  <1>12. ASSUME Rename(p) PROVE TransfersTypeOK'
    <2>1. /\ named' = [named EXCEPT ![NameOf(p)] = partial[p][NameOf(p)]]
          /\ partial' = [partial EXCEPT ![p][NameOf(p)] = {}]
          /\ fetcher' = [fetcher EXCEPT ![p].at = "leaving"] /\ UNCHANGED << arriving, fetches >>
          /\ NameOf(p) \in Names
      BY <1>3, <1>12 DEF Rename, Moves, AtFile
    <2>2. (partial \in [Fetchers -> [Names -> Files]])'
      BY <1>1, <2>1, FilesOf, PartialChanges DEF TransfersTypeOK
    <2>3. (named \in [Names -> Files])'
      BY <1>1, <2>1 DEF TransfersTypeOK
    <2>4. fetcher' \in [Fetchers -> FetcherStates]
      BY <1>1, <2>1, TransfersParts, FetcherMoves
    <2>5. (arriving \in [Fetchers -> ArrivingStates] /\ fetches \in 0 .. MaxFetches)'
      BY <1>1, <2>1, TransfersParts
    <2> QED
      BY <2>2, <2>3, <2>4, <2>5 DEF TransfersTypeOK, FetcherStates, ArrivingStates
  <1>13. ASSUME Refused(p) PROVE TransfersTypeOK'
    BY <1>1, <1>2, <1>3, <1>13 DEF TransfersTypeOK, Refused, NotFetching, Nothing, AtFile
  <1>14. ASSUME Stalls(p) PROVE TransfersTypeOK'
    BY <1>1, <1>2, <1>3, <1>14 DEF TransfersTypeOK, Stalls, Moves, AtFile
  <1>15. ASSUME Finally(p) PROVE TransfersTypeOK'
    <2>1. partial' = [partial EXCEPT ![p][NameOf(p)] = {}] /\ fetcher[p].at \in AtFile
      BY <1>15 DEF Finally, AtFile
    <2>2. (partial \in [Fetchers -> [Names -> Files]])'
      BY <1>1, <1>3, <2>1, FilesOf, PartialChanges DEF TransfersTypeOK
    <2>3. [fetcher[p] EXCEPT !.at = "next", !.file = fetcher[p].file + 1] \in FetcherStates
      BY <1>1, <1>3, <2>1, TransfersParts, FetcherGoesOn
    <2>7. NotFetching \in FetcherStates
      BY <1>2 DEF FetcherStates, NotFetching
    <2>4. fetcher' \in [Fetchers -> FetcherStates]
      BY <1>1, <1>15, <2>3, <2>7, TransfersParts DEF Finally
    <2>5. arriving' \in [Fetchers -> ArrivingStates]
      BY <1>1, <1>2, <1>15, TransfersParts DEF Finally, ArrivingStates, Nothing
    <2>6. named' \in [Names -> Files] /\ fetches' \in 0 .. MaxFetches
      BY <1>1, <1>15 DEF TransfersTypeOK, Finally
    <2> QED
      BY <2>2, <2>4, <2>5, <2>6 DEF TransfersTypeOK, FetcherStates, ArrivingStates
  <1>16. ASSUME Hears(p) PROVE TransfersTypeOK'
    BY <1>1, <1>2, <1>3, <1>16 DEF TransfersTypeOK, Hears, Moves
  <1>17. ASSUME Heard(p) PROVE TransfersTypeOK'
    BY <1>1, <1>2, <1>3, <1>17 DEF TransfersTypeOK, Heard, NotFetching
  <1>18. ASSUME FetcherDies(p) PROVE TransfersTypeOK'
    BY <1>1, <1>2, <1>3, <1>18 DEF TransfersTypeOK, FetcherDies, NotFetching, Nothing
  <1> QED
    BY <1>4, <1>5, <1>6, <1>7, <1>8, <1>9, <1>10, <1>11, <1>12, <1>13, <1>14, <1>15, <1>16, <1>17, <1>18 DEF FetcherStep

\* A step of p leaves every other process where it is.
LEMMA OthersStay ==
  ASSUME TransfersInv, NEW p \in Fetchers, FetcherStep(p), NEW q \in Fetchers, q # p
  PROVE  fetcher'[q] = fetcher[q] /\ arriving'[q] = arriving[q] /\ partial'[q] = partial[q]
  <1>1. fetcher \in [Fetchers -> FetcherStates] /\ arriving \in [Fetchers -> ArrivingStates]
        /\ partial \in [Fetchers -> [Names -> Files]]
    BY TransfersParts DEF TransfersInv
  <1> QED
    BY <1>1 DEF FetcherStep, StartFetch, NextFile, AllFetched, Redirected, Responds, Chunk, BodyEnds, Link, Rename, Refused, Stalls, Finally, Hears, Heard, FetcherDies, Moves

Due(p) ==
  /\ fetcher[p].at \in AtFile => fetcher[p].task \in {"save", "install"} /\ More(p)
  /\ fetcher[p].at = "next" => fetcher[p].task \in {"save", "install"}
Came(p) ==
  /\ fetcher[p].at = "pumping" =>
       /\ partial[p][NameOf(p)] = {Contents(p, arriving[p].got, arriving[p].good)}
       /\ fetcher[p].task = "save" => arriving[p].good
  /\ fetcher[p].at = "naming" => partial[p][NameOf(p)] = {Contents(p, Size, TRUE)}
  /\ fetcher[p].at = "opening" => arriving[p].got = 0

LEMMA DueStep ==
  ASSUME TransfersInv, NEW p \in Fetchers, FetcherStep(p)
  PROVE  Due(p)'
  <1>1. fetcher \in [Fetchers -> FetcherStates] /\ Due(p)
    BY TransfersParts DEF TransfersInv, FileIsDue, Due
  <1>2. ASSUME \E task \in {"save", "install", "transcribe"} : StartFetch(p, task) PROVE Due(p)'
    BY <1>1, <1>2 DEF Due, StartFetch, Moves, More, AtFile, NotFetching, FetcherStates
  <1>3. ASSUME NextFile(p) PROVE Due(p)'
    BY <1>1, <1>3 DEF Due, NextFile, Moves, More, AtFile, NotFetching, FetcherStates
  <1>4. ASSUME AllFetched(p) PROVE Due(p)'
    BY <1>1, <1>4 DEF Due, AllFetched, Moves, More, AtFile, NotFetching, FetcherStates
  <1>5. ASSUME Redirected(p) PROVE Due(p)'
    BY <1>1, <1>5 DEF Due, Redirected, Moves, More, AtFile, NotFetching, FetcherStates
  <1>6. ASSUME \E good \in BOOLEAN : Responds(p, good) PROVE Due(p)'
    BY <1>1, <1>6 DEF Due, Responds, Moves, More, AtFile, NotFetching, FetcherStates
  <1>7. ASSUME Chunk(p) PROVE Due(p)'
    BY <1>1, <1>7 DEF Due, Chunk, Moves, More, AtFile, NotFetching, FetcherStates
  <1>8. ASSUME BodyEnds(p) PROVE Due(p)'
    BY <1>1, <1>8 DEF Due, BodyEnds, Moves, More, AtFile, NotFetching, FetcherStates
  <1>9. ASSUME Link(p) PROVE Due(p)'
    BY <1>1, <1>9 DEF Due, Link, Moves, More, AtFile, NotFetching, FetcherStates
  <1>10. ASSUME Rename(p) PROVE Due(p)'
    BY <1>1, <1>10 DEF Due, Rename, Moves, More, AtFile, NotFetching, FetcherStates
  <1>11. ASSUME Refused(p) PROVE Due(p)'
    BY <1>1, <1>11 DEF Due, Refused, Moves, More, AtFile, NotFetching, FetcherStates
  <1>12. ASSUME Stalls(p) PROVE Due(p)'
    BY <1>1, <1>12 DEF Due, Stalls, Moves, More, AtFile, NotFetching, FetcherStates
  <1>13. ASSUME Finally(p) PROVE Due(p)'
    BY <1>1, <1>13 DEF Due, Finally, Moves, More, AtFile, NotFetching, FetcherStates
  <1>14. ASSUME Hears(p) PROVE Due(p)'
    BY <1>1, <1>14 DEF Due, Hears, Moves, More, AtFile, NotFetching, FetcherStates
  <1>15. ASSUME Heard(p) PROVE Due(p)'
    BY <1>1, <1>15 DEF Due, Heard, Moves, More, AtFile, NotFetching, FetcherStates
  <1>16. ASSUME FetcherDies(p) PROVE Due(p)'
    BY <1>1, <1>16 DEF Due, FetcherDies, Moves, More, AtFile, NotFetching, FetcherStates
  <1> QED
    BY <1>2, <1>3, <1>4, <1>5, <1>6, <1>7, <1>8, <1>9, <1>10, <1>11, <1>12, <1>13, <1>14, <1>15, <1>16 DEF FetcherStep

LEMMA CameStep ==
  ASSUME TransfersInv, NEW p \in Fetchers, FetcherStep(p)
  PROVE  Came(p)'
  <1>1. /\ fetcher \in [Fetchers -> FetcherStates] /\ arriving \in [Fetchers -> ArrivingStates]
        /\ partial \in [Fetchers -> [Names -> Files]] /\ Came(p)
        /\ fetcher[p].at \in AtFile => NameOf(p) \in Names
    BY TransfersParts, NameIsOne DEF TransfersInv, PartialIsWhatCame, Came
  <1>2. ASSUME \E task \in {"save", "install", "transcribe"} : StartFetch(p, task) PROVE Came(p)'
    BY <1>1, <1>2 DEF Came, StartFetch, Moves, NameOf, NotFetching, FetcherStates, ArrivingStates, AtFile
  <1>3. ASSUME NextFile(p) PROVE Came(p)'
    <2>1. fetcher'[p].at \notin {"pumping", "naming"} /\ (fetcher'[p].at = "opening" => arriving'[p].got = 0)
      BY <1>1, <1>3 DEF NextFile, Moves, FetcherStates, ArrivingStates, Nothing
    <2> QED
      BY <2>1 DEF Came
  <1>4. ASSUME AllFetched(p) PROVE Came(p)'
    BY <1>1, <1>4 DEF Came, AllFetched, Moves, NameOf, NotFetching, FetcherStates, ArrivingStates, AtFile
  <1>5. ASSUME Redirected(p) PROVE Came(p)'
    BY <1>1, <1>5 DEF Came, Redirected, Moves, NameOf, NotFetching, FetcherStates, ArrivingStates, AtFile
  <1>6. ASSUME NEW good \in BOOLEAN, Responds(p, good) PROVE Came(p)'
    <2>1. /\ fetcher[p].task = "save" => good
          /\ arriving' = [arriving EXCEPT ![p].good = good] /\ NameOf(p) \in Names
      BY <1>1, <1>6 DEF Responds, AtFile
    <2>2. CASE MayCreate(p)
      <3>1. /\ fetcher' = [fetcher EXCEPT ![p].at = "pumping"]
            /\ partial' = [partial EXCEPT ![p][NameOf(p)] = {Contents(p, 0, good)}]
        BY <1>6, <2>2 DEF Responds, Moves
      <3>2. /\ fetcher'[p].at = "pumping" /\ fetcher'[p].task = fetcher[p].task /\ fetcher'[p].file = fetcher[p].file
            /\ partial'[p][NameOf(p)] = {Contents(p, 0, good)}
            /\ arriving'[p].good = good /\ arriving'[p].got = arriving[p].got
        BY <1>1, <2>1, <3>1 DEF FetcherStates, ArrivingStates
      <3>3. NameOf(p)' = NameOf(p)
        BY <3>2 DEF NameOf
      <3>4. arriving[p].got = 0
        BY <1>1, <1>6 DEF Came, Responds
      <3> QED
        BY <2>1, <3>2, <3>3, <3>4 DEF Came
    <2>3. CASE ~MayCreate(p)
      <3>1. fetcher'[p].at = "failing"
        BY <1>1, <1>6, <2>3 DEF Responds, Moves, FetcherStates
      <3> QED
        BY <3>1 DEF Came
    <2> QED
      BY <2>2, <2>3
  <1>7. ASSUME Chunk(p) PROVE Came(p)'
    BY <1>1, <1>7 DEF Came, Chunk, Moves, NameOf, NotFetching, FetcherStates, ArrivingStates, AtFile
  <1>8. ASSUME BodyEnds(p) PROVE Came(p)'
    <2>1. /\ fetcher'[p].at = IF Verified(p) THEN "naming" ELSE "failing"
          /\ fetcher'[p].task = fetcher[p].task /\ fetcher'[p].file = fetcher[p].file /\ partial' = partial
          /\ fetcher[p].at = "pumping" /\ arriving[p].got = Size
      BY <1>1, <1>8 DEF BodyEnds, Moves, FetcherStates
    <2>2. NameOf(p)' = NameOf(p)
      BY <2>1 DEF NameOf
    <2>3. Verified(p) => arriving[p].good = TRUE
      BY <1>1, <2>1 DEF Verified, Came, ArrivingStates
    <2>4. Verified(p) => partial[p][NameOf(p)] = {Contents(p, Size, TRUE)}
      BY <1>1, <2>1, <2>3 DEF Came
    <2> QED
      BY <2>1, <2>2, <2>4 DEF Came
  <1>9. ASSUME Link(p) PROVE Came(p)'
    <2>1. fetcher'[p].at \notin {"pumping", "naming"} /\ (fetcher'[p].at = "opening" => arriving'[p].got = 0)
      BY <1>1, <1>9 DEF Link, Moves, FetcherStates
    <2> QED
      BY <2>1 DEF Came
  <1>10. ASSUME Rename(p) PROVE Came(p)'
    BY <1>1, <1>10 DEF Came, Rename, Moves, NameOf, NotFetching, FetcherStates, ArrivingStates, AtFile
  <1>11. ASSUME Refused(p) PROVE Came(p)'
    BY <1>1, <1>11 DEF Came, Refused, Moves, NameOf, NotFetching, FetcherStates, ArrivingStates, AtFile
  <1>12. ASSUME Stalls(p) PROVE Came(p)'
    BY <1>1, <1>12 DEF Came, Stalls, Moves, NameOf, NotFetching, FetcherStates, ArrivingStates, AtFile
  <1>13. ASSUME Finally(p) PROVE Came(p)'
    BY <1>1, <1>13 DEF Came, Finally, Moves, NameOf, NotFetching, FetcherStates, ArrivingStates, AtFile
  <1>14. ASSUME Hears(p) PROVE Came(p)'
    BY <1>1, <1>14 DEF Came, Hears, Moves, NameOf, NotFetching, FetcherStates, ArrivingStates, AtFile
  <1>15. ASSUME Heard(p) PROVE Came(p)'
    BY <1>1, <1>15 DEF Came, Heard, Moves, NameOf, NotFetching, FetcherStates, ArrivingStates, AtFile
  <1>16. ASSUME FetcherDies(p) PROVE Came(p)'
    BY <1>1, <1>16 DEF Came, FetcherDies, Moves, NameOf, NotFetching, FetcherStates, ArrivingStates, AtFile
  <1> QED
    BY <1>2, <1>3, <1>4, <1>5, <1>6, <1>7, <1>8, <1>9, <1>10, <1>11, <1>12, <1>13, <1>14, <1>15, <1>16 DEF FetcherStep

\* A name is only given to what is whole, and a download gives its own only where there is none.
LEMMA NamedStep ==
  ASSUME TransfersInv, NEW p \in Fetchers, FetcherStep(p)
  PROVE  /\ NamedIsWhole'
         /\ named["attachment"] # {} => named'["attachment"] = named["attachment"]
  <1>1. /\ fetcher \in [Fetchers -> FetcherStates] /\ partial \in [Fetchers -> [Names -> Files]]
        /\ named \in [Names -> Files] /\ FileIsDue /\ Came(p) /\ NamedIsWhole /\ TransfersTypeOK
    BY TransfersParts DEF TransfersInv, PartialIsWhatCame, Came
  <1>2. \/ named' = named
        \/ \E n \in Names :
             /\ named' = [named EXCEPT ![n] = {Contents(p, Size, TRUE)}]
             /\ n = "attachment" => named["attachment"] = {}
    <2>1. CASE Link(p) /\ MayLink(p)
      <3>1. fetcher[p].at = "naming" /\ NameOf(p) = "attachment" /\ "attachment" \in Names
        BY <1>1, <2>1, NameIsOne, ModelNames DEF Link, AtFile
      <3> QED
        BY <1>1, <2>1, <3>1 DEF Link, MayLink, Came
    <2>2. CASE Rename(p)
      <3>1. fetcher[p].at = "naming" /\ NameOf(p) \in ModelFiles /\ NameOf(p) \in Names
        BY <1>1, <2>2, NameIsOne, ModelNames DEF Rename, AtFile
      <3>2. NameOf(p) # "attachment"
        BY <3>1, ModelNames
      <3> QED
        BY <1>1, <2>2, <3>1, <3>2 DEF Rename, Came
    <2>3. CASE ~(Link(p) /\ MayLink(p)) /\ ~Rename(p)
      BY <2>3 DEF FetcherStep, StartFetch, NextFile, AllFetched, Redirected, Responds, Chunk, BodyEnds, Link, Refused, Stalls, Finally, Hears, Heard, FetcherDies
    <2> QED
      BY <2>1, <2>2, <2>3
  <1>3. \A n \in Names : \A f \in named'[n] : f.got = Size /\ f.good
    BY <1>1, <1>2 DEF NamedIsWhole, Contents
  <1>4. \A n \in Names : named[n] # {} => named'[n] # {}
    BY <1>1, <1>2
  <1>5. ASSUME NEW q \in Fetchers, fetcher'[q].at = "recognizing", NEW n \in ModelFiles PROVE named[n] # {}
    <2>1. CASE fetcher[q].at = "recognizing"
      BY <1>1, <1>5, <2>1 DEF NamedIsWhole
    <2>2. CASE fetcher[q].at # "recognizing"
      <3>1. q = p
        BY <1>5, <2>2, OthersStay
      <3>2. CASE Hears(p)
        BY <1>5, <3>2 DEF Hears, HasModel, IsInstalled, IsThere
      <3>3. CASE \E task \in {"save", "install", "transcribe"} : StartFetch(p, task)
        BY <1>1, <1>5, <2>2, <3>1, <3>3 DEF StartFetch, FetcherStates
      <3>4. CASE NextFile(p)
        BY <1>1, <1>5, <2>2, <3>1, <3>4 DEF NextFile, Moves, FetcherStates
      <3>5. CASE AllFetched(p)
        BY <1>1, <1>5, <2>2, <3>1, <3>5 DEF AllFetched, NotFetching, FetcherStates
      <3>6. CASE Redirected(p) \/ Refused(p) \/ Chunk(p)
        BY <1>1, <1>5, <2>2, <3>1, <3>6 DEF Redirected, Refused, Chunk, NotFetching, FetcherStates
      <3>7. CASE \E good \in BOOLEAN : Responds(p, good)
        BY <1>1, <1>5, <2>2, <3>1, <3>7 DEF Responds, Moves, FetcherStates
      <3>8. CASE BodyEnds(p) \/ Link(p) \/ Rename(p) \/ Stalls(p)
        BY <1>1, <1>5, <2>2, <3>1, <3>8 DEF BodyEnds, Link, Rename, Stalls, Moves, FetcherStates
      <3>9. CASE Finally(p)
        BY <1>1, <1>5, <2>2, <3>1, <3>9 DEF Finally, NotFetching, FetcherStates
      <3>10. CASE Heard(p) \/ FetcherDies(p)
        BY <1>1, <1>5, <2>2, <3>1, <3>10 DEF Heard, FetcherDies, NotFetching, FetcherStates
      <3> QED
        BY <3>2, <3>3, <3>4, <3>5, <3>6, <3>7, <3>8, <3>9, <3>10 DEF FetcherStep
    <2> QED
      BY <2>1, <2>2
  <1>6. NamedIsWhole'
    BY <1>3, <1>4, <1>5, ModelNames DEF NamedIsWhole
  <1>7. named["attachment"] # {} => named'["attachment"] = named["attachment"]
    BY <1>1, <1>2, ModelNames
  <1> QED
    BY <1>6, <1>7

LEMMA TransfersInvStep ==
  ASSUME TransfersInv, [TransfersNext]_transferVars
  PROVE  /\ TransfersInv'
         /\ named["attachment"] # {} => named'["attachment"] = named["attachment"]
  <1>1. ASSUME NEW p \in Fetchers, FetcherStep(p)
        PROVE  TransfersInv' /\ (named["attachment"] # {} => named'["attachment"] = named["attachment"])
    <2>1. \A q \in Fetchers : Due(q)' /\ Came(q)'
      <3> TAKE q \in Fetchers
      <3>1. CASE q = p
        BY <1>1, <3>1, DueStep, CameStep
      <3>2. CASE q # p
        <4>1. Due(q) /\ Came(q)
          BY DEF TransfersInv, FileIsDue, PartialIsWhatCame, Due, Came
        <4>2. fetcher'[q] = fetcher[q] /\ arriving'[q] = arriving[q] /\ partial'[q] = partial[q]
          BY <1>1, <3>2, OthersStay
        <4> QED
          BY <4>1, <4>2 DEF Due, Came, More, NameOf
      <3> QED
        BY <3>1, <3>2
    <2>2. FileIsDue' /\ PartialIsWhatCame'
      BY <2>1 DEF Due, Came, FileIsDue, PartialIsWhatCame
    <2> QED
      BY <1>1, <2>2, FetcherTypeStep, NamedStep DEF TransfersInv
  <1>2. CASE UNCHANGED transferVars
    BY <1>2 DEF transferVars, TransfersInv, TransfersTypeOK, FileIsDue, PartialIsWhatCame, NamedIsWhole, More, NameOf
  <1> QED
    BY <1>1, <1>2 DEF TransfersNext

LEMMA TransfersInvHolds == TransfersSpec => []TransfersInv
  BY TransfersInvInit, TransfersInvStep, PTL DEF TransfersSpec

\* Each variable of a download or an install has its type, for any number of processes and files.
THEOREM TransfersTypeCorrect == TransfersSpec => []TransfersTypeOK
  <1>1. TransfersInv => TransfersTypeOK
    BY DEF TransfersInv
  <1> QED
    BY <1>1, TransfersInvHolds, PTL

\* However downloads and installs cross, stall, are refused or die, no half file is under a name somebody
\* will open, none of a model has a wrong hash, and a recording is heard by a model that is there whole
\* (install.ts:29, download.ts:190).
THEOREM WholeUnderTheirNames == TransfersSpec => []NamedIsWhole
  <1>1. TransfersInv => NamedIsWhole
    BY DEF TransfersInv
  <1> QED
    BY <1>1, TransfersInvHolds, PTL

\* A download never replaces a file that is there, not even one that came while it ran (download.ts:201).
THEOREM DownloadsReplaceNothing == TransfersSpec => NothingReplaced
  <1>1. TransfersInv /\ [TransfersNext]_transferVars
        => [named["attachment"] # {} => named'["attachment"] = named["attachment"]]_transferVars
    BY TransfersInvStep
  <1> QED
    BY <1>1, TransfersInvHolds, PTL DEF TransfersSpec, NothingReplaced

----------------------------------------------------------------------------
\* Connection: who waits, on which seq, and what MAX has still to answer.
RequestsTyped ==
  /\ seq \in Seqs /\ made \in 0 .. MaxRequests
  /\ status \in [Requests -> {"none", "waits", "answered", "failed"}]
  /\ seqOf \in [Requests -> Seqs]
  /\ timers \subseteq 1 .. made
  /\ pending \in [Seqs -> 0 .. made]
  /\ unanswered \subseteq 1 .. made
  /\ answerOf \in [Requests -> 0 .. made]

\* A timer runs for whoever waits, and for nobody else; a seq leads to the one that waits on it.
TimersAreOfWaiting ==
  /\ \A r \in Requests : status[r] = "waits" <=> r \in timers
  /\ \A r \in timers : pending[seqOf[r]] = r
  /\ \A s \in Seqs : pending[s] # NoRequest => pending[s] \in timers /\ seqOf[pending[s]] = s

\* What MAX has still to answer, nobody else waits for on its seq.
SeqIsHis == \A r \in unanswered : pending[seqOf[r]] \in {NoRequest, r}

RequestsInv ==
  /\ RequestsTyped /\ TimersAreOfWaiting /\ SeqIsHis
  /\ \A r \in Requests : status[r] = "answered" => answerOf[r] = r
  /\ closed \in BOOLEAN /\ (closed => timers = {})

LEMMA SeqsAreModulo ==
  /\ SeqModulo \in Nat \ {0} /\ 0 \in Seqs /\ Seqs \subseteq Nat
  /\ \A n \in Int : n % SeqModulo \in Seqs
  BY ConnectionAssumption DEF Seqs

LEMMA RequestsInvInit == ConnectionInit => RequestsInv
  <1> SUFFICES ASSUME ConnectionInit PROVE RequestsInv
    OBVIOUS
  <1>1. RequestsTyped
    BY SeqsAreModulo, ConnectionAssumption DEF ConnectionInit, RequestsTyped, NoRequest
  <1> QED
    BY <1>1 DEF ConnectionInit, RequestsInv, TimersAreOfWaiting, SeqIsHis, NoRequest

LEMMA InvokeInv ==
  ASSUME RequestsInv, Invoke
  PROVE  RequestsInv'
  <1>1. RequestsTyped /\ TimersAreOfWaiting /\ SeqIsHis /\ MaxRequests \in Nat
    BY ConnectionAssumption DEF RequestsInv
  <1> DEFINE r == made + 1
  <1>2. r \in Requests /\ made' = r /\ r \in Nat \ {0} /\ made \in Nat /\ UNCHANGED << closed, answerOf >>
    BY <1>1 DEF Invoke, Requests, RequestsTyped
  <1>3. r \notin timers /\ r \notin unanswered /\ \A s \in Seqs : pending[s] # r
    BY <1>1, <1>2 DEF RequestsTyped
  <1>9. 0 .. made \subseteq 0 .. made' /\ 1 .. made \subseteq 1 .. made' /\ r \in 1 .. made' /\ made' \in 0 .. MaxRequests
    BY <1>1, <1>2 DEF Requests
  <1> HIDE DEF r
  <1>4. CASE closed \/ socket = "none"
    <2>1. status' = [status EXCEPT ![r] = "failed"] /\ UNCHANGED << seq, seqOf, timers, pending, unanswered >>
      BY <1>4 DEF Invoke, r
    <2>2. RequestsTyped'
      BY <1>1, <1>2, <1>9, <2>1 DEF RequestsTyped
    <2>3. TimersAreOfWaiting' /\ SeqIsHis'
      BY <1>1, <1>2, <1>3, <2>1 DEF TimersAreOfWaiting, SeqIsHis, RequestsTyped
    <2> QED
      BY <1>2, <2>1, <2>2, <2>3 DEF RequestsInv, RequestsTyped
  <1>5. CASE ~(closed \/ socket = "none")
    <2>1. /\ SeqIsFree
          /\ status' = [status EXCEPT ![r] = "waits"]
          /\ seqOf' = [seqOf EXCEPT ![r] = seq]
          /\ seq' = (seq + 1) % SeqModulo
          /\ timers' = timers \cup {r}
          /\ pending' = [pending EXCEPT ![seq] = r]
          /\ unanswered' = unanswered \cup {r}
      BY <1>5 DEF Invoke, r
    <2>2. seq \in Seqs /\ seq' \in Seqs
      <3>1. seq \in Seqs /\ seq + 1 \in Int
        BY <1>1, SeqsAreModulo DEF RequestsTyped
      <3> QED
        BY <2>1, <3>1, SeqsAreModulo
    <2>3. RequestsTyped'
      <3>1. pending' \in [Seqs -> 0 .. made']
        BY <1>1, <1>2, <1>9, <2>1 DEF RequestsTyped
      <3>2. timers' \subseteq 1 .. made' /\ unanswered' \subseteq 1 .. made' /\ answerOf' \in [Requests -> 0 .. made']
        BY <1>1, <1>2, <1>9, <2>1 DEF RequestsTyped
      <3>3. status' \in [Requests -> {"none", "waits", "answered", "failed"}] /\ seqOf' \in [Requests -> Seqs]
        BY <1>1, <1>2, <2>1 DEF RequestsTyped
      <3> QED
        BY <1>9, <2>2, <3>1, <3>2, <3>3 DEF RequestsTyped
    <2>4. /\ seqOf'[r] = seq /\ pending'[seq] = r /\ status'[r] = "waits"
          /\ \A q \in Requests : q # r => seqOf'[q] = seqOf[q] /\ status'[q] = status[q]
          /\ \A s \in Seqs : s # seq => pending'[s] = pending[s]
          /\ timers \subseteq Requests /\ unanswered \subseteq Requests
          /\ \A q \in Requests : seqOf[q] \in Seqs
      BY <1>1, <1>2, <2>1, <2>2 DEF RequestsTyped, Requests
    <2>5. TimersAreOfWaiting'
      <3>1. \A q \in Requests : status'[q] = "waits" <=> q \in timers'
        BY <1>1, <1>2, <2>1, <2>4 DEF TimersAreOfWaiting
      <3>2. \A q \in timers : seqOf[q] # seq
        BY <1>1, <2>1, <2>4, <1>2 DEF TimersAreOfWaiting, SeqIsFree, NoRequest, Requests
      <3>3. \A q \in timers' : pending'[seqOf'[q]] = q
        BY <1>1, <1>2, <1>3, <2>1, <2>4, <3>2 DEF TimersAreOfWaiting
      <3>4. \A s \in Seqs : pending'[s] # NoRequest => pending'[s] \in timers' /\ seqOf'[pending'[s]] = s
        BY <1>1, <1>2, <1>3, <2>1, <2>4 DEF TimersAreOfWaiting
      <3> QED
        BY <3>1, <3>3, <3>4 DEF TimersAreOfWaiting
    <2>6. SeqIsHis'
      BY <1>1, <1>2, <1>3, <2>1, <2>4 DEF SeqIsHis, SeqIsFree
    <2> QED
      BY <1>2, <1>5, <2>3, <2>4, <2>5, <2>6 DEF RequestsInv
  <1> QED
    BY <1>4, <1>5

\* One request is settled, by its answer or its timer.
LEMMA SettledInv ==
  ASSUME RequestsInv, NEW r \in timers, NEW how \in {"answered", "failed"}, NEW by \in {r, answerOf[r]},
         how = "answered" => by = r,
         status' = [status EXCEPT ![r] = how], answerOf' = [answerOf EXCEPT ![r] = by],
         timers' = timers \ {r}, pending' = [pending EXCEPT ![seqOf[r]] = NoRequest],
         unanswered' \subseteq unanswered, UNCHANGED << closed, seq, made, seqOf >>
  PROVE  RequestsInv'
  <1>1. RequestsTyped /\ TimersAreOfWaiting /\ SeqIsHis /\ r \in Requests /\ MaxRequests \in Nat
    BY ConnectionAssumption DEF RequestsInv, RequestsTyped, Requests
  <1>2. /\ seqOf[r] \in Seqs /\ pending'[seqOf[r]] = NoRequest /\ status'[r] = how /\ answerOf'[r] = by
        /\ \A q \in Requests : q # r => status'[q] = status[q] /\ answerOf'[q] = answerOf[q]
        /\ \A s \in Seqs : s # seqOf[r] => pending'[s] = pending[s]
        /\ timers \subseteq Requests /\ unanswered \subseteq Requests
        /\ \A q \in Requests : seqOf[q] \in Seqs
    BY <1>1 DEF RequestsTyped, Requests
  <1>3. RequestsTyped'
    <2>1. r \in 0 .. made /\ 0 \in 0 .. made /\ answerOf[r] \in 0 .. made
      BY <1>1 DEF RequestsTyped, Requests
    <2>2. pending' \in [Seqs -> 0 .. made] /\ answerOf' \in [Requests -> 0 .. made]
      BY <1>1, <2>1 DEF RequestsTyped, NoRequest
    <2> QED
      BY <1>1, <2>2 DEF RequestsTyped
  <1>4. TimersAreOfWaiting'
    BY <1>1, <1>2 DEF TimersAreOfWaiting
  <1>5. SeqIsHis'
    BY <1>1, <1>2 DEF SeqIsHis
  <1>6. \A q \in Requests : status'[q] = "answered" => answerOf'[q] = q
    BY <1>1, <1>2 DEF RequestsInv
  <1> QED
    BY <1>3, <1>4, <1>5, <1>6 DEF RequestsInv

\* Everyone who waits is told, and no timer is left.
LEMMA FailAllInv ==
  ASSUME RequestsInv, FailAll, closed' = TRUE, UNCHANGED << seq, made, seqOf, unanswered, answerOf >>
  PROVE  RequestsInv'
  <1>1. RequestsTyped /\ TimersAreOfWaiting /\ MaxRequests \in Nat /\ timers \subseteq Requests
    BY ConnectionAssumption DEF RequestsInv, RequestsTyped, Requests
  <1>2. \A r \in timers : seqOf[r] \in Seqs /\ pending[seqOf[r]] = r
    BY <1>1 DEF RequestsTyped, TimersAreOfWaiting
  <1>3. timers' = {} /\ pending' = [s \in Seqs |-> NoRequest]
    BY <1>2 DEF FailAll
  <1>4. /\ status' \in [Requests -> {"none", "waits", "answered", "failed"}]
        /\ \A r \in Requests : status'[r] # "waits" /\ (status'[r] = "answered" => status[r] = "answered")
    BY <1>1, <1>2 DEF FailAll, RequestsTyped, TimersAreOfWaiting
  <1>5. \A r \in unanswered : r \in Requests /\ seqOf[r] \in Seqs
    BY <1>1 DEF RequestsTyped, Requests
  <1>6. RequestsTyped'
    BY <1>1, <1>3, <1>4 DEF RequestsTyped, NoRequest
  <1>7. TimersAreOfWaiting' /\ SeqIsHis'
    BY <1>3, <1>4, <1>5 DEF TimersAreOfWaiting, SeqIsHis
  <1> QED
    BY <1>3, <1>4, <1>6, <1>7 DEF RequestsInv

LEMMA RequestsInvStep ==
  ASSUME RequestsInv, [ConnectionNext]_connectionVars
  PROVE  RequestsInv'
  <1>1. RequestsTyped /\ TimersAreOfWaiting /\ SeqIsHis /\ MaxRequests \in Nat
    BY ConnectionAssumption DEF RequestsInv
  <1>2. ASSUME UNCHANGED << closed, requestVars >> PROVE RequestsInv'
    BY <1>2 DEF requestVars, RequestsInv, RequestsTyped, TimersAreOfWaiting, SeqIsHis
  <1>3. CASE Open \/ Opened \/ Push \/ PushAgain \/ UNCHANGED connectionVars
    BY <1>2, <1>3 DEF Open, Opened, Push, PushAgain, connectionVars
  <1>4. CASE Close \/ Lost
    BY <1>4, FailAllInv DEF Close, Lost
  <1>5. ASSUME NEW r \in Requests, Receive(r) PROVE RequestsInv'
    <2>1. r \in unanswered /\ seqOf[r] \in Seqs /\ pending[seqOf[r]] \in {NoRequest, r} /\ r # NoRequest
      BY <1>1, <1>5 DEF Receive, RequestsTyped, SeqIsHis, Requests, NoRequest
    <2>2. CASE pending[seqOf[r]] = NoRequest
      <3>1. unanswered' = unanswered \ {r} /\ UNCHANGED << closed, seq, made, seqOf, status, timers, pending, answerOf >>
        BY <1>5, <2>2 DEF Receive
      <3> QED
        BY <3>1 DEF RequestsInv, RequestsTyped, TimersAreOfWaiting, SeqIsHis
    <2>3. CASE pending[seqOf[r]] = r
      <3>1. r \in timers
        BY <1>1, <2>1, <2>3 DEF TimersAreOfWaiting
      <3>2. PICK readable \in BOOLEAN : status' = [status EXCEPT ![r] = IF readable THEN "answered" ELSE "failed"]
        BY <1>5, <2>1, <2>3 DEF Receive
      <3>3. /\ answerOf' = [answerOf EXCEPT ![r] = r] /\ timers' = timers \ {r}
            /\ pending' = [pending EXCEPT ![seqOf[r]] = NoRequest] /\ unanswered' \subseteq unanswered
            /\ UNCHANGED << closed, seq, made, seqOf >>
        BY <1>5, <2>1, <2>3 DEF Receive
      <3>4. PICK how \in {"answered", "failed"} : status' = [status EXCEPT ![r] = how]
        BY <3>2
      <3> QED
        BY <3>1, <3>3, <3>4, SettledInv
    <2> QED
      BY <2>1, <2>2, <2>3
  <1>6. ASSUME NEW r \in Requests, Timeout(r) PROVE RequestsInv'
    <2>1. status[r] = "waits" /\ r \in timers
      BY <1>1, <1>6 DEF Timeout, TimersAreOfWaiting
    <2>2. answerOf' = [answerOf EXCEPT ![r] = answerOf[r]]
      BY <1>1, <1>6 DEF Timeout, RequestsTyped
    <2>3. status' = [status EXCEPT ![r] = "failed"]
      BY <1>6, <2>1 DEF Timeout
    <2> QED
      BY <1>6, <2>1, <2>2, <2>3, SettledInv DEF Timeout
  <1>7. ASSUME NEW r \in Requests, Forget(r) PROVE RequestsInv'
    BY <1>1, <1>7 DEF Forget, RequestsInv, RequestsTyped, TimersAreOfWaiting, SeqIsHis
  <1> QED
    BY <1>3, <1>4, <1>5, <1>6, <1>7, InvokeInv DEF ConnectionNext

LEMMA RequestsInvHolds == ConnectionSpec => []RequestsInv
  BY RequestsInvInit, RequestsInvStep, PTL DEF ConnectionSpec

\* An answer reaches the request it was made for, however many timed out, were answered late or have had its
\* seq before; whoever waits has a timer, and a connection that is over leaves none (connection.ts:155, 226).
THEOREM AnswersAreTheirs == ConnectionSpec => []OwnAnswer
  <1>1. RequestsInv => OwnAnswer
    BY DEF RequestsInv, TimersAreOfWaiting, OwnAnswer
  <1> QED
    BY <1>1, RequestsInvHolds, PTL

----------------------------------------------------------------------------
\* Connection: its pushes, whose numbers wrap.
\* A number leaves one remainder.
LEMMA DivisionIsUnique ==
  ASSUME NEW M \in Nat \ {0}, NEW q \in Int, NEW k \in Int, NEW r \in 0 .. M - 1, NEW s \in 0 .. M - 1, q * M + r = k * M + s
  PROVE  r = s
  <1>1. (q - k) * M = s - r
    OBVIOUS
  <1>2. CASE q = k
    BY <1>2
  <1>3. CASE q > k
    <2>1. q - k - 1 \in Nat
      BY <1>3
    <2>2. (q - k - 1) * M \in Nat
      BY <2>1
    <2>3. (q - k) * M = (q - k - 1) * M + M
      OBVIOUS
    <2> QED
      BY <1>1, <2>2, <2>3
  <1>4. CASE q < k
    <2>1. k - q - 1 \in Nat
      BY <1>4
    <2>2. (k - q - 1) * M \in Nat
      BY <2>1
    <2>3. (k - q) * M = (k - q - 1) * M + M
      OBVIOUS
    <2>4. (k - q) * M = r - s
      OBVIOUS
    <2> QED
      BY <2>2, <2>3, <2>4
  <1> QED
    BY <1>2, <1>3, <1>4

LEMMA Division == ASSUME NEW M \in Nat \ {0}, NEW a \in Int PROVE a % M \in 0 .. M - 1 /\ a \div M \in Int /\ a = (a \div M) * M + (a % M)
  OBVIOUS

Leaves(a, M, q, r) == a \in Int /\ M \in Nat \ {0} /\ q \in Int /\ r \in 0 .. M - 1 /\ a = q * M + r

LEMMA RemainderIs ==
  ASSUME NEW a, NEW M, NEW q, NEW r, Leaves(a, M, q, r)
  PROVE  a % M = r
  <1>1. a \in Int /\ M \in Nat \ {0} /\ q \in Int /\ r \in 0 .. M - 1 /\ a = q * M + r
    BY DEF Leaves
  <1>2. a % M \in 0 .. M - 1 /\ a \div M \in Int /\ a = (a \div M) * M + (a % M)
    BY <1>1, Division
  <1> QED
    BY <1>1, <1>2, DivisionIsUnique

\* Pushes are numbered in their order, modulo M: the next is newer than the last, and one of those
\* that MAX may send again is not.
LEMMA NextIsAfter ==
  ASSUME NEW M \in Nat, M >= 3, NEW a \in Nat
  PROVE  (((a + 1) % M) - (a % M) + M) % M = 1
  <1> DEFINE r == a % M
  <1> DEFINE s == (a + 1) % M
  <1>1. M \in Nat \ {0} /\ a \in Int /\ a + 1 \in Int /\ 0 - 1 \in Int
    OBVIOUS
  <1>2. r \in 0 .. M - 1 /\ a \div M \in Int /\ a = (a \div M) * M + r
    BY <1>1, Division
  <1> HIDE DEF r
  <1>3. CASE r + 1 < M
    <2>1. s = r + 1
      <3>1. Leaves(a + 1, M, a \div M, r + 1)
        BY <1>1, <1>2, <1>3 DEF Leaves
      <3> QED
        BY <3>1, RemainderIs
    <2> HIDE DEF s
    <2>2. (s - r + M) % M = 1
      <3>1. Leaves(s - r + M, M, 1, 1)
        BY <1>1, <1>2, <2>1 DEF Leaves
      <3> QED
        BY <1>1, <3>1, RemainderIs
    <2> QED
      BY <2>2 DEF r, s
  <1>4. CASE r + 1 = M
    <2>1. s = 0
      <3>1. Leaves(a + 1, M, (a \div M) + 1, 0)
        BY <1>1, <1>2, <1>4 DEF Leaves
      <3> QED
        BY <3>1, RemainderIs
    <2> HIDE DEF s
    <2>2. (s - r + M) % M = 1
      <3>1. Leaves(s - r + M, M, 0, 1)
        BY <1>1, <1>2, <1>4, <2>1 DEF Leaves
      <3> QED
        BY <1>1, <3>1, RemainderIs
    <2> QED
      BY <2>2 DEF r, s
  <1> QED
    BY <1>1, <1>2, <1>3, <1>4

LEMMA EarlierIsBehind ==
  ASSUME NEW M \in Nat \ {0}, NEW a \in Nat, NEW b \in Nat, b <= a, 2 * (a - b) <= M
  PROVE  LET d == ((b % M) - (a % M) + M) % M IN d = 0 \/ (d \in Nat /\ 2 * d >= M)
  <1> DEFINE r == a % M
  <1> DEFINE s == b % M
  <1> DEFINE k == a - b
  <1>1. a \in Int /\ b \in Int /\ k \in Nat /\ k < M /\ k <= M - k
    OBVIOUS
  <1>2. /\ r \in 0 .. M - 1 /\ a \div M \in Int /\ a = (a \div M) * M + r
        /\ s \in 0 .. M - 1 /\ b \div M \in Int /\ b = (b \div M) * M + s
    BY <1>1, Division
  <1>3. b = (a \div M) * M + (r - k)
    BY <1>2
  <1>4. CASE r >= k
    <2>1. s = r - k
      <3>1. Leaves(b, M, a \div M, r - k)
        BY <1>1, <1>2, <1>3, <1>4 DEF Leaves
      <3> QED
        BY <3>1, RemainderIs
    <2> HIDE DEF r, s, k
    <2>2. (s - r + M) % M = IF k = 0 THEN 0 ELSE M - k
      <3>1. CASE k = 0
        <4>1. Leaves(s - r + M, M, 1, 0)
          BY <1>1, <1>2, <2>1, <3>1 DEF Leaves
        <4> QED
          BY <3>1, <4>1, RemainderIs
      <3>2. CASE k # 0
        <4>1. Leaves(s - r + M, M, 0, M - k)
          BY <1>1, <1>2, <2>1, <3>2 DEF Leaves
        <4> QED
          BY <3>2, <4>1, RemainderIs
      <3> QED
        BY <3>1, <3>2
    <2>3. (s - r + M) % M = 0 \/ ((s - r + M) % M \in Nat /\ 2 * ((s - r + M) % M) >= M)
      <3> DEFINE d == (s - r + M) % M
      <3>1. d = IF k = 0 THEN 0 ELSE M - k
        BY <2>2
      <3> HIDE DEF d
      <3>2. d = 0 \/ (d \in Nat /\ 2 * d >= M)
        BY <1>1, <3>1
      <3> QED
        BY <3>2 DEF d
    <2> QED
      BY <2>3 DEF r, s
  <1>5. CASE r < k
    <2>1. s = r - k + M
      <3>1. Leaves(b, M, (a \div M) - 1, r - k + M)
        BY <1>1, <1>2, <1>3, <1>5 DEF Leaves
      <3> QED
        BY <3>1, RemainderIs
    <2> HIDE DEF r, s, k
    <2>2. (s - r + M) % M = M - k
      <3>1. Leaves(s - r + M, M, 1, M - k)
        BY <1>1, <1>2, <1>5, <2>1 DEF Leaves
      <3> QED
        BY <3>1, RemainderIs
    <2>3. (s - r + M) % M \in Nat /\ 2 * ((s - r + M) % M) >= M
      <3> DEFINE d == (s - r + M) % M
      <3>1. d = M - k
        BY <2>2
      <3> HIDE DEF d
      <3>2. d \in Nat /\ 2 * d >= M
        BY <1>1, <3>1
      <3> QED
        BY <3>2 DEF d
    <2> QED
      BY <2>3 DEF r, s
  <1> QED
    BY <1>1, <1>2, <1>4, <1>5

\* What was handed on and answered so far, and the seq of the newest push.
PushesTyped ==
  /\ sent \in Seq(PushKinds)
  /\ handed \in Seq(1 .. Len(sent)) /\ answered \in Seq(1 .. Len(sent))
  /\ lastPush \in Seqs \cup {NoPush}

LastIsNewest == Live => lastPush = IF Len(sent) = 0 THEN NoPush ELSE SeqOfPush(Len(sent))

PushesInv == PushesTyped /\ LastIsNewest /\ PushesOnce

\* A queue of numbers up to N, and the next number.
LEMMA QueueGoesOn ==
  ASSUME NEW N \in Nat, NEW queue \in Seq(1 .. N), NEW S, Exactly(queue, S)
  PROVE  /\ queue \in Seq(1 .. (N + 1))
         /\ Append(queue, N + 1) \in Seq(1 .. (N + 1))
         /\ Exactly(Append(queue, N + 1), S \cup {N + 1})
  <1> DEFINE longer == Append(queue, N + 1)
  <1>1. Len(queue) \in Nat /\ DOMAIN queue = 1 .. Len(queue) /\ \A i \in 1 .. Len(queue) : queue[i] \in 1 .. N
    BY LenProperties, ElementOfSeq
  <1>2. 1 .. N \subseteq 1 .. (N + 1) /\ N + 1 \in 1 .. (N + 1)
    OBVIOUS
  <1>3. queue \in Seq(1 .. (N + 1))
    <2>1. queue \in [1 .. Len(queue) -> 1 .. (N + 1)]
      BY <1>1, <1>2, LenProperties
    <2> QED
      BY <1>1, <2>1, SeqDef
  <1>4. /\ longer \in Seq(1 .. (N + 1)) /\ Len(longer) = Len(queue) + 1 /\ longer[Len(queue) + 1] = N + 1
        /\ \A i \in 1 .. Len(queue) : longer[i] = queue[i]
    BY <1>2, <1>3, AppendProperties
  <1>5. DOMAIN longer = 1 .. Len(queue) + 1
    BY <1>4, LenProperties
  <1> HIDE DEF longer
  <1>6. { longer[i] : i \in DOMAIN longer } = S \cup {N + 1}
    <2>1. { queue[i] : i \in DOMAIN queue } = S
      BY DEF Exactly
    <2>2. \A i \in 1 .. Len(queue) + 1 : i \in 1 .. Len(queue) \/ i = Len(queue) + 1
      BY <1>1
    <2>3. \A i \in 1 .. Len(queue) : i \in 1 .. Len(queue) + 1
      BY <1>1
    <2>4. Len(queue) + 1 \in 1 .. Len(queue) + 1
      BY <1>1
    <2> QED
      BY <1>1, <1>4, <1>5, <2>1, <2>2, <2>3, <2>4
  <1>7. ASSUME NEW i \in DOMAIN longer, NEW j \in DOMAIN longer, i < j PROVE longer[i] < longer[j]
    <2>1. i \in 1 .. Len(queue) /\ i \in DOMAIN queue /\ longer[i] = queue[i] /\ queue[i] \in 1 .. N
      BY <1>1, <1>4, <1>5, <1>7
    <2>2. CASE j = Len(queue) + 1
      BY <1>4, <2>1, <2>2
    <2>3. CASE j # Len(queue) + 1
      <3>1. j \in DOMAIN queue /\ longer[j] = queue[j]
        BY <1>1, <1>4, <1>5, <2>3
      <3> QED
        BY <1>7, <2>1, <3>1 DEF Exactly
    <2> QED
      BY <2>2, <2>3
  <1>8. longer \in Seq(1 .. (N + 1)) /\ Exactly(longer, S \cup {N + 1})
    BY <1>4, <1>6, <1>7 DEF Exactly
  <1> QED
    BY <1>3, <1>8 DEF longer

LEMMA OnlyPushes ==
  ASSUME PushesInv, UNCHANGED pushVars
  PROVE  PushesInv'
  BY DEF PushesInv, PushesTyped, LastIsNewest, PushesOnce, pushVars

\* The types, however far back MAX goes.
LEMMA PushesTypedStep == PushesTyped /\ [ConnectionNext]_connectionVars => PushesTyped'
  <1> SUFFICES ASSUME PushesTyped, [ConnectionNext]_connectionVars PROVE PushesTyped'
    OBVIOUS
  <1>1. Len(sent) \in Nat /\ DOMAIN sent = 1 .. Len(sent)
    BY LenProperties DEF PushesTyped
  <1>2. \A n \in 1 .. Len(sent) + 1 : SeqOfPush(n) \in Seqs
    BY <1>1, ConnectionAssumption DEF SeqOfPush, Seqs
  <1>3. ASSUME NEW queue \in Seq(1 .. Len(sent)), NEW n \in 1 .. Len(sent)
        PROVE  Append(queue, n) \in Seq(1 .. Len(sent))
    BY AppendProperties
  <1>4. ASSUME NEW queue \in Seq(1 .. Len(sent))
        PROVE  queue \in Seq(1 .. Len(sent) + 1) /\ Append(queue, Len(sent) + 1) \in Seq(1 .. Len(sent) + 1)
    <2>1. 1 .. Len(sent) \subseteq 1 .. Len(sent) + 1 /\ Len(sent) + 1 \in 1 .. Len(sent) + 1
      BY <1>1
    <2>2. queue \in Seq(1 .. Len(sent) + 1)
      <3>1. Len(queue) \in Nat /\ queue \in [1 .. Len(queue) -> 1 .. Len(sent) + 1]
        BY <2>1, LenProperties
      <3> QED
        BY <3>1, SeqDef
    <2> QED
      BY <2>1, <2>2, AppendProperties
  <1>5. CASE Push
    <2>1. PICK kind \in PushKinds : sent' = Append(sent, kind) /\ Hear(Len(sent) + 1, kind)
      BY <1>5 DEF Push
    <2>2. sent' \in Seq(PushKinds) /\ Len(sent') = Len(sent) + 1
      BY <2>1, AppendProperties DEF PushesTyped
    <2>3. Len(sent) + 1 \in 1 .. Len(sent) + 1
      BY <1>1
    <2>4. lastPush' \in Seqs \cup {NoPush}
      BY <1>2, <2>1, <2>3 DEF Hear, PushesTyped
    <2>5. handed' \in Seq(1 .. Len(sent) + 1) /\ answered' \in Seq(1 .. Len(sent) + 1)
      BY <1>4, <2>1 DEF Hear, PushesTyped
    <2> QED
      BY <2>2, <2>4, <2>5 DEF PushesTyped
  <1>6. CASE PushAgain
    <2>1. PICK n \in DOMAIN sent : Hear(n, sent[n])
      BY <1>6 DEF PushAgain
    <2>2. n \in 1 .. Len(sent) /\ n \in 1 .. Len(sent) + 1 /\ sent' = sent
      BY <1>1, <1>6, <2>1 DEF PushAgain
    <2>3. lastPush' \in Seqs \cup {NoPush}
      BY <1>2, <2>1, <2>2 DEF Hear, PushesTyped
    <2>4. handed' \in Seq(1 .. Len(sent)) /\ answered' \in Seq(1 .. Len(sent))
      BY <1>3, <2>1, <2>2 DEF Hear, PushesTyped
    <2> QED
      BY <2>2, <2>3, <2>4 DEF PushesTyped
  <1>7. ASSUME UNCHANGED pushVars PROVE PushesTyped'
    BY <1>7 DEF pushVars, PushesTyped
  <1> QED
    BY <1>5, <1>6, <1>7 DEF ConnectionNext, connectionVars, Open, Opened, Invoke, Close, Lost, Receive, Timeout, Forget

LEMMA PushesTypedInit == ConnectionInit => PushesTyped
  BY EmptySeq DEF ConnectionInit, PushesTyped

LEMMA NewPush ==
  ASSUME PushesInv, NEW n, n = Len(sent) + 1, SeqModulo >= 3, lastPush # NoPush, Live
  PROVE  IsAfter(SeqOfPush(n), lastPush)
  <1>1. Len(sent) \in Nat /\ SeqModulo \in Nat
    BY LenProperties, ConnectionAssumption DEF PushesInv, PushesTyped
  <1> DEFINE k == Len(sent) - 1
  <1>2. lastPush = k % SeqModulo /\ k \in Nat /\ SeqOfPush(n) = (k + 1) % SeqModulo
    <2>1. Len(sent) # 0 /\ lastPush = SeqOfPush(Len(sent))
      BY DEF PushesInv, LastIsNewest
    <2>2. k \in Nat /\ n - 1 = k + 1
      BY <1>1, <2>1
    <2> QED
      BY <2>1, <2>2 DEF SeqOfPush
  <1> HIDE DEF k
  <1>3. (SeqOfPush(n) - lastPush + SeqModulo) % SeqModulo = 1
    BY <1>1, <1>2, NextIsAfter
  <1>4. 1 > 0 /\ 2 * 1 < SeqModulo
    BY <1>1
  <1> QED
    BY <1>3, <1>4 DEF IsAfter

LEMMA OldPush ==
  ASSUME PushesInv, NEW n \in DOMAIN sent, n + Repeats > Len(sent), 2 * Repeats <= SeqModulo + 2, Live
  PROVE  lastPush # NoPush /\ ~ IsAfter(SeqOfPush(n), lastPush)
  <1>1. Len(sent) \in Nat /\ SeqModulo \in Nat \ {0} /\ Repeats \in Nat /\ n \in 1 .. Len(sent)
    BY LenProperties, ConnectionAssumption DEF PushesInv, PushesTyped
  <1> DEFINE a == Len(sent) - 1
  <1> DEFINE b == n - 1
  <1>2. a \in Nat /\ b \in Nat /\ b <= a /\ 2 * (a - b) <= SeqModulo /\ Len(sent) # 0
    BY <1>1
  <1>3. lastPush = a % SeqModulo /\ SeqOfPush(n) = b % SeqModulo
    BY <1>2 DEF PushesInv, LastIsNewest, SeqOfPush
  <1>4. lastPush # NoPush
    <2>1. a % SeqModulo \in 0 .. SeqModulo - 1
      <3> HIDE DEF a
      <3>1. a \in Int
        BY <1>2
      <3> QED
        BY <1>1, <3>1, Division
    <2>2. NoPush \notin 0 .. SeqModulo - 1
      BY <1>1 DEF NoPush
    <2> QED
      BY <1>3, <2>1, <2>2
  <1> HIDE DEF a, b
  <1> DEFINE d == (SeqOfPush(n) - lastPush + SeqModulo) % SeqModulo
  <1>5. d = 0 \/ (d \in Nat /\ 2 * d >= SeqModulo)
    BY <1>1, <1>2, <1>3, EarlierIsBehind
  <1>6. ~(d > 0 /\ 2 * d < SeqModulo)
    <2> HIDE DEF d
    <2> QED
      BY <1>1, <1>5
  <1> QED
    BY <1>4, <1>6 DEF IsAfter, d

LEMMA PushStep ==
  ASSUME PushesInv, SeqModulo >= 3, Push
  PROVE  PushesInv'
  <1> DEFINE n == Len(sent) + 1
  <1>1. PICK kind \in PushKinds : sent' = Append(sent, kind) /\ Hear(n, kind)
    BY DEF Push
  <1>2. /\ Len(sent) \in Nat /\ sent' \in Seq(PushKinds) /\ Len(sent') = n
        /\ DOMAIN sent = 1 .. Len(sent) /\ DOMAIN sent' = 1 .. n
        /\ sent'[n] = kind /\ \A i \in 1 .. Len(sent) : sent'[i] = sent[i]
    BY <1>1, LenProperties, AppendProperties DEF PushesInv, PushesTyped
  <1>3. n \in 1 .. n /\ n \notin 1 .. Len(sent) /\ \A i : i \in 1 .. n <=> i \in 1 .. Len(sent) \/ i = n
    BY <1>2
  <1>4. \A K : { i \in DOMAIN sent' : sent'[i] \in K } =
               IF kind \in K THEN { i \in DOMAIN sent : sent[i] \in K } \cup {n} ELSE { i \in DOMAIN sent : sent[i] \in K }
    <2> HIDE DEF n
    <2> QED
      BY <1>2, <1>3
  <1>5. handed \in Seq(1 .. Len(sent)) /\ answered \in Seq(1 .. Len(sent))
    BY DEF PushesInv, PushesTyped
  <1>6. /\ lastPush' = IF Live THEN SeqOfPush(n) ELSE lastPush
        /\ answered' = IF Live /\ kind # "other" THEN Append(answered, n) ELSE answered
        /\ handed' = IF Live /\ kind = "ping" THEN handed ELSE Append(handed, n)
    BY <1>1, NewPush DEF Hear
  <1>7. LastIsNewest'
    <2>1. n - 1 \in Nat /\ n # 0
      BY <1>2
    <2> QED
      BY <1>2, <1>6, <2>1 DEF LastIsNewest
  <1>9. PushesTyped'
    BY PushesTypedStep DEF PushesInv, ConnectionNext
  <1>10. PushesOnce'
    <2> SUFFICES ASSUME Live PROVE PushesOnce'
      BY DEF PushesOnce
    <2>1. /\ Exactly(handed, { i \in DOMAIN sent : sent[i] \in {"message", "other"} })
          /\ Exactly(answered, { i \in DOMAIN sent : sent[i] \in {"ping", "message"} })
      BY DEF PushesInv, PushesOnce
    <2>2. /\ Exactly(Append(handed, n), { i \in DOMAIN sent : sent[i] \in {"message", "other"} } \cup {n})
          /\ Exactly(Append(answered, n), { i \in DOMAIN sent : sent[i] \in {"ping", "message"} } \cup {n})
      BY <1>2, <1>5, <2>1, QueueGoesOn
    <2>3. Exactly(handed', { i \in DOMAIN sent' : sent'[i] \in {"message", "other"} })
      <3>1. CASE kind = "ping"
        BY <1>4, <1>6, <2>1, <3>1
      <3>2. CASE kind \in {"message", "other"}
        BY <1>4, <1>6, <2>2, <3>2
      <3> QED
        BY <3>1, <3>2 DEF PushKinds
    <2>4. Exactly(answered', { i \in DOMAIN sent' : sent'[i] \in {"ping", "message"} })
      <3>1. CASE kind = "other"
        BY <1>4, <1>6, <2>1, <3>1
      <3>2. CASE kind \in {"ping", "message"}
        BY <1>4, <1>6, <2>2, <3>2
      <3> QED
        BY <3>1, <3>2 DEF PushKinds
    <2> QED
      BY <2>3, <2>4 DEF PushesOnce
  <1> QED
    BY <1>7, <1>9, <1>10 DEF PushesInv

LEMMA PushAgainStep ==
  ASSUME PushesInv, 2 * Repeats <= SeqModulo + 2, PushAgain
  PROVE  PushesInv'
  <1>1. PICK n \in DOMAIN sent : n + Repeats > Len(sent) /\ Hear(n, sent[n])
    BY DEF PushAgain
  <1>2. n \in 1 .. Len(sent) /\ Len(sent) \in Nat
    BY LenProperties DEF PushesInv, PushesTyped
  <1>3. Live
    BY <1>1, <1>2, ConnectionAssumption
  <1>4. UNCHANGED << lastPush, handed, answered, sent >>
    BY <1>1, <1>3, OldPush DEF Hear, PushAgain
  <1> QED
    BY <1>4, OnlyPushes DEF pushVars

LEMMA PushesInvHolds ==
  ASSUME SeqModulo >= 3, 2 * Repeats <= SeqModulo + 2
  PROVE  ConnectionSpec => []PushesInv
  <1>1. ConnectionInit => PushesInv
    <2> SUFFICES ASSUME ConnectionInit PROVE PushesInv
      OBVIOUS
    <2>1. sent = << >> /\ handed = << >> /\ answered = << >> /\ lastPush = NoPush /\ Len(sent) = 0 /\ DOMAIN sent = {}
      BY DEF ConnectionInit
    <2> QED
      BY <2>1, EmptySeq DEF PushesInv, PushesTyped, LastIsNewest, PushesOnce, Exactly
  <1>2. PushesInv /\ [ConnectionNext]_connectionVars => PushesInv'
    <2> SUFFICES ASSUME PushesInv, [ConnectionNext]_connectionVars PROVE PushesInv'
      OBVIOUS
    <2>1. CASE Push
      BY <2>1, PushStep
    <2>2. CASE PushAgain
      BY <2>2, PushAgainStep
    <2>3. ASSUME Open \/ Opened \/ Invoke \/ Close \/ Lost \/ UNCHANGED connectionVars PROVE PushesInv'
      BY <2>3, OnlyPushes DEF Open, Opened, Invoke, Close, Lost, connectionVars
    <2>4. ASSUME NEW r \in Requests, Receive(r) \/ Timeout(r) \/ Forget(r) PROVE PushesInv'
      BY <2>4, OnlyPushes DEF Receive, Timeout, Forget
    <2> QED
      BY <2>1, <2>2, <2>3, <2>4 DEF ConnectionNext
  <1> QED
    BY <1>1, <1>2, PTL DEF ConnectionSpec

\* A live connection hands on and answers every push once and in MAX's order, over any number of pushes,
\* wraps of their seq and repeats, as long as MAX goes back less than half of the numbers (connection.ts:268).
THEOREM PushesAreHeardOnce ==
  ASSUME SeqModulo >= 3, 2 * Repeats <= SeqModulo + 2
  PROVE  ConnectionSpec => []PushesOnce
  <1>1. PushesInv => PushesOnce
    BY DEF PushesInv
  <1> QED
    BY <1>1, PushesInvHolds, PTL

\* Every variable of a connection has its type.
THEOREM ConnectionTypeCorrect ==
  ConnectionSpec => []ConnectionTypeOK
  <1> DEFINE Phases ==
        /\ socket \in {"none", "connecting", "open", "failed"}
        /\ opening \in {"none", "waits", "done", "failed"}
  <1>1. ConnectionInit => Phases
    BY DEF ConnectionInit
  <1>2. Phases /\ [ConnectionNext]_connectionVars => Phases'
    BY DEF ConnectionNext, connectionVars, requestVars, pushVars, Open, Opened, Invoke, Push, PushAgain, Close, Lost,
           Receive, Timeout, Forget
  <1>3. RequestsInv /\ PushesTyped /\ Phases => ConnectionTypeOK
    BY DEF RequestsInv, RequestsTyped, PushesTyped, ConnectionTypeOK
  <1> QED
    BY <1>1, <1>2, <1>3, RequestsInvHolds, PushesTypedInit, PushesTypedStep, PTL DEF ConnectionSpec

----------------------------------------------------------------------------
\* LocalSocket: whose every id, line and socket is.
LinePieces == [of : Asks, id : Nat \ {0}, end : BOOLEAN]
AskStates ==
  [ at : {"idle", "connecting", "waiting", "answered", "failed"}, over : 0 .. MaxSockets, id : Nat, got : SUBSET Asks ]

SocketTyped ==
  /\ ask \in [Asks -> AskStates]
  /\ lastId \in Nat
  /\ shared \in 0 .. MaxSockets
  /\ link \in [Sockets -> {"unmade", "connecting", "open", "dropped", "closed"}]
  /\ inbound \in [Sockets -> Seq(LinePieces)] /\ buffered \in [Sockets -> Seq(LinePieces)]
  /\ serving \subseteq [over : Sockets, id : Nat \ {0}, of : Asks]

IdsDiffer ==
  /\ \A a \in Asks : ask[a].id <= lastId
  /\ \A a \in Asks : ask[a].at \in {"idle", "connecting"} => ask[a].id = 0
  /\ \A a, b \in Asks : ask[a].id = ask[b].id /\ ask[a].id # 0 => a = b

\* Two pieces to a line, one after the other.
WholeLines(text) ==
  \A i \in 1 .. Len(text) :
    /\ text[i].end => i > 1 /\ ~text[i - 1].end /\ text[i - 1].of = text[i].of /\ text[i - 1].id = text[i].id
    /\ ~text[i].end => i < Len(text) /\ text[i + 1].end /\ text[i + 1].of = text[i].of /\ text[i + 1].id = text[i].id

\* What has not been made of lines yet is whole answers, but that the first piece of one may be kept already.
LinesAreWhole ==
  \A s \in Sockets :
    /\ WholeLines(buffered[s] \o inbound[s])
    /\ Len(buffered[s]) <= 1 /\ (Len(buffered[s]) = 1 => ~buffered[s][1].end)

LinesAreTheirs ==
  /\ \A s \in Sockets : \A i \in 1 .. Len(inbound[s]) : inbound[s][i].id = ask[inbound[s][i].of].id
  /\ \A r \in serving : r.id = ask[r.of].id /\ r.over = ask[r.of].over /\ link[r.over] = "open"

SocketsAreTheirs ==
  /\ shared # 0 => link[shared] \in {"open", "dropped"}
  /\ \A a \in Asks : ask[a].at = "connecting" => ask[a].over \in Sockets /\ link[ask[a].over] = "connecting"
  /\ \A a, b \in Asks : ask[a].at = "connecting" /\ ask[b].at = "connecting" /\ ask[a].over = ask[b].over => a = b

AnswerIsToCome(a) ==
  LET s == ask[a].over IN
  /\ s \in Sockets /\ ask[a].id # 0
  /\ \/ link[s] = "dropped"
     \/ link[s] = "open" /\ \/ \E r \in serving : r.of = a
                            \/ \E i \in 1 .. Len(inbound[s]) : inbound[s][i].of = a /\ inbound[s][i].end

SocketInv ==
  /\ SocketTyped /\ IdsDiffer /\ LinesAreWhole /\ LinesAreTheirs /\ SocketsAreTheirs
  /\ \A a \in Asks : ask[a].at = "waiting" => AnswerIsToCome(a)
  /\ \A a \in Asks : ask[a].at = "answered" => ask[a].got = {a}

\* A text that is cut off after its Len(text)-th piece.
LinesUpTo(text) ==
  \A i \in 1 .. Len(text) :
    /\ text[i].end => i > 1 /\ ~text[i - 1].end /\ text[i - 1].of = text[i].of /\ text[i - 1].id = text[i].id
    /\ ~text[i].end /\ i < Len(text) => text[i + 1].end

LEMMA EndBefore ==
  ASSUME NEW text \in Seq(LinePieces), LinesUpTo(text), NEW i \in 1 .. Len(text), text[i].end
  PROVE  /\ i - 2 \in {0} \cup Ends(text) /\ i > 1
         /\ \A k \in Ends(text) : k < i => k <= i - 2
  <1>1. Len(text) \in Nat /\ DOMAIN text = 1 .. Len(text)
    BY LenProperties
  <1>2. i > 1 /\ ~text[i - 1].end
    BY <1>1 DEF LinesUpTo
  <1>3. i - 2 \in {0} \cup Ends(text)
    <2>1. CASE i = 2
      BY <2>1
    <2>2. CASE i # 2
      <3>1. i - 2 \in 1 .. Len(text) /\ i - 2 < Len(text) /\ (i - 2) + 1 = i - 1
        BY <1>1, <1>2, <2>2
      <3>2. ~text[i - 2].end => text[i - 1].end
        BY <3>1 DEF LinesUpTo
      <3> QED
        BY <1>1, <1>2, <3>1, <3>2 DEF Ends
    <2> QED
      BY <2>1, <2>2
  <1>4. \A k \in Ends(text) : k \in 1 .. Len(text) /\ text[k].end
    BY <1>1 DEF Ends
  <1>5. \A k \in Ends(text) : k < i => k <= i - 2
    BY <1>1, <1>2, <1>4
  <1> QED
    BY <1>2, <1>3, <1>5

LEMMA LineIsItsPieces ==
  ASSUME NEW text \in Seq(LinePieces), LinesUpTo(text), NEW i \in Ends(text)
  PROVE  LineOf(text, i) = Pieces(text[i])
  <1>1. Len(text) \in Nat /\ DOMAIN text = 1 .. Len(text) /\ \A k \in 1 .. Len(text) : text[k] \in LinePieces
    BY LenProperties, ElementOfSeq
  <1>2. i \in 1 .. Len(text) /\ text[i].end
    BY <1>1 DEF Ends
  <1>3. /\ i - 2 \in {0} \cup Ends(text) /\ i > 1
        /\ \A k \in Ends(text) : k < i => k <= i - 2
    BY <1>2, EndBefore
  <1> DEFINE from == CHOOSE j \in {0} \cup Ends(text) : j < i /\ \A k \in Ends(text) : k < i => k <= j
  <1>4. from \in {0} \cup Ends(text) /\ from < i /\ \A k \in Ends(text) : k < i => k <= from
    <2>1. \E j \in {0} \cup Ends(text) : j < i /\ \A k \in Ends(text) : k < i => k <= j
      BY <1>1, <1>2, <1>3
    <2> QED
      BY <2>1
  <1>5. LineOf(text, i) = SubSeq(text, 1 + from, i)
    BY DEF LineOf
  <1> HIDE DEF from
  <1>6. from = i - 2
    <2>1. Ends(text) \subseteq 1 .. Len(text)
      BY <1>1 DEF Ends
    <2>2. CASE i = 2
      BY <1>1, <1>3, <1>4, <2>1, <2>2
    <2>3. CASE i # 2
      BY <1>1, <1>2, <1>3, <1>4, <2>1, <2>3
    <2> QED
      BY <2>2, <2>3
  <1>7. LineOf(text, i) = SubSeq(text, i - 1, i)
    BY <1>2, <1>5, <1>6
  <1>8. /\ text[i - 1] = [of |-> text[i].of, id |-> text[i].id, end |-> FALSE]
        /\ text[i] = [of |-> text[i].of, id |-> text[i].id, end |-> TRUE]
    <2>1. i - 1 \in 1 .. Len(text)
      BY <1>1, <1>2, <1>3
    <2>2. text[i - 1].end = FALSE /\ text[i - 1].of = text[i].of /\ text[i - 1].id = text[i].id /\ text[i].end = TRUE
      BY <1>1, <1>2, <2>1 DEF LinesUpTo, LinePieces
    <2> QED
      BY <1>1, <1>2, <2>1, <2>2 DEF LinePieces
  <1>9. SubSeq(text, i - 1, i) = << text[i - 1], text[i] >>
    <2>1. \A j \in (i - 1) .. i : text[j] \in LinePieces
      BY <1>1, <1>2, <1>3
    <2> DEFINE line == SubSeq(text, i - 1, i)
    <2>2. line \in Seq(LinePieces) /\ Len(line) = 2 /\ \A j \in 1 .. 2 : line[j] = text[i - 1 + j - 1]
      BY <1>2, <2>1, SubSeqProperties
    <2> HIDE DEF line
    <2>3. line[1] = text[i - 1] /\ line[2] = text[i]
      <3>1. line[1] = text[i - 1 + 1 - 1] /\ line[2] = text[i - 1 + 2 - 1]
        BY <2>2
      <3>2. i - 1 + 1 - 1 = i - 1 /\ i - 1 + 2 - 1 = i
        BY <1>2
      <3> QED
        BY <3>1, <3>2
    <2>4. << text[i - 1], text[i] >> \in Seq(LinePieces) /\ Len(<< text[i - 1], text[i] >>) = 2
      BY <1>2, <2>1
    <2>5. \A j \in 1 .. Len(line) : line[j] = << text[i - 1], text[i] >>[j]
      BY <2>2, <2>3
    <2>6. line = << text[i - 1], text[i] >>
      BY <2>2, <2>4, <2>5, SeqEqual DEF line
    <2> QED
      BY <2>6 DEF line
  <1> QED
    BY <1>7, <1>8, <1>9 DEF Pieces

\* What is kept of a text is its last piece, if that ends no line.
LEMMA RestIsTheLast ==
  ASSUME NEW text \in Seq(LinePieces), LinesUpTo(text), Len(text) > 0
  PROVE  /\ text[Len(text)].end => Rest(text) = SubSeq(text, Len(text) + 1, Len(text))
         /\ ~text[Len(text)].end => Rest(text) = SubSeq(text, Len(text), Len(text))
  <1> DEFINE n == Len(text)
             from == CHOOSE j \in {0} \cup Ends(text) : \A k \in Ends(text) : k <= j
  <1>1. n \in Nat /\ DOMAIN text = 1 .. n /\ n > 0 /\ Ends(text) \subseteq 1 .. n
    BY LenProperties DEF Ends
  <1>2. Rest(text) = SubSeq(text, 1 + from, n)
    BY DEF Rest
  <1>3. ASSUME NEW j \in {0} \cup Ends(text), \A k \in Ends(text) : k <= j PROVE from = j
    <2>1. from \in {0} \cup Ends(text) /\ \A k \in Ends(text) : k <= from
      BY <1>3
    <2> HIDE DEF from
    <2> QED
      BY <1>1, <1>3, <2>1
  <1> HIDE DEF n, from
  <1>4. CASE text[n].end
    <2>1. n \in Ends(text)
      BY <1>1, <1>4 DEF Ends
    <2>2. from = n
      BY <1>1, <1>3, <2>1
    <2> QED
      BY <1>1, <1>2, <1>4, <2>2 DEF n
  <1>5. CASE ~text[n].end
    <2>1. n - 1 \in {0} \cup Ends(text)
      <3>1. CASE n = 1
        BY <3>1
      <3>2. CASE n # 1
        <4>1. n - 1 \in 1 .. n /\ n - 1 < n /\ (n - 1) + 1 = n
          BY <1>1, <3>2
        <4>2. text[n - 1].end
          BY <1>5, <4>1 DEF LinesUpTo, n
        <4> QED
          BY <1>1, <4>1, <4>2 DEF Ends
      <3> QED
        BY <3>1, <3>2
    <2>2. \A k \in Ends(text) : k <= n - 1
      BY <1>1, <1>5 DEF Ends
    <2>3. from = n - 1
      BY <1>3, <2>1, <2>2
    <2>4. 1 + from = n
      BY <1>1, <2>3
    <2> QED
      BY <1>2, <1>5, <2>4 DEF n
  <1> QED
    BY <1>4, <1>5 DEF n

LEMMA SocketInvInit == SocketInit => SocketInv
  <1> SUFFICES ASSUME SocketInit PROVE SocketInv
    OBVIOUS
  <1>1. SocketTyped /\ << >> \in Seq(LinePieces) /\ Len(<< >>) = 0
    BY SocketAssumption, EmptySeq DEF SocketInit, SocketTyped, AskStates, NotAsked, Sockets
  <1>2. \A s \in Sockets : buffered[s] \o inbound[s] = << >> /\ Len(buffered[s]) = 0 /\ Len(inbound[s]) = 0
    BY <1>1, ConcatEmptySeq DEF SocketInit
  <1>5. WholeLines(<< >>)
    BY <1>1 DEF WholeLines
  <1>3. LinesAreWhole
    <2>1. \A s \in Sockets : WholeLines(buffered[s] \o inbound[s])
      BY <1>2, <1>5
    <2>2. \A s \in Sockets : Len(buffered[s]) <= 1 /\ ~(Len(buffered[s]) = 1)
      BY <1>2
    <2> QED
      BY <2>1, <2>2 DEF LinesAreWhole
  <1>4. IdsDiffer /\ LinesAreTheirs /\ SocketsAreTheirs
    BY <1>1, <1>2 DEF SocketInit, IdsDiffer, LinesAreTheirs, SocketsAreTheirs, NotAsked
  <1> QED
    BY <1>1, <1>3, <1>4 DEF SocketInit, SocketInv, NotAsked

\* A request goes out over a socket that is there, or just came to be.
LEMMA WritesInv ==
  ASSUME SocketInv, NEW a \in Asks, NEW s \in Sockets, Writes(a, s),
         ask[a].at \in {"idle", "connecting"}, shared' = s,
         link' = [link EXCEPT ![s] = IF link[s] = "dropped" THEN "dropped" ELSE "open"],
         link[s] \in {"connecting", "open", "dropped"},
         \A b \in Asks \ {a} : ask[b].at = "connecting" => ask[b].over # s,
         UNCHANGED << inbound, buffered >>
  PROVE  SocketInv'
  <1>1. SocketTyped /\ IdsDiffer /\ LinesAreWhole /\ LinesAreTheirs /\ SocketsAreTheirs
    BY DEF SocketInv
  <1>2. lastId \in Nat /\ NextId = lastId + 1 /\ lastId' = lastId + 1 /\ s \in 1 .. MaxSockets /\ MaxSockets \in Nat
    BY <1>1, SocketAssumption DEF SocketTyped, NextId, Writes, Sockets
  <1> DEFINE out == [at |-> "waiting", over |-> s, id |-> lastId + 1, got |-> {}]
             sent_ == [over |-> s, id |-> lastId + 1, of |-> a]
  <1>3. /\ out \in AskStates /\ out.at = "waiting" /\ out.over = s /\ out.id = lastId + 1
        /\ sent_ \in [over : Sockets, id : Nat \ {0}, of : Asks] /\ sent_.of = a /\ sent_.id = lastId + 1 /\ sent_.over = s
    BY <1>2 DEF AskStates
  <1>4. /\ ask' = [ask EXCEPT ![a] = out]
        /\ serving' = IF link[s] = "dropped" THEN serving ELSE serving \cup {sent_}
    BY <1>2 DEF Writes
  <1> HIDE DEF out, sent_
  <1>5. /\ ask'[a] = out /\ \A b \in Asks : b # a => ask'[b] = ask[b]
        /\ ask' \in [Asks -> AskStates]
        /\ ask[a].id = 0 /\ \A b \in Asks : ask[b].id \in Nat /\ ask[b].id <= lastId
    BY <1>1, <1>3, <1>4 DEF SocketTyped, IdsDiffer, AskStates
  <1>6. /\ link'[s] \in {"open", "dropped"} /\ (link'[s] = "open" <=> link[s] # "dropped")
        /\ \A t \in Sockets : t # s => link'[t] = link[t]
        /\ link' \in [Sockets -> {"unmade", "connecting", "open", "dropped", "closed"}]
    BY <1>1 DEF SocketTyped
  <1>7. SocketTyped'
    BY <1>1, <1>2, <1>3, <1>4, <1>5, <1>6 DEF SocketTyped
  <1>8. IdsDiffer'
    <2>1. \A b \in Asks : b # a => ask'[b].id # ask'[a].id
      BY <1>2, <1>3, <1>5
    <2> QED
      BY <1>1, <1>2, <1>3, <1>5, <2>1 DEF IdsDiffer
  <1>9. LinesAreWhole'
    BY <1>1 DEF LinesAreWhole
  <1>10. LinesAreTheirs'
    <2>1. ASSUME NEW t \in Sockets, NEW i \in 1 .. Len(inbound[t]) PROVE inbound[t][i].id = ask'[inbound[t][i].of].id
      <3>1. inbound[t][i] \in LinePieces
        BY <1>1, ElementOfSeq DEF SocketTyped
      <3> QED
        BY <1>1, <1>5, <3>1 DEF LinesAreTheirs, LinePieces
    <2>2. ASSUME NEW r \in serving PROVE r.id = ask'[r.of].id /\ r.over = ask'[r.of].over /\ link'[r.over] = "open"
      <3>1. r \in [over : Sockets, id : Nat \ {0}, of : Asks]
        BY <1>1 DEF SocketTyped
      <3> QED
        BY <1>1, <1>5, <1>6, <3>1 DEF LinesAreTheirs
    <2>3. \A r \in serving' : r.id = ask'[r.of].id /\ r.over = ask'[r.of].over /\ link'[r.over] = "open"
      BY <1>3, <1>4, <1>5, <1>6, <2>2
    <2> QED
      BY <2>1, <2>3 DEF LinesAreTheirs
  <1>11. SocketsAreTheirs'
    BY <1>1, <1>2, <1>3, <1>5, <1>6 DEF SocketsAreTheirs
  <1>12. ASSUME NEW b \in Asks, ask'[b].at = "waiting" PROVE AnswerIsToCome(b)'
    <2>1. CASE b = a
      <3>1. link[s] # "dropped" => sent_ \in serving' /\ sent_.of = a
        BY <1>3, <1>4
      <3> QED
        BY <1>2, <1>3, <1>5, <1>6, <2>1, <3>1 DEF AnswerIsToCome
    <2>2. CASE b # a
      <3>1. ask'[b] = ask[b] /\ AnswerIsToCome(b) /\ serving \subseteq serving'
        BY <1>4, <1>5, <1>12, <2>2 DEF SocketInv
      <3>2. \A t \in Sockets : link[t] \in {"open", "dropped"} => link'[t] = link[t]
        BY <1>6
      <3> QED
        BY <3>1, <3>2 DEF AnswerIsToCome
    <2> QED
      BY <2>1, <2>2
  <1>13. \A b \in Asks : ask'[b].at = "answered" => ask'[b].got = {b}
    BY <1>3, <1>5 DEF SocketInv
  <1> QED
    BY <1>7, <1>8, <1>9, <1>10, <1>11, <1>12, <1>13 DEF SocketInv

LEMMA AskInv ==
  ASSUME SocketInv, NEW a \in Asks, AskShared(a) \/ Connected(a)
  PROVE  SocketInv'
  <1>1. SocketTyped /\ SocketsAreTheirs
    BY DEF SocketInv
  <1>2. CASE AskShared(a)
    <2>1. shared \in Sockets /\ link[shared] \in {"open", "dropped"}
      BY <1>1, <1>2, SocketAssumption DEF AskShared, SocketTyped, SocketsAreTheirs, Sockets
    <2>2. link' = [link EXCEPT ![shared] = IF link[shared] = "dropped" THEN "dropped" ELSE "open"]
      BY <1>1, <1>2, <2>1 DEF AskShared, SocketTyped
    <2>3. \A b \in Asks \ {a} : ask[b].at = "connecting" => ask[b].over # shared
      BY <1>1, <2>1 DEF SocketsAreTheirs
    <2>4. /\ Writes(a, shared) /\ ask[a].at \in {"idle", "connecting"} /\ shared' = shared
          /\ UNCHANGED << inbound, buffered >>
      BY <1>2 DEF AskShared
    <2> QED
      BY <2>1, <2>2, <2>3, <2>4, WritesInv
  <1>3. CASE Connected(a)
    <2> DEFINE s == ask[a].over
    <2>1. s \in Sockets /\ link[s] = "connecting" /\ \A b \in Asks \ {a} : ask[b].at = "connecting" => ask[b].over # s
      BY <1>1, <1>3 DEF Connected, SocketsAreTheirs
    <2>2. /\ Writes(a, s) /\ ask[a].at \in {"idle", "connecting"} /\ shared' = s
          /\ link' = [link EXCEPT ![s] = "open"] /\ UNCHANGED << inbound, buffered >>
      BY <1>3 DEF Connected
    <2> HIDE DEF s
    <2>3. link' = [link EXCEPT ![s] = IF link[s] = "dropped" THEN "dropped" ELSE "open"]
      BY <2>1, <2>2
    <2> QED
      BY <2>1, <2>2, <2>3, WritesInv
  <1> QED
    BY <1>2, <1>3

\* A request asks for a socket of its own, and hears that nobody listens there.
LEMMA ConnectInv ==
  ASSUME SocketInv, NEW a \in Asks, Connect(a) \/ NotConnected(a)
  PROVE  SocketInv'
  <1>1. SocketTyped /\ IdsDiffer /\ LinesAreWhole /\ LinesAreTheirs /\ SocketsAreTheirs
    BY DEF SocketInv
  <1>2. PICK s \in Sockets, what \in AskStates, place \in {"connecting", "closed"} :
          /\ link' = [link EXCEPT ![s] = place] /\ ask' = [ask EXCEPT ![a] = what]
          /\ what.id = 0 /\ ask[a].id = 0 /\ what.over = s
          /\ place = "connecting" => what.at = "connecting" /\ link[s] = "unmade"
          /\ place = "closed" => what.at = "failed" /\ link[s] = "connecting" /\ ask[a].at = "connecting" /\ ask[a].over = s
    <2>1. CASE Connect(a)
      <3>1. PICK s \in Sockets : /\ link[s] = "unmade" /\ link' = [link EXCEPT ![s] = "connecting"]
                                 /\ ask' = [ask EXCEPT ![a] = [NotAsked EXCEPT !.at = "connecting", !.over = s]]
        BY <2>1 DEF Connect
      <3>2. ask[a].id = 0
        BY <1>1, <2>1 DEF Connect, IdsDiffer
      <3> DEFINE what == [NotAsked EXCEPT !.at = "connecting", !.over = s]
      <3>5. s \in 0 .. MaxSockets /\ {} \in SUBSET Asks
        BY SocketAssumption DEF Sockets
      <3>6. what.id = 0 /\ what.at = "connecting" /\ what.over = s
        BY DEF NotAsked
      <3>3. what \in AskStates
        BY <3>5 DEF NotAsked, AskStates
      <3> HIDE DEF what
      <3>4. ask' = [ask EXCEPT ![a] = what]
        BY <3>1 DEF what
      <3> QED
        BY <3>1, <3>2, <3>3, <3>4, <3>6
    <2>2. CASE NotConnected(a)
      <3> DEFINE what == [ask[a] EXCEPT !.at = "failed"]
      <3>1. ask[a] \in AskStates /\ ask[a].id = 0 /\ ask[a].over \in Sockets /\ link[ask[a].over] = "connecting"
        BY <1>1, <2>2 DEF NotConnected, IdsDiffer, SocketTyped, SocketsAreTheirs
      <3>2. what \in AskStates /\ what.id = 0 /\ what.at = "failed" /\ what.over = ask[a].over
        BY <3>1 DEF AskStates
      <3>3. link' = [link EXCEPT ![ask[a].over] = "closed"] /\ ask' = [ask EXCEPT ![a] = what] /\ ask[a].at = "connecting"
        BY <2>2 DEF NotConnected
      <3> HIDE DEF what
      <3> QED
        BY <3>1, <3>2, <3>3
    <2> QED
      BY <2>1, <2>2
  <1>3. UNCHANGED << lastId, shared, inbound, buffered, serving >>
    BY DEF Connect, NotConnected
  <1>4. /\ ask'[a] = what /\ link'[s] = place
        /\ \A b \in Asks : b # a => ask'[b] = ask[b]
        /\ \A t \in Sockets : t # s => link'[t] = link[t]
        /\ link[s] \in {"unmade", "connecting"}
        /\ \A b \in Asks : ask'[b].id = ask[b].id /\ (ask[b].id # 0 => ask'[b] = ask[b])
    BY <1>1, <1>2 DEF SocketTyped
  <1>5. SocketTyped'
    BY <1>1, <1>2, <1>3 DEF SocketTyped
  <1>6. IdsDiffer'
    BY <1>1, <1>2, <1>3, <1>4 DEF IdsDiffer
  <1>7. LinesAreWhole'
    BY <1>1, <1>3 DEF LinesAreWhole
  <1>8. LinesAreTheirs'
    <2>1. ASSUME NEW t \in Sockets, NEW i \in 1 .. Len(inbound[t]) PROVE inbound[t][i].id = ask'[inbound[t][i].of].id
      <3>1. inbound[t][i] \in LinePieces
        BY <1>1, ElementOfSeq DEF SocketTyped
      <3> QED
        BY <1>1, <1>4, <3>1 DEF LinesAreTheirs, LinePieces
    <2>2. ASSUME NEW r \in serving PROVE r.id = ask'[r.of].id /\ r.over = ask'[r.of].over /\ link'[r.over] = "open"
      <3>1. r \in [over : Sockets, id : Nat \ {0}, of : Asks]
        BY <1>1 DEF SocketTyped
      <3> QED
        BY <1>1, <1>4, <3>1 DEF LinesAreTheirs
    <2> QED
      BY <1>3, <2>1, <2>2 DEF LinesAreTheirs
  <1>9. SocketsAreTheirs'
    <2>1. shared' # 0 => link'[shared'] \in {"open", "dropped"}
      BY <1>1, <1>3, <1>4, SocketAssumption DEF SocketsAreTheirs, SocketTyped, Sockets
    <2>2. \A b \in Asks : ask'[b].at = "connecting" => ask'[b].over \in Sockets /\ link'[ask'[b].over] = "connecting"
      BY <1>1, <1>2, <1>4 DEF SocketsAreTheirs
    <2>3. \A b \in Asks : b # a /\ ask[b].at = "connecting" /\ what.at = "connecting" => ask[b].over # what.over
      BY <1>1, <1>2, <1>4 DEF SocketsAreTheirs
    <2>4. \A b, c \in Asks : ask'[b].at = "connecting" /\ ask'[c].at = "connecting" /\ ask'[b].over = ask'[c].over => b = c
      BY <1>1, <1>4, <2>3 DEF SocketsAreTheirs
    <2> QED
      BY <2>1, <2>2, <2>4 DEF SocketsAreTheirs
  <1>10. ASSUME NEW b \in Asks, ask'[b].at = "waiting" PROVE AnswerIsToCome(b)'
    <2>1. b # a /\ ask'[b] = ask[b]
      BY <1>2, <1>4, <1>10
    <2>2. AnswerIsToCome(b)
      BY <1>10, <2>1 DEF SocketInv
    <2>3. \A t \in Sockets : link[t] \in {"open", "dropped"} => link'[t] = link[t]
      BY <1>4
    <2> QED
      BY <1>3, <2>1, <2>2, <2>3 DEF AnswerIsToCome
  <1>11. \A b \in Asks : ask'[b].at = "answered" => ask'[b].got = {b}
    BY <1>2, <1>4 DEF SocketInv
  <1> QED
    BY <1>5, <1>6, <1>7, <1>8, <1>9, <1>10, <1>11 DEF SocketInv

\* A line behind whole lines.
LEMMA LineBehind ==
  ASSUME NEW text \in Seq(LinePieces), NEW line \in Seq(LinePieces), Len(line) = 2
  PROVE  /\ text \o line \in Seq(LinePieces) /\ Len(text) \in Nat /\ Len(text \o line) = Len(text) + 2
         /\ \A i \in 1 .. Len(text) : (text \o line)[i] = text[i]
         /\ (text \o line)[Len(text) + 1] = line[1] /\ (text \o line)[Len(text) + 2] = line[2]
  <1>1. Len(text) \in Nat
    BY LenProperties
  <1>2. /\ text \o line \in Seq(LinePieces) /\ Len(text \o line) = Len(text) + Len(line)
        /\ \A i \in 1 .. Len(text) + Len(line) : (text \o line)[i] = IF i <= Len(text) THEN text[i] ELSE line[i - Len(text)]
    BY ConcatProperties
  <1> DEFINE longer == text \o line
  <1>3. /\ longer \in Seq(LinePieces) /\ Len(longer) = Len(text) + 2
        /\ \A i \in 1 .. Len(text) + 2 : longer[i] = IF i <= Len(text) THEN text[i] ELSE line[i - Len(text)]
    BY <1>2
  <1> HIDE DEF longer
  <1>4. longer[Len(text) + 1] = line[1] /\ longer[Len(text) + 2] = line[2]
    <2>1. /\ Len(text) + 1 \in 1 .. Len(text) + 2 /\ ~(Len(text) + 1 <= Len(text)) /\ (Len(text) + 1) - Len(text) = 1
          /\ Len(text) + 2 \in 1 .. Len(text) + 2 /\ ~(Len(text) + 2 <= Len(text)) /\ (Len(text) + 2) - Len(text) = 2
      BY <1>1
    <2>2. longer[Len(text) + 1] = line[(Len(text) + 1) - Len(text)] /\ longer[Len(text) + 2] = line[(Len(text) + 2) - Len(text)]
      BY <1>3, <2>1
    <2> QED
      BY <2>1, <2>2
  <1>5. \A i \in 1 .. Len(text) : longer[i] = text[i]
    BY <1>1, <1>3
  <1> QED
    BY <1>1, <1>3, <1>4, <1>5 DEF longer

\* The server answers: two pieces more are under way.
LEMMA AnswersInv ==
  ASSUME SocketInv, NEW r \in serving, Answers(r)
  PROVE  SocketInv'
  <1>1. SocketTyped /\ IdsDiffer /\ LinesAreWhole /\ LinesAreTheirs /\ SocketsAreTheirs
    BY DEF SocketInv
  <1>2. r \in [over : Sockets, id : Nat \ {0}, of : Asks] /\ r.over \in Sockets /\ r.id \in Nat \ {0} /\ r.of \in Asks
        /\ r.id = ask[r.of].id
    BY <1>1 DEF SocketTyped, LinesAreTheirs
  <1> DEFINE first == [of |-> r.of, id |-> r.id, end |-> FALSE]
             last == [of |-> r.of, id |-> r.id, end |-> TRUE]
             line == << first, last >>
             s == r.over
             text == buffered[s] \o inbound[s]
  <1>3. /\ first \in LinePieces /\ last \in LinePieces /\ ~first.end /\ last.end
        /\ first.of = r.of /\ last.of = r.of /\ first.id = r.id /\ last.id = r.id
    BY <1>2 DEF LinePieces
  <1>4. /\ serving' = serving \ {r} /\ inbound' = [inbound EXCEPT ![s] = inbound[s] \o line]
        /\ UNCHANGED << ask, lastId, shared, link, buffered >>
    BY DEF Answers, Pieces
  <1> HIDE DEF first, last
  <1>5. line \in Seq(LinePieces) /\ Len(line) = 2 /\ line[1] = first /\ line[2] = last
    BY <1>3
  <1> HIDE DEF line
  <1>6. inbound[s] \in Seq(LinePieces) /\ buffered[s] \in Seq(LinePieces) /\ Len(inbound[s]) \in Nat /\ Len(buffered[s]) \in Nat
    BY <1>1, <1>2, LenProperties DEF SocketTyped
  <1>7. /\ inbound[s] \o line \in Seq(LinePieces) /\ Len(inbound[s] \o line) = Len(inbound[s]) + 2
        /\ \A i \in 1 .. Len(inbound[s]) : (inbound[s] \o line)[i] = inbound[s][i]
        /\ (inbound[s] \o line)[Len(inbound[s]) + 1] = line[1] /\ (inbound[s] \o line)[Len(inbound[s]) + 2] = line[2]
    BY <1>5, <1>6, LineBehind
  <1>8. /\ inbound'[s] = inbound[s] \o line
        /\ \A t \in Sockets : t # s => inbound'[t] = inbound[t]
        /\ inbound' \in [Sockets -> Seq(LinePieces)]
    BY <1>1, <1>2, <1>4, <1>7 DEF SocketTyped
  <1>14. /\ Len(inbound'[s]) = Len(inbound[s]) + 2
         /\ \A i \in 1 .. Len(inbound[s]) : inbound'[s][i] = inbound[s][i]
         /\ inbound'[s][Len(inbound[s]) + 1] = first /\ inbound'[s][Len(inbound[s]) + 2] = last
    BY <1>5, <1>7, <1>8
  <1>15. \A i \in 1 .. Len(inbound[s]) + 2 : i \in 1 .. Len(inbound[s]) \/ i = Len(inbound[s]) + 1 \/ i = Len(inbound[s]) + 2
    BY <1>6
  <1>9. SocketTyped' /\ IdsDiffer' /\ SocketsAreTheirs'
    BY <1>1, <1>4, <1>8 DEF SocketTyped, IdsDiffer, SocketsAreTheirs
  <1>10. LinesAreWhole'
    <2>1. text \in Seq(LinePieces) /\ Len(text) \in Nat /\ WholeLines(text)
      BY <1>1, <1>2, <1>6, ConcatProperties, LenProperties DEF LinesAreWhole
    <2>2. buffered'[s] \o inbound'[s] = text \o line
      <3>2. \A x, y, z \in Seq(LinePieces) : (x \o y) \o z = x \o (y \o z)
        BY ConcatAssociative
      <3>1. (buffered[s] \o inbound[s]) \o line = buffered[s] \o (inbound[s] \o line)
        BY <1>5, <1>6, <3>2
      <3> QED
        BY <1>4, <1>8, <3>1
    <2> HIDE DEF text
    <2> DEFINE longer == text \o line
    <2>4. /\ Len(longer) = Len(text) + 2
          /\ \A i \in 1 .. Len(text) : longer[i] = text[i]
          /\ longer[Len(text) + 1] = first /\ longer[Len(text) + 2] = last
      BY <1>5, <2>1, LineBehind
    <2> HIDE DEF longer
    <2>5. WholeLines(longer)
      <3> SUFFICES ASSUME NEW i \in 1 .. Len(text) + 2
                   PROVE  /\ longer[i].end => i > 1 /\ ~longer[i - 1].end /\ longer[i - 1].of = longer[i].of /\ longer[i - 1].id = longer[i].id
                          /\ ~longer[i].end => i < Len(longer) /\ longer[i + 1].end /\ longer[i + 1].of = longer[i].of
                                               /\ longer[i + 1].id = longer[i].id
        BY <2>4 DEF WholeLines
      <3>1. CASE i = Len(text) + 1
        <4>1. i + 1 = Len(text) + 2 /\ i < Len(text) + 2
          BY <2>1, <3>1
        <4> QED
          BY <1>3, <2>4, <3>1, <4>1
      <3>2. CASE i = Len(text) + 2
        <4>1. i - 1 = Len(text) + 1 /\ i > 1
          BY <2>1, <3>2
        <4> QED
          BY <1>3, <2>4, <3>2, <4>1
      <3>3. CASE i \in 1 .. Len(text)
        <4>1. longer[i] = text[i]
          BY <2>4, <3>3
        <4>2. CASE text[i].end
          <5>1. i > 1 /\ ~text[i - 1].end /\ text[i - 1].of = text[i].of /\ text[i - 1].id = text[i].id
            BY <2>1, <3>3, <4>2 DEF WholeLines
          <5>2. i - 1 \in 1 .. Len(text)
            BY <2>1, <3>3, <5>1
          <5> QED
            BY <2>4, <4>1, <4>2, <5>1, <5>2
        <4>3. CASE ~text[i].end
          <5>1. i < Len(text) /\ text[i + 1].end /\ text[i + 1].of = text[i].of /\ text[i + 1].id = text[i].id
            BY <2>1, <3>3, <4>3 DEF WholeLines
          <5>2. i + 1 \in 1 .. Len(text) /\ i < Len(text) + 2
            BY <2>1, <3>3, <5>1
          <5> QED
            BY <2>4, <4>1, <4>3, <5>1, <5>2
        <4> QED
          BY <4>2, <4>3
      <3> QED
        BY <2>1, <3>1, <3>2, <3>3
    <2> QED
      BY <1>1, <1>4, <1>8, <2>2, <2>5 DEF LinesAreWhole, longer
  <1>11. LinesAreTheirs'
    <2>1. ASSUME NEW t \in Sockets, NEW i \in 1 .. Len(inbound'[t]) PROVE inbound'[t][i].id = ask'[inbound'[t][i].of].id
      <3>1. CASE t # s
        BY <1>1, <1>4, <1>8, <2>1, <3>1 DEF LinesAreTheirs
      <3>2. CASE t = s
        <4>1. i \in 1 .. Len(inbound[s]) + 2
          BY <1>14, <2>1, <3>2
        <4>2. CASE i \in 1 .. Len(inbound[s])
          BY <1>1, <1>2, <1>4, <1>14, <3>2, <4>2 DEF LinesAreTheirs
        <4>3. CASE i = Len(inbound[s]) + 1 \/ i = Len(inbound[s]) + 2
          BY <1>2, <1>3, <1>4, <1>14, <3>2, <4>3
        <4> QED
          BY <1>15, <4>1, <4>2, <4>3
      <3> QED
        BY <3>1, <3>2
    <2>2. \A q \in serving' : q.id = ask'[q.of].id /\ q.over = ask'[q.of].over /\ link'[q.over] = "open"
      BY <1>1, <1>4 DEF LinesAreTheirs
    <2> QED
      BY <2>1, <2>2 DEF LinesAreTheirs
  <1>12. ASSUME NEW b \in Asks, ask'[b].at = "waiting" PROVE AnswerIsToCome(b)'
    <2> DEFINE t == ask[b].over
    <2>1. t \in Sockets /\ ask[b].id # 0 /\ link' = link /\ ask' = ask
          /\ \/ link[t] = "dropped"
             \/ link[t] = "open" /\ \/ \E q \in serving : q.of = b
                                    \/ \E i \in 1 .. Len(inbound[t]) : inbound[t][i].of = b /\ inbound[t][i].end
      BY <1>4, <1>12 DEF SocketInv, AnswerIsToCome
    <2> HIDE DEF t
    <2>2. ASSUME NEW i \in 1 .. Len(inbound[t]), inbound[t][i].of = b /\ inbound[t][i].end
          PROVE  \E j \in 1 .. Len(inbound'[t]) : inbound'[t][j].of = b /\ inbound'[t][j].end
      <3>1. CASE t # s
        BY <1>8, <2>1, <2>2, <3>1
      <3>2. CASE t = s
        <4>1. i \in 1 .. Len(inbound'[t]) /\ inbound'[t][i] = inbound[t][i]
          BY <1>6, <1>7, <1>8, <2>2, <3>2
        <4> QED
          BY <2>2, <4>1
      <3> QED
        BY <3>1, <3>2
    <2>3. ASSUME NEW q \in serving, q.of = b, link[t] = "open"
          PROVE  \/ \E k \in serving' : k.of = b
                 \/ \E j \in 1 .. Len(inbound'[t]) : inbound'[t][j].of = b /\ inbound'[t][j].end
      <3>1. CASE q # r
        BY <1>4, <2>3, <3>1
      <3>2. CASE q = r
        <4>1. t = s
          BY <1>1, <2>3, <3>2 DEF LinesAreTheirs, t
        <4>2. Len(inbound[s]) + 2 \in 1 .. Len(inbound'[s]) /\ inbound'[s][Len(inbound[s]) + 2] = last
          BY <1>5, <1>6, <1>7, <1>8
        <4> QED
          BY <1>3, <2>3, <3>2, <4>1, <4>2
      <3> QED
        BY <3>1, <3>2
    <2> QED
      BY <2>1, <2>2, <2>3 DEF AnswerIsToCome, t
  <1>13. \A b \in Asks : ask'[b].at = "answered" => ask'[b].got = {b}
    BY <1>4 DEF SocketInv
  <1> QED
    BY <1>9, <1>10, <1>11, <1>12, <1>13 DEF SocketInv

\* A socket that the server drops, and a server that stops.
LEMMA DropsInv ==
  ASSUME SocketInv, (\E s \in Sockets : Destroys(s)) \/ ServerStops
  PROVE  SocketInv'
  <1>1. SocketTyped /\ IdsDiffer /\ LinesAreWhole /\ LinesAreTheirs /\ SocketsAreTheirs
    BY DEF SocketInv
  <1>2. UNCHANGED << ask, lastId, shared, inbound, buffered >>
    BY DEF Destroys, ServerStops
  <1>3. /\ link' \in [Sockets -> {"unmade", "connecting", "open", "dropped", "closed"}]
        /\ \A t \in Sockets : link'[t] = link[t] \/ (link[t] = "open" /\ link'[t] = "dropped")
    BY <1>1 DEF Destroys, ServerStops, SocketTyped
  <1>4. /\ serving' \subseteq serving
        /\ \A r \in serving : r \in serving' => link'[r.over] = "open"
        /\ \A r \in serving : r \in serving' \/ link'[r.over] = "dropped"
    <2>1. \A r \in serving : r.over \in Sockets /\ link[r.over] = "open"
      BY <1>1 DEF SocketTyped, LinesAreTheirs
    <2>2. CASE ServerStops
      BY <2>1, <2>2 DEF ServerStops
    <2>3. ASSUME NEW s \in Sockets, Destroys(s)
          PROVE  /\ serving' \subseteq serving
                 /\ \A r \in serving : r \in serving' => link'[r.over] = "open"
                 /\ \A r \in serving : r \in serving' \/ link'[r.over] = "dropped"
      <3>1. serving' = { r \in serving : r.over # s } /\ link' = [link EXCEPT ![s] = "dropped"]
        BY <2>3 DEF Destroys
      <3> QED
        BY <1>1, <2>1, <3>1 DEF SocketTyped
    <2> QED
      BY <2>2, <2>3
  <1>5. SocketTyped'
    BY <1>1, <1>2, <1>3, <1>4 DEF SocketTyped
  <1>6. IdsDiffer' /\ LinesAreWhole'
    BY <1>1, <1>2 DEF IdsDiffer, LinesAreWhole
  <1>7. LinesAreTheirs'
    BY <1>1, <1>2, <1>4 DEF LinesAreTheirs
  <1>8. SocketsAreTheirs'
    <2>1. shared # 0 => shared \in Sockets
      BY <1>1, SocketAssumption DEF SocketTyped, Sockets
    <2> QED
      BY <1>1, <1>2, <1>3, <2>1 DEF SocketsAreTheirs
  <1>9. ASSUME NEW b \in Asks, ask'[b].at = "waiting" PROVE AnswerIsToCome(b)'
    <2> DEFINE t == ask[b].over
    <2>1. t \in Sockets /\ ask[b].id # 0
          /\ \/ link[t] = "dropped"
             \/ link[t] = "open" /\ \/ \E q \in serving : q.of = b
                                    \/ \E i \in 1 .. Len(inbound[t]) : inbound[t][i].of = b /\ inbound[t][i].end
      BY <1>2, <1>9 DEF SocketInv, AnswerIsToCome
    <2>2. \A q \in serving : q.of = b => q.over = t
      BY <1>1 DEF LinesAreTheirs
    <2> HIDE DEF t
    <2>3. \/ link'[t] = "dropped"
          \/ link'[t] = "open" /\ \/ \E q \in serving' : q.of = b
                                  \/ \E i \in 1 .. Len(inbound[t]) : inbound[t][i].of = b /\ inbound[t][i].end
      BY <1>3, <1>4, <2>1, <2>2
    <2> QED
      BY <1>2, <2>1, <2>3 DEF AnswerIsToCome, t
  <1>10. \A b \in Asks : ask'[b].at = "answered" => ask'[b].got = {b}
    BY <1>2 DEF SocketInv
  <1> QED
    BY <1>5, <1>6, <1>7, <1>8, <1>9, <1>10 DEF SocketInv

\* Those who wait are told, and what was under way to them over a socket that is closed is forgotten.
LEMMA ToldInv ==
  ASSUME SocketInv,
         ask' \in [Asks -> AskStates], UNCHANGED lastId,
         \A a \in Asks : /\ ask'[a].id = ask[a].id /\ ask'[a].over = ask[a].over /\ ask'[a].got = ask[a].got
                         /\ ask'[a].at # ask[a].at => ask[a].at = "waiting" /\ ask'[a].at = "failed",
         inbound' \in [Sockets -> Seq(LinePieces)], buffered' \in [Sockets -> Seq(LinePieces)],
         \A s \in Sockets : \/ inbound'[s] = inbound[s] /\ buffered'[s] = buffered[s]
                            \/ inbound'[s] = << >> /\ buffered'[s] = << >>,
         link' \in [Sockets -> {"unmade", "connecting", "open", "dropped", "closed"}],
         \A s \in Sockets : link[s] = "connecting" => link'[s] = "connecting",
         shared' = 0 \/ (shared' = shared /\ (shared # 0 => link'[shared] = link[shared])),
         serving' \subseteq serving, \A r \in serving' : link'[r.over] = "open",
         \/ \A a \in Asks : ask'[a].at # "waiting"
         \/ UNCHANGED << link, inbound, serving >>
  PROVE  SocketInv'
  <1>1. SocketTyped /\ IdsDiffer /\ LinesAreWhole /\ LinesAreTheirs /\ SocketsAreTheirs
    BY DEF SocketInv
  <1>2. SocketTyped'
    BY <1>1, SocketAssumption DEF SocketTyped
  <1>3. IdsDiffer'
    <2>1. \A a \in Asks : ask[a].id <= lastId /\ (ask[a].at \in {"idle", "connecting"} => ask[a].id = 0)
      BY <1>1 DEF IdsDiffer
    <2>2. \A a, b \in Asks : ask[a].id = ask[b].id /\ ask[a].id # 0 => a = b
      BY <1>1 DEF IdsDiffer
    <2>3. \A a \in Asks : ask'[a].id <= lastId' /\ (ask'[a].at \in {"idle", "connecting"} => ask'[a].id = 0)
      BY <2>1
    <2>4. \A a, b \in Asks : ask'[a].id = ask'[b].id /\ ask'[a].id # 0 => a = b
      BY <2>2
    <2> QED
      BY <2>3, <2>4 DEF IdsDiffer
  <1>4. LinesAreWhole'
    <2>1. << >> \in Seq(LinePieces) /\ Len(<< >>) = 0 /\ << >> \o << >> = << >>
      BY EmptySeq, ConcatEmptySeq
    <2>2. WholeLines(<< >>)
      BY <2>1 DEF WholeLines
    <2>3. ASSUME NEW s \in Sockets
          PROVE  /\ WholeLines(buffered'[s] \o inbound'[s])
                 /\ Len(buffered'[s]) <= 1 /\ (Len(buffered'[s]) = 1 => ~buffered'[s][1].end)
      <3>1. CASE inbound'[s] = inbound[s] /\ buffered'[s] = buffered[s]
        BY <1>1, <3>1 DEF LinesAreWhole
      <3>2. CASE inbound'[s] = << >> /\ buffered'[s] = << >>
        <4>1. buffered'[s] \o inbound'[s] = << >> /\ Len(buffered'[s]) = 0
          BY <2>1, <3>2
        <4> QED
          BY <2>2, <4>1
      <3> QED
        BY <3>1, <3>2
    <2> QED
      BY <2>3 DEF LinesAreWhole
  <1>5. LinesAreTheirs'
    <2>1. ASSUME NEW t \in Sockets, NEW i \in 1 .. Len(inbound'[t]) PROVE inbound'[t][i].id = ask'[inbound'[t][i].of].id
      <3>1. inbound'[t] = inbound[t]
        <4>1. inbound'[t] # << >>
          BY <2>1, EmptySeq
        <4> QED
          BY <4>1
      <3>5. inbound[t][i] \in LinePieces
        BY <1>1, <2>1, <3>1, ElementOfSeq DEF SocketTyped
      <3>2. inbound[t][i].of \in Asks
        BY <3>5 DEF LinePieces
      <3>3. inbound[t][i].id = ask[inbound[t][i].of].id
        BY <1>1, <2>1, <3>1 DEF LinesAreTheirs
      <3>4. ask'[inbound[t][i].of].id = ask[inbound[t][i].of].id
        BY <3>2
      <3> QED
        BY <3>1, <3>3, <3>4
    <2>2. ASSUME NEW r \in serving' PROVE r.id = ask'[r.of].id /\ r.over = ask'[r.of].over /\ link'[r.over] = "open"
      <3>1. r \in serving /\ r \in [over : Sockets, id : Nat \ {0}, of : Asks]
        BY <1>1, <2>2 DEF SocketTyped
      <3> QED
        BY <1>1, <2>2, <3>1 DEF LinesAreTheirs
    <2> QED
      BY <2>1, <2>2 DEF LinesAreTheirs
  <1>6. SocketsAreTheirs'
    <2>1. \A a \in Asks : ask'[a].at = "connecting" => ask[a].at = "connecting"
      OBVIOUS
    <2> QED
      BY <1>1, <2>1 DEF SocketsAreTheirs
  <1>7. ASSUME NEW b \in Asks, ask'[b].at = "waiting" PROVE AnswerIsToCome(b)'
    <2>1. ask[b].at = "waiting" /\ UNCHANGED << link, inbound, serving >>
      BY <1>7
    <2>2. AnswerIsToCome(b)
      BY <2>1 DEF SocketInv
    <2> QED
      BY <2>1, <2>2 DEF AnswerIsToCome
  <1>8. \A b \in Asks : ask'[b].at = "answered" => ask'[b].got = {b}
    BY DEF SocketInv
  <1> QED
    BY <1>2, <1>3, <1>4, <1>5, <1>6, <1>7, <1>8 DEF SocketInv

LEMMA RejectAllTells ==
  ASSUME SocketInv, RejectAll
  PROVE  /\ ask' \in [Asks -> AskStates]
         /\ \A a \in Asks : /\ ask'[a].id = ask[a].id /\ ask'[a].over = ask[a].over /\ ask'[a].got = ask[a].got
                            /\ ask'[a].at # ask[a].at => ask[a].at = "waiting" /\ ask'[a].at = "failed"
         /\ \A a \in Asks : ask'[a].at # "waiting"
  <1>1. ask \in [Asks -> AskStates]
    BY DEF SocketInv, SocketTyped
  <1>2. \A a \in Asks : ask'[a] = IF ask[a].at = "waiting" THEN [ask[a] EXCEPT !.at = "failed"] ELSE ask[a]
    BY DEF RejectAll, Waiting
  <1>3. ASSUME NEW a \in Asks
        PROVE  /\ ask'[a] \in AskStates
               /\ ask'[a].id = ask[a].id /\ ask'[a].over = ask[a].over /\ ask'[a].got = ask[a].got
               /\ ask'[a].at # ask[a].at => ask[a].at = "waiting" /\ ask'[a].at = "failed"
               /\ ask'[a].at # "waiting"
    <2>1. ask[a] \in AskStates
      BY <1>1
    <2> QED
      BY <1>2, <2>1 DEF AskStates
  <1>4. ask' \in [Asks -> AskStates]
    BY <1>3 DEF RejectAll
  <1> QED
    BY <1>3, <1>4

LEMMA ClosesInv ==
  ASSUME SocketInv, (\E a \in Asks : TimesOut(a)) \/ (\E s \in Sockets : Closes(s)) \/ CloseAll
  PROVE  SocketInv'
  <1>1. SocketTyped /\ LinesAreTheirs /\ SocketsAreTheirs /\ << >> \in Seq(LinePieces)
    BY EmptySeq DEF SocketInv
  <1>2. \A r \in serving : r.over \in Sockets /\ link[r.over] = "open"
    BY <1>1 DEF SocketTyped, LinesAreTheirs
  <1>3. shared # 0 => shared \in Sockets /\ link[shared] \in {"open", "dropped"}
    BY <1>1, SocketAssumption DEF SocketTyped, SocketsAreTheirs, Sockets
  <1>4. ASSUME NEW a \in Asks, TimesOut(a) PROVE SocketInv'
    <2>1. ask[a] \in AskStates /\ ask[a].at = "waiting" /\ ask' = [ask EXCEPT ![a].at = "failed"]
      BY <1>1, <1>4 DEF TimesOut, SocketTyped
    <2>2. ask' \in [Asks -> AskStates]
      BY <1>1, <2>1 DEF SocketTyped, AskStates
    <2>3. \A b \in Asks : /\ ask'[b].id = ask[b].id /\ ask'[b].over = ask[b].over /\ ask'[b].got = ask[b].got
                          /\ ask'[b].at # ask[b].at => ask[b].at = "waiting" /\ ask'[b].at = "failed"
      BY <1>1, <2>1 DEF SocketTyped, AskStates
    <2>4. UNCHANGED << lastId, shared, link, inbound, buffered, serving >>
      BY <1>4 DEF TimesOut
    <2> QED
      BY <1>1, <1>2, <2>2, <2>3, <2>4, ToldInv DEF SocketTyped
  <1>5. ASSUME NEW s \in Sockets, link[s] \in {"open", "dropped"}, RejectAll, Empty(s), link' = [link EXCEPT ![s] = "closed"],
               serving' = { r \in serving : r.over # s }, shared' = 0, lastId' = lastId
        PROVE  SocketInv'
    <2>1. /\ ask' \in [Asks -> AskStates]
          /\ \A a \in Asks : /\ ask'[a].id = ask[a].id /\ ask'[a].over = ask[a].over /\ ask'[a].got = ask[a].got
                             /\ ask'[a].at # ask[a].at => ask[a].at = "waiting" /\ ask'[a].at = "failed"
          /\ \A a \in Asks : ask'[a].at # "waiting"
      BY <1>5, RejectAllTells
    <2>2. /\ inbound' \in [Sockets -> Seq(LinePieces)] /\ buffered' \in [Sockets -> Seq(LinePieces)]
          /\ \A t \in Sockets : \/ inbound'[t] = inbound[t] /\ buffered'[t] = buffered[t]
                                \/ inbound'[t] = << >> /\ buffered'[t] = << >>
      BY <1>1, <1>5 DEF SocketTyped, Empty
    <2>3. /\ link' \in [Sockets -> {"unmade", "connecting", "open", "dropped", "closed"}]
          /\ \A t \in Sockets : link[t] = "connecting" => link'[t] = "connecting"
          /\ serving' \subseteq serving /\ \A r \in serving' : link'[r.over] = "open"
      BY <1>1, <1>2, <1>5 DEF SocketTyped
    <2> QED
      BY <1>5, <2>1, <2>2, <2>3, ToldInv
  <1>6. ASSUME NEW s \in Sockets, Closes(s) PROVE SocketInv'
    <2>1. serving' = { r \in serving : r.over # s }
      BY <1>2, <1>6 DEF Closes
    <2> QED
      BY <1>5, <1>6, <2>1 DEF Closes
  <1>7. CASE CloseAll /\ shared # 0
    BY <1>3, <1>5, <1>7 DEF CloseAll
  <1>8. CASE CloseAll /\ shared = 0
    <2>1. /\ ask' \in [Asks -> AskStates]
          /\ \A a \in Asks : /\ ask'[a].id = ask[a].id /\ ask'[a].over = ask[a].over /\ ask'[a].got = ask[a].got
                             /\ ask'[a].at # ask[a].at => ask[a].at = "waiting" /\ ask'[a].at = "failed"
      BY <1>8, RejectAllTells DEF CloseAll
    <2>2. UNCHANGED << lastId, link, inbound, buffered, serving >> /\ shared' = 0
      BY <1>8 DEF CloseAll
    <2> QED
      BY <1>1, <1>2, <2>1, <2>2, ToldInv DEF SocketTyped
  <1> QED
    BY <1>4, <1>6, <1>7, <1>8

LEMMA OneAlone ==
  ASSUME NEW text \in Seq(LinePieces), NEW m \in Nat \ {0}, text[m] \in LinePieces
  PROVE  /\ SubSeq(text, m, m) \in Seq(LinePieces) /\ Len(SubSeq(text, m, m)) = 1
         /\ SubSeq(text, m, m)[1] = text[m]
  <1>1. \A i \in m .. m : i = m
    OBVIOUS
  <1>2. \A i \in m .. m : text[i] \in LinePieces
    BY <1>1
  <1> DEFINE one == SubSeq(text, m, m)
  <1>3. one \in Seq(LinePieces) /\ Len(one) = (IF m <= m THEN m - m + 1 ELSE 0) /\ \A i \in 1 .. m - m + 1 : one[i] = text[m + i - 1]
    BY <1>2, SubSeqProperties
  <1> HIDE DEF one
  <1>4. m <= m /\ m - m + 1 = 1 /\ m + 1 - 1 = m /\ 1 \in 1 .. 1
    OBVIOUS
  <1>5. Len(one) = 1
    BY <1>3, <1>4
  <1>6. one[1] = text[m + 1 - 1]
    BY <1>3, <1>4
  <1> QED
    BY <1>3, <1>4, <1>5, <1>6 DEF one

\* What `data` makes of the first k pieces that come: the answers that they end, and at most one piece kept.
MadeOfLines(come, k, text, left) ==
  /\ left \in Seq(LinePieces) /\ Len(left) = Len(come) - k /\ Len(come) \in Nat
  /\ \A i \in 1 .. Len(left) : left[i] = come[k + i]
  /\ Rest(text) \in Seq(LinePieces) /\ Len(Rest(text)) <= 1 /\ (Len(Rest(text)) = 1 => ~Rest(text)[1].end)
  /\ WholeLines(Rest(text) \o left)
  /\ \A r : r \in AnswersIn(text) <=> \E i \in 1 .. k : come[i].end /\ r = come[i]

LEMMA DataLines ==
  ASSUME NEW before \in Seq(LinePieces), NEW come \in Seq(LinePieces), WholeLines(before \o come),
         Len(before) <= 1, Len(before) = 1 => ~before[1].end, NEW k \in 1 .. Len(come),
         NEW text, text = before \o SubSeq(come, 1, k), NEW left, left = SubSeq(come, k + 1, Len(come))
  PROVE  MadeOfLines(come, k, text, left)
  <1> DEFINE all == before \o come
             b == Len(before)
             n == Len(come)
             m == b + k
  <1>1. b \in {0, 1} /\ n \in Nat \ {0} /\ k \in 1 .. n /\ m \in Nat \ {0} /\ m <= b + n
    <2>1. b \in Nat /\ n \in Nat
      BY LenProperties
    <2> HIDE DEF b, n
    <2>2. b <= 1 /\ k \in 1 .. n
      BY DEF b, n
    <2> QED
      BY <2>1, <2>2
  <1>2. /\ all \in Seq(LinePieces) /\ Len(all) = b + n
        /\ \A i \in 1 .. b + n : all[i] = IF i <= b THEN before[i] ELSE come[i - b]
    BY ConcatProperties
  <1>3. \A i \in 1 .. n : come[i] \in LinePieces
    BY ElementOfSeq
  <1>4. /\ SubSeq(come, 1, k) \in Seq(LinePieces) /\ Len(SubSeq(come, 1, k)) = k
        /\ \A i \in 1 .. k : SubSeq(come, 1, k)[i] = come[i]
    <2>1. \A i \in 1 .. k : come[i] \in LinePieces
      BY <1>1, <1>3
    <2>2. /\ SubSeq(come, 1, k) \in Seq(LinePieces) /\ Len(SubSeq(come, 1, k)) = IF 1 <= k THEN k - 1 + 1 ELSE 0
          /\ \A i \in 1 .. k - 1 + 1 : SubSeq(come, 1, k)[i] = come[1 + i - 1]
      BY <1>1, <2>1, SubSeqProperties
    <2>3. k - 1 + 1 = k /\ 1 <= k /\ \A i \in 1 .. k : 1 + i - 1 = i
      BY <1>1
    <2> QED
      BY <2>2, <2>3
  <1>5. /\ left \in Seq(LinePieces) /\ Len(left) = n - k /\ \A i \in 1 .. n - k : left[i] = come[k + i]
    <2>1. \A i \in k + 1 .. n : come[i] \in LinePieces
      BY <1>1, <1>3
    <2>2. /\ left \in Seq(LinePieces) /\ Len(left) = IF k + 1 <= n THEN n - (k + 1) + 1 ELSE 0
          /\ \A i \in 1 .. n - (k + 1) + 1 : left[i] = come[(k + 1) + i - 1]
      BY <1>1, <2>1, SubSeqProperties
    <2>3. n - (k + 1) + 1 = n - k /\ (~(k + 1 <= n) => n - k = 0) /\ \A i \in 1 .. n - k : (k + 1) + i - 1 = k + i
      BY <1>1
    <2> QED
      BY <2>2, <2>3
  <1>6. /\ text \in Seq(LinePieces) /\ Len(text) = m /\ \A i \in 1 .. m : text[i] = all[i]
    <2> DEFINE head == SubSeq(come, 1, k)
    <2>1. head \in Seq(LinePieces) /\ Len(head) = k /\ (\A i \in 1 .. k : head[i] = come[i]) /\ text = before \o head
      BY <1>4
    <2> HIDE DEF head
    <2>2. /\ text \in Seq(LinePieces) /\ Len(text) = b + Len(head)
          /\ \A i \in 1 .. b + Len(head) : text[i] = IF i <= b THEN before[i] ELSE head[i - b]
      BY <2>1, ConcatProperties
    <2>3. ASSUME NEW i \in 1 .. m PROVE text[i] = all[i]
      <3>1. i \in 1 .. b + n /\ text[i] = IF i <= b THEN before[i] ELSE head[i - b]
        BY <1>1, <2>1, <2>2
      <3>2. ~(i <= b) => i - b \in 1 .. k
        BY <1>1
      <3> QED
        BY <1>2, <2>1, <3>1, <3>2
    <2> QED
      BY <2>1, <2>2, <2>3
  <1> HIDE DEF all, b, n, m
  <1>7. \A i \in 1 .. b + n :
          /\ all[i].end => i > 1 /\ ~all[i - 1].end /\ all[i - 1].of = all[i].of /\ all[i - 1].id = all[i].id
          /\ ~all[i].end => i < b + n /\ all[i + 1].end /\ all[i + 1].of = all[i].of /\ all[i + 1].id = all[i].id
    <2>1. WholeLines(all)
      BY DEF all
    <2> QED
      BY <1>2, <2>1 DEF WholeLines
  <1>8. LinesUpTo(text)
    <2> SUFFICES ASSUME NEW i \in 1 .. m
                 PROVE  /\ text[i].end => i > 1 /\ ~text[i - 1].end /\ text[i - 1].of = text[i].of /\ text[i - 1].id = text[i].id
                        /\ ~text[i].end /\ i < m => text[i + 1].end
      BY <1>6 DEF LinesUpTo
    <2>1. i \in 1 .. b + n /\ (i > 1 => i - 1 \in 1 .. m) /\ (i < m => i + 1 \in 1 .. m)
      BY <1>1
    <2> QED
      BY <1>6, <1>7, <2>1
  <1> DEFINE kept == Rest(text)
             c == Len(kept)
  <1>9. /\ kept \in Seq(LinePieces) /\ c \in {0, 1}
        /\ c = 0 => all[m].end
        /\ c = 1 => kept[1] = all[m] /\ ~all[m].end
    <2>1. m \in 1 .. m /\ text[m] = all[m] /\ text[m] \in LinePieces /\ m > 0
      <3>1. m \in 1 .. m /\ m > 0
        BY <1>1
      <3> QED
        BY <1>6, <3>1, ElementOfSeq
    <2>2. CASE text[m].end
      <3>1. Rest(text) = SubSeq(text, m + 1, m)
        BY <1>6, <1>8, <2>1, <2>2, RestIsTheLast
      <3>2. SubSeq(text, m + 1, m) = << >>
        BY <1>1, SubSeqEmpty
      <3> QED
        BY <2>1, <2>2, <3>1, <3>2, EmptySeq
    <2>3. CASE ~text[m].end
      <3>1. Rest(text) = SubSeq(text, m, m)
        BY <1>6, <1>8, <2>1, <2>3, RestIsTheLast
      <3>2. /\ SubSeq(text, m, m) \in Seq(LinePieces) /\ Len(SubSeq(text, m, m)) = 1
            /\ SubSeq(text, m, m)[1] = text[m]
        BY <1>1, <1>6, <2>1, OneAlone
      <3>3. kept \in Seq(LinePieces) /\ c = 1 /\ kept[1] = text[m]
        BY <3>1, <3>2
      <3> HIDE DEF kept, c
      <3>4. ~all[m].end
        BY <2>1, <2>3
      <3>5. kept[1] = all[m] /\ c \in {0, 1} /\ c # 0
        BY <2>1, <3>3
      <3> QED
        BY <3>3, <3>4, <3>5
    <2> QED
      BY <2>2, <2>3
  <1> HIDE DEF kept, c
  <1>10. WholeLines(kept \o left)
    <2> DEFINE then == kept \o left
               d == m - c
               z == c + (n - k)
    <2>1. /\ then \in Seq(LinePieces) /\ Len(then) = z
          /\ \A i \in 1 .. z : then[i] = IF i <= c THEN kept[i] ELSE left[i - c]
      <3>1. /\ then \in Seq(LinePieces) /\ Len(then) = Len(kept) + Len(left)
            /\ \A i \in 1 .. Len(kept) + Len(left) : then[i] = IF i <= Len(kept) THEN kept[i] ELSE left[i - Len(kept)]
        BY <1>5, <1>9, ConcatProperties
      <3>2. Len(left) = n - k /\ Len(kept) = c
        BY <1>5 DEF c
      <3> HIDE DEF then
      <3> QED
        BY <3>1, <3>2
    <2> HIDE DEF then
    <2>2. d \in Nat /\ d + z = b + n /\ z \in Nat
      <3>1. m = b + k /\ b \in Nat /\ n \in Nat /\ k \in Nat /\ k >= 1 /\ k <= n /\ c \in Nat /\ c <= 1
        BY <1>1, <1>9 DEF m
      <3>2. d = b + k - c /\ z = c + n - k
        BY <3>1
      <3> HIDE DEF d, z
      <3> QED
        BY <3>1, <3>2
    <2>3. ASSUME NEW i \in 1 .. z PROVE then[i] = all[d + i]
      <3>1. CASE i <= c
        <4>1. i = 1 /\ c = 1 /\ d + i = m
          BY <1>1, <1>9, <3>1
        <4> QED
          BY <1>9, <2>1, <4>1
      <3>2. CASE ~(i <= c)
        <4>1. i - c \in 1 .. n - k /\ k + (i - c) \in 1 .. n /\ d + i \in 1 .. b + n /\ ~(d + i <= b) /\ (d + i) - b = k + (i - c)
          BY <1>1, <1>9, <3>2 DEF m
        <4>2. then[i] = left[i - c] /\ left[i - c] = come[k + (i - c)]
          BY <1>5, <2>1, <3>2, <4>1
        <4>3. all[d + i] = come[(d + i) - b]
          BY <1>2, <4>1
        <4> QED
          BY <4>1, <4>2, <4>3
      <3> QED
        BY <3>1, <3>2
    <2> HIDE DEF d, z
    <2>4. ASSUME NEW i \in 1 .. z
          PROVE  /\ then[i].end => i > 1 /\ ~then[i - 1].end /\ then[i - 1].of = then[i].of /\ then[i - 1].id = then[i].id
                 /\ ~then[i].end => i < z /\ then[i + 1].end /\ then[i + 1].of = then[i].of /\ then[i + 1].id = then[i].id
      <3>1. d + i \in 1 .. b + n /\ then[i] = all[d + i]
        BY <1>1, <2>2, <2>3
      <3>2. CASE then[i].end
        <4>1. d + i > 1 /\ ~all[(d + i) - 1].end /\ all[(d + i) - 1].of = all[d + i].of /\ all[(d + i) - 1].id = all[d + i].id
          BY <1>7, <3>1, <3>2
        <4>2. i # 1
          <5>1. CASE c = 0
            <6>1. all[m].end /\ d = m
              BY <1>1, <1>9, <5>1 DEF d
            <6>2. i = 1 => (d + i) - 1 = m
              BY <1>1, <6>1
            <6> QED
              BY <4>1, <6>1, <6>2
          <5>2. CASE c = 1
            <6>1. ~all[m].end /\ d + 1 = m
              BY <1>1, <1>9, <5>2 DEF d
            <6> QED
              BY <3>1, <3>2, <6>1
          <5> QED
            BY <1>9, <5>1, <5>2
        <4>3. i - 1 \in 1 .. z /\ d + (i - 1) = (d + i) - 1 /\ i > 1
          BY <2>2, <4>2
        <4> QED
          BY <2>3, <3>1, <3>2, <4>1, <4>3
      <3>3. CASE ~then[i].end
        <4>1. d + i < b + n /\ all[(d + i) + 1].end /\ all[(d + i) + 1].of = all[d + i].of /\ all[(d + i) + 1].id = all[d + i].id
          BY <1>7, <3>1, <3>3
        <4>2. i + 1 \in 1 .. z /\ d + (i + 1) = (d + i) + 1 /\ i < z
          BY <1>1, <2>2, <4>1
        <4> QED
          BY <2>3, <3>1, <3>3, <4>1, <4>2
      <3> QED
        BY <3>2, <3>3
    <2>5. WholeLines(then)
      BY <2>1, <2>4 DEF WholeLines, z
    <2> QED
      BY <2>5 DEF then
  <1>11. \A r : r \in AnswersIn(text) <=> \E i \in 1 .. k : come[i].end /\ r = come[i]
    <2>1. Ends(text) = { i \in 1 .. m : text[i].end }
      <3>1. DOMAIN text = 1 .. m
        BY <1>6, LenProperties
      <3> QED
        BY <3>1 DEF Ends
    <2>2. AnswersIn(text) = { text[i] : i \in Ends(text) }
      <3>1. \A i \in Ends(text) : LineOf(text, i) = Pieces(text[i])
        BY <1>6, <1>8, LineIsItsPieces
      <3> QED
        BY <3>1 DEF AnswersIn
    <2>3. ASSUME NEW i \in Ends(text) PROVE i - b \in 1 .. k /\ come[i - b].end /\ text[i] = come[i - b]
      <3>4. i \in 1 .. m /\ text[i].end
        BY <2>1
      <3>5. i \in 1 .. b + n
        BY <1>1, <3>4
      <3>1. i \in 1 .. m /\ i \in 1 .. b + n /\ text[i].end /\ text[i] = IF i <= b THEN before[i] ELSE come[i - b]
        BY <1>2, <1>6, <3>4, <3>5
      <3>2. ~(i <= b)
        <4>1. i <= b => i = 1 /\ b = 1 /\ text[i] = before[1]
          BY <1>1, <3>1
        <4> QED
          BY <3>1, <4>1 DEF b
      <3>3. i - b \in 1 .. k
        BY <1>1, <3>1, <3>2 DEF m
      <3> QED
        BY <3>1, <3>2, <3>3
    <2>4. ASSUME NEW j \in 1 .. k, come[j].end PROVE b + j \in Ends(text) /\ text[b + j] = come[j]
      <3>1. b + j \in 1 .. m /\ b + j \in 1 .. b + n /\ ~(b + j <= b) /\ (b + j) - b = j
        BY <1>1 DEF m
      <3>2. text[b + j] = come[j]
        BY <1>2, <1>6, <3>1
      <3> QED
        BY <2>1, <2>4, <3>1, <3>2
    <2>5. ASSUME NEW r \in AnswersIn(text) PROVE \E i \in 1 .. k : come[i].end /\ r = come[i]
      <3>1. PICK i \in Ends(text) : r = text[i]
        BY <2>2
      <3>2. i - b \in 1 .. k /\ come[i - b].end /\ r = come[i - b]
        BY <2>3, <3>1
      <3> QED
        BY <3>2
    <2>6. ASSUME NEW j \in 1 .. k, come[j].end PROVE come[j] \in AnswersIn(text)
      BY <2>2, <2>4, <2>6
    <2> QED
      BY <2>5, <2>6
  <1>12. Len(left) = Len(come) - k /\ Len(come) \in Nat /\ \A i \in 1 .. Len(left) : left[i] = come[k + i]
    BY <1>1, <1>5 DEF n
  <1>13. c <= 1 /\ (c = 1 => ~kept[1].end)
    BY <1>9
  <1> QED
    BY <1>5, <1>9, <1>10, <1>11, <1>12, <1>13 DEF kept, c, MadeOfLines

LEMMA DataInv ==
  ASSUME SocketAssumption, SocketInv, NEW s \in Sockets, NEW k \in DOMAIN inbound[s], Data(s, k)
  PROVE  SocketInv'
  <1> DEFINE before == buffered[s]
             come == inbound[s]
             text == before \o SubSeq(come, 1, k)
             left == SubSeq(come, k + 1, Len(come))
             answers(a) == { r \in AnswersIn(text) : r.id = ask[a].id }
             asked == ask'
  <1>1. /\ before \in Seq(LinePieces) /\ come \in Seq(LinePieces) /\ k \in 1 .. Len(come)
        /\ WholeLines(before \o come) /\ Len(before) <= 1 /\ (Len(before) = 1 => ~before[1].end)
    <2>1. before \in Seq(LinePieces) /\ come \in Seq(LinePieces)
      BY DEF SocketInv, SocketTyped
    <2>2. k \in 1 .. Len(come)
      BY <2>1, LenProperties
    <2> QED
      BY <2>1, <2>2 DEF SocketInv, LinesAreWhole
  <1>2. /\ left \in Seq(LinePieces) /\ Len(left) = Len(come) - k /\ Len(come) \in Nat
        /\ \A i \in 1 .. Len(left) : left[i] = come[k + i]
        /\ Rest(text) \in Seq(LinePieces) /\ Len(Rest(text)) <= 1 /\ (Len(Rest(text)) = 1 => ~Rest(text)[1].end)
        /\ WholeLines(Rest(text) \o left)
        /\ \A r : r \in AnswersIn(text) <=> \E i \in 1 .. k : come[i].end /\ r = come[i]
    <2>1. text = before \o SubSeq(come, 1, k) /\ left = SubSeq(come, k + 1, Len(come))
      OBVIOUS
    <2> HIDE DEF before, come, text, left
    <2>2. /\ before \in Seq(LinePieces) /\ come \in Seq(LinePieces) /\ WholeLines(before \o come)
          /\ Len(before) <= 1 /\ (Len(before) = 1 => ~before[1].end) /\ k \in 1 .. Len(come)
      BY <1>1
    <2>3. MadeOfLines(come, k, text, left)
      BY <2>1, <2>2, DataLines
    <2> QED
      BY <2>3 DEF MadeOfLines
  <1>3. /\ inbound' = [inbound EXCEPT ![s] = left] /\ buffered' = [buffered EXCEPT ![s] = Rest(text)]
        /\ asked = [a \in Asks |-> IF a \in Waiting /\ answers(a) # {}
                                   THEN [ask[a] EXCEPT !.at = "answered", !.got = { r.of : r \in answers(a) }]
                                   ELSE ask[a]]
        /\ UNCHANGED << lastId, shared, link, serving >>
    BY DEF Data
  <1>4. /\ ask \in [Asks -> AskStates] /\ inbound \in [Sockets -> Seq(LinePieces)] /\ buffered \in [Sockets -> Seq(LinePieces)]
    BY DEF SocketInv, SocketTyped
  <1>5. \A i \in 1 .. Len(come) : come[i] \in LinePieces /\ come[i].of \in Asks /\ come[i].id = ask[come[i].of].id /\ come[i].id # 0
    <2>1. \A i \in 1 .. Len(come) : come[i] \in LinePieces
      BY <1>1, ElementOfSeq
    <2>2. \A i \in 1 .. Len(come) : come[i].id = ask[come[i].of].id
      BY DEF SocketInv, LinesAreTheirs
    <2> HIDE DEF come
    <2> QED
      BY <2>1, <2>2 DEF LinePieces
  <1>6. \A a, b \in Asks : ask[a].id = ask[b].id /\ ask[a].id # 0 => a = b
    BY DEF SocketInv, IdsDiffer
  <1>7. ASSUME NEW a \in Asks, NEW r \in answers(a) PROVE r.of = a
    <2>1. PICK i \in 1 .. Len(come) : r = come[i]
      <3> HIDE DEF come, text
      <3>1. r \in AnswersIn(text)
        BY <1>7
      <3>2. PICK i \in 1 .. k : r = come[i]
        BY <1>2, <3>1
      <3>3. i \in 1 .. Len(come)
        BY <1>1, <1>2
      <3> QED
        BY <3>2, <3>3
    <2> HIDE DEF come
    <2> QED
      BY <1>5, <1>6, <1>7, <2>1
  <1> HIDE DEF before, come, text, left, asked
  <1>8. ASSUME NEW a \in Asks
        PROVE  /\ asked[a] \in AskStates /\ asked[a].id = ask[a].id /\ asked[a].over = ask[a].over
               /\ \/ asked[a].at = ask[a].at /\ asked[a].got = ask[a].got /\ (a \in Waiting => answers(a) = {})
                  \/ a \in Waiting /\ answers(a) # {} /\ asked[a].at = "answered" /\ asked[a].got = {a}
    <2>1. ask[a] \in AskStates
      BY <1>4
    <2>2. CASE a \in Waiting /\ answers(a) # {}
      <3>1. { r.of : r \in answers(a) } = {a}
        BY <1>7, <2>2
      <3>2. asked[a] = [ask[a] EXCEPT !.at = "answered", !.got = {a}]
        BY <1>3, <2>2, <3>1
      <3> QED
        BY <2>1, <2>2, <3>2 DEF AskStates
    <2>3. CASE ~(a \in Waiting /\ answers(a) # {})
      <3>1. asked[a] = ask[a] /\ (a \in Waiting => answers(a) = {})
        BY <1>3, <2>3
      <3> HIDE DEF answers
      <3> QED
        BY <2>1, <3>1
    <2> QED
      BY <2>2, <2>3
  <1>9. asked \in [Asks -> AskStates]
    BY <1>3, <1>8
  <1>10. SocketTyped'
    <2>1. inbound' \in [Sockets -> Seq(LinePieces)] /\ buffered' \in [Sockets -> Seq(LinePieces)]
      BY <1>2, <1>3, <1>4
    <2> QED
      BY <1>3, <1>9, <2>1 DEF SocketInv, SocketTyped, asked
  <1>11. IdsDiffer'
    <2>1. \A a \in Asks : ask[a].id <= lastId /\ (ask[a].at \in {"idle", "connecting"} => ask[a].id = 0)
      BY DEF SocketInv, IdsDiffer
    <2>2. /\ \A a \in Asks : asked[a].id <= lastId /\ (asked[a].at \in {"idle", "connecting"} => asked[a].id = 0)
          /\ \A a, b \in Asks : asked[a].id = asked[b].id /\ asked[a].id # 0 => a = b
      BY <1>6, <1>8, <2>1
    <2> QED
      BY <1>3, <2>2 DEF IdsDiffer, asked
  <1>12. \A t \in Sockets : t # s => inbound'[t] = inbound[t] /\ buffered'[t] = buffered[t]
    BY <1>3, <1>4
  <1>13. inbound'[s] = left /\ buffered'[s] = Rest(text)
    BY <1>3, <1>4
  <1>14. LinesAreWhole'
    <2>1. ASSUME NEW t \in Sockets
          PROVE  /\ WholeLines(buffered'[t] \o inbound'[t])
                 /\ Len(buffered'[t]) <= 1 /\ (Len(buffered'[t]) = 1 => ~buffered'[t][1].end)
      <3>1. CASE t = s
        BY <1>2, <1>13, <3>1
      <3>2. CASE t # s
        BY <1>12, <3>2 DEF SocketInv, LinesAreWhole
      <3> QED
        BY <3>1, <3>2
    <2> QED
      BY <2>1 DEF LinesAreWhole, WholeLines
  <1>15. LinesAreTheirs'
    <2>1. ASSUME NEW t \in Sockets, NEW i \in 1 .. Len(inbound'[t])
          PROVE  inbound'[t][i].id = asked[inbound'[t][i].of].id
      <3>1. CASE t = s
        <4>1. i \in 1 .. Len(left) /\ inbound'[t][i] = left[i]
          BY <1>13, <2>1, <3>1
        <4>2. left[i] = come[k + i] /\ k + i \in 1 .. Len(come)
          BY <1>1, <1>2, <4>1
        <4> QED
          BY <1>5, <1>8, <4>1, <4>2
      <3>2. CASE t # s
        <4>1. inbound'[t] = inbound[t] /\ i \in 1 .. Len(inbound[t]) /\ inbound[t] \in Seq(LinePieces)
          BY <1>4, <1>12, <2>1, <3>2
        <4>2. inbound[t][i].id = ask[inbound[t][i].of].id
          BY <4>1 DEF SocketInv, LinesAreTheirs
        <4>3. inbound[t][i] \in LinePieces
          BY <4>1, ElementOfSeq
        <4>4. inbound[t][i].of \in Asks
          BY <4>3 DEF LinePieces
        <4> QED
          BY <1>8, <4>1, <4>2, <4>4
      <3> QED
        BY <3>1, <3>2
    <2>2. ASSUME NEW r \in serving PROVE r.id = asked[r.of].id /\ r.over = asked[r.of].over /\ link[r.over] = "open"
      <3>1. r.of \in Asks
        BY DEF SocketInv, SocketTyped
      <3>2. r.id = ask[r.of].id /\ r.over = ask[r.of].over /\ link[r.over] = "open"
        BY DEF SocketInv, LinesAreTheirs
      <3> QED
        BY <1>8, <3>1, <3>2
    <2> QED
      BY <1>3, <2>1, <2>2 DEF LinesAreTheirs, asked
  <1>16. SocketsAreTheirs'
    <2>1. /\ shared # 0 => link[shared] \in {"open", "dropped"}
          /\ \A a \in Asks : ask[a].at = "connecting" => ask[a].over \in Sockets /\ link[ask[a].over] = "connecting"
          /\ \A a, b \in Asks : ask[a].at = "connecting" /\ ask[b].at = "connecting" /\ ask[a].over = ask[b].over => a = b
      BY DEF SocketInv, SocketsAreTheirs
    <2>2. /\ \A a \in Asks : asked[a].at = "connecting" => asked[a].over \in Sockets /\ link[asked[a].over] = "connecting"
          /\ \A a, b \in Asks : asked[a].at = "connecting" /\ asked[b].at = "connecting" /\ asked[a].over = asked[b].over => a = b
      BY <1>8, <2>1
    <2> QED
      BY <1>3, <2>1, <2>2 DEF SocketsAreTheirs, asked
  <1>17. ASSUME NEW a \in Asks, asked[a].at = "waiting" PROVE AnswerIsToCome(a)'
    <2>1. ask[a].at = "waiting" /\ a \in Waiting /\ answers(a) = {}
      BY <1>8, <1>17 DEF Waiting
    <2>2. AnswerIsToCome(a)
      BY <2>1 DEF SocketInv
    <2> DEFINE t == ask[a].over
    <2>3. t \in Sockets /\ ask[a].id # 0 /\ asked[a].over = t /\ asked[a].id = ask[a].id
      BY <1>8, <2>2 DEF AnswerIsToCome
    <2>4. CASE link[t] = "dropped" \/ (link[t] = "open" /\ \E r \in serving : r.of = a)
      BY <1>3, <2>3, <2>4 DEF AnswerIsToCome, asked
    <2>5. CASE link[t] = "open" /\ \E i \in 1 .. Len(inbound[t]) : inbound[t][i].of = a /\ inbound[t][i].end
      <3>1. PICK i \in 1 .. Len(inbound[t]) : inbound[t][i].of = a /\ inbound[t][i].end
        BY <2>5
      <3>2. \E j \in 1 .. Len(inbound'[t]) : inbound'[t][j].of = a /\ inbound'[t][j].end
        <4>1. CASE t = s
          <5>1. i \in 1 .. Len(come) /\ come[i].of = a /\ come[i].end /\ come[i].id = ask[a].id
            <6>1. i \in 1 .. Len(come) /\ come[i].of = a /\ come[i].end
              BY <3>1, <4>1 DEF come
            <6> QED
              BY <1>5, <6>1
          <5>2. ~(i <= k)
            <6>1. i <= k => i \in 1 .. k
              BY <1>1, <5>1
            <6>2. i <= k => come[i] \in AnswersIn(text)
              BY <1>2, <5>1, <6>1
            <6> QED
              BY <2>1, <5>1, <6>2
          <5>3. i - k \in 1 .. Len(left) /\ k + (i - k) = i
            BY <1>1, <1>2, <5>1, <5>2
          <5>4. left[i - k] = come[i]
            BY <1>2, <5>3
          <5> QED
            BY <1>13, <4>1, <5>1, <5>3, <5>4
        <4>2. CASE t # s
          BY <1>12, <2>3, <3>1, <4>2
        <4> QED
          BY <4>1, <4>2
      <3> QED
        BY <1>3, <2>3, <2>5, <3>2 DEF AnswerIsToCome, asked
    <2>6. \/ link[t] = "dropped"
          \/ link[t] = "open" /\ (\E r \in serving : r.of = a)
          \/ link[t] = "open" /\ \E i \in 1 .. Len(inbound[t]) : inbound[t][i].of = a /\ inbound[t][i].end
      BY <2>2 DEF AnswerIsToCome
    <2> QED
      BY <2>4, <2>5, <2>6
  <1>18. ASSUME NEW a \in Asks, asked[a].at = "answered" PROVE asked[a].got = {a}
    BY <1>8, <1>18 DEF SocketInv
  <1> QED
    BY <1>10, <1>11, <1>14, <1>15, <1>16, <1>17, <1>18 DEF SocketInv, asked

LEMMA SocketInvStep ==
  ASSUME SocketAssumption, SocketInv, [SocketNext]_socketVars
  PROVE  SocketInv'
  <1>1. CASE \E a \in Asks : AskShared(a) \/ Connected(a)
    BY <1>1, AskInv
  <1>2. CASE \E a \in Asks : Connect(a) \/ NotConnected(a)
    BY <1>2, ConnectInv
  <1>3. CASE \E a \in Asks : TimesOut(a)
    BY <1>3, ClosesInv
  <1>4. CASE \E r \in serving : Answers(r)
    BY <1>4, AnswersInv
  <1>5. CASE (\E s \in Sockets : Destroys(s)) \/ ServerStops
    BY <1>5, DropsInv
  <1>6. CASE (\E s \in Sockets : Closes(s)) \/ CloseAll
    BY <1>6, ClosesInv
  <1>7. CASE \E s \in Sockets : \E k \in DOMAIN inbound[s] : Data(s, k)
    BY <1>7, DataInv
  <1>8. CASE ServerStarts \/ UNCHANGED socketVars
    <2>1. UNCHANGED << ask, lastId, shared, link, inbound, buffered, serving >>
      BY <1>8 DEF ServerStarts, socketVars
    <2>2. SocketTyped'
      BY <2>1 DEF SocketInv, SocketTyped
    <2>3. IdsDiffer'
      BY <2>1 DEF SocketInv, IdsDiffer
    <2>4. LinesAreWhole'
      <3>1. buffered' = buffered /\ inbound' = inbound /\ LinesAreWhole
        BY <2>1 DEF SocketInv
      <3>2. \A s \in Sockets : WholeLines(buffered'[s] \o inbound'[s]) /\ Len(buffered'[s]) <= 1 /\ (Len(buffered'[s]) = 1 => ~buffered'[s][1].end)
        BY <3>1 DEF LinesAreWhole
      <3> QED
        BY <3>2 DEF LinesAreWhole, WholeLines
    <2>5. LinesAreTheirs'
      BY <2>1 DEF SocketInv, LinesAreTheirs
    <2>6. SocketsAreTheirs'
      BY <2>1 DEF SocketInv, SocketsAreTheirs
    <2>7. \A a \in Asks : (ask[a].at = "waiting" => AnswerIsToCome(a))'
      BY <2>1 DEF SocketInv, AnswerIsToCome
    <2>8. \A a \in Asks : (ask[a].at = "answered" => ask[a].got = {a})'
      BY <2>1 DEF SocketInv
    <2> QED
      BY <2>2, <2>3, <2>4, <2>5, <2>6, <2>7, <2>8 DEF SocketInv
  <1> QED
    BY <1>1, <1>2, <1>3, <1>4, <1>5, <1>6, <1>7, <1>8 DEF SocketNext

LEMMA SocketInvHolds == SocketSpec => []SocketInv
  <1> USE SocketAssumption
  <1> QED
    BY SocketInvInit, SocketInvStep, PTL DEF SocketSpec

\* However many sockets and requests there are: whatever order the answers come in, in however many pieces, each
\* request of one connection gets its own answer or an error, and none waits for one that cannot come
\* (src/src/server/server-connection.ts:185, src/src/server/lines.ts).
THEOREM EachGetsItsOwnLine == SocketSpec => []OwnLine
  <1>1. SocketInv => OwnLine
    <2> SUFFICES ASSUME SocketInv PROVE OwnLine
      OBVIOUS
    <2>1. ASSUME NEW a \in Asks, ask[a].at = "waiting"
          PROVE  LET s == ask[a].over IN
                 \/ link[s] = "dropped"
                 \/ link[s] = "open" /\ \/ \E r \in serving : r.of = a
                                        \/ \E i \in DOMAIN inbound[s] : inbound[s][i].of = a /\ inbound[s][i].end
      <3>1. AnswerIsToCome(a)
        BY <2>1 DEF SocketInv
      <3>2. inbound[ask[a].over] \in Seq(LinePieces)
        BY <3>1 DEF AnswerIsToCome, SocketInv, SocketTyped
      <3>3. DOMAIN inbound[ask[a].over] = 1 .. Len(inbound[ask[a].over])
        BY <3>2, LenProperties
      <3> QED
        BY <3>1, <3>3 DEF AnswerIsToCome
    <2>2. \A a \in Asks : ask[a].at = "answered" => ask[a].got = {a}
      BY DEF SocketInv
    <2> QED
      BY <2>1, <2>2 DEF OwnLine
  <1> QED
    BY <1>1, SocketInvHolds, PTL

----------------------------------------------------------------------------
\* LocalSocket: the ids that were given are as many as the requests that have one.
Numbered == { a \in Asks : ask[a].id # 0 }

NumbersInv ==
  /\ lastId = Cardinality(Numbered)
  /\ serverUp \in BOOLEAN /\ over \in BOOLEAN /\ drops \in 0 .. MaxDrops

LEMMA OneIdMore ==
  ASSUME IsFiniteSet(Asks), NEW held, held \subseteq Asks, NEW a \in Asks, a \notin held
  PROVE  Cardinality(held \cup {a}) = Cardinality(held) + 1
  <1>1. IsFiniteSet(held)
    BY FS_Subset
  <1> QED
    BY <1>1, FS_AddElement

LEMMA NumbersInit == ASSUME SocketAssumption PROVE SocketInit => NumbersInv
  <1> SUFFICES ASSUME SocketInit PROVE NumbersInv
    OBVIOUS
  <1>1. Numbered = {}
    BY DEF SocketInit, Numbered, NotAsked
  <1>2. Cardinality(Numbered) = 0
    BY <1>1, FS_EmptySet
  <1>3. lastId = 0 /\ serverUp = TRUE /\ over = FALSE /\ drops = 0 /\ MaxDrops \in Nat
    BY DEF SocketInit, SocketAssumption
  <1>4. serverUp \in BOOLEAN /\ over \in BOOLEAN
    BY <1>3
  <1>5. drops \in 0 .. MaxDrops
    BY <1>3
  <1>6. lastId = Cardinality(Numbered)
    BY <1>2, <1>3
  <1> QED
    BY <1>4, <1>5, <1>6 DEF NumbersInv

\* Only what a request writes gives it an id: the next one, to a request that had none.
LEMMA WritesNumber ==
  ASSUME SocketInv, NumbersInv, IsFiniteSet(Asks), NEW a \in Asks, NEW s \in Sockets,
         ask[a].at \in {"idle", "connecting"}, Writes(a, s)
  PROVE  lastId' = Cardinality(Numbered')
  <1>1. /\ ask \in [Asks -> AskStates] /\ lastId \in Nat /\ ask[a].id = 0
        /\ lastId' = lastId + 1 /\ ask' = [ask EXCEPT ![a] = [at |-> "waiting", over |-> s, id |-> lastId + 1, got |-> {}]]
    BY DEF SocketInv, SocketTyped, IdsDiffer, Writes, NextId
  <1>2. ask'[a].id = lastId + 1 /\ lastId + 1 # 0 /\ \A b \in Asks : b # a => ask'[b] = ask[b]
    BY <1>1
  <1>3. Numbered' = Numbered \cup {a} /\ a \notin Numbered /\ Numbered \subseteq Asks
    BY <1>1, <1>2 DEF Numbered
  <1>4. Cardinality(Numbered \cup {a}) = Cardinality(Numbered) + 1
    BY <1>3, OneIdMore
  <1> QED
    BY <1>1, <1>3, <1>4 DEF NumbersInv

LEMMA NumbersStep ==
  ASSUME SocketAssumption, SocketInv, NumbersInv, IsFiniteSet(Asks), [SocketNext]_socketVars
  PROVE  NumbersInv'
  <1>1. ask \in [Asks -> AskStates] /\ MaxDrops \in Nat /\ shared \in 0 .. MaxSockets /\ MaxSockets \in Nat
    BY DEF SocketInv, SocketTyped, SocketAssumption
  <1>2. serverUp' \in BOOLEAN /\ over' \in BOOLEAN /\ drops' \in 0 .. MaxDrops
    <2>1. drops < MaxDrops => drops + 1 \in 0 .. MaxDrops
      BY <1>1 DEF NumbersInv
    <2> QED
      BY <2>1 DEF NumbersInv, SocketNext, socketVars, AskShared, Connect, Connected, NotConnected, TimesOut, Answers, Destroys,
                  Closes, Data, ServerStops, ServerStarts, CloseAll
  <1>3. lastId' = Cardinality(Numbered')
    <2>1. ASSUME lastId' = lastId, \A a \in Asks : ask'[a].id = ask[a].id PROVE lastId' = Cardinality(Numbered')
      <3>1. Numbered' = Numbered
        BY <2>1 DEF Numbered
      <3> QED
        BY <2>1, <3>1 DEF NumbersInv
    <2>2. ASSUME NEW a \in Asks, AskShared(a) PROVE lastId' = Cardinality(Numbered')
      <3>1. ask[a].at = "idle" /\ shared \in Sockets /\ Writes(a, shared)
        BY <1>1, <2>2 DEF AskShared, Sockets
      <3> QED
        BY <3>1, WritesNumber
    <2>3. ASSUME NEW a \in Asks, Connected(a) PROVE lastId' = Cardinality(Numbered')
      <3>1. ask[a].at = "connecting" /\ ask[a].over \in Sockets /\ Writes(a, ask[a].over)
        BY <2>3 DEF Connected, SocketInv, SocketsAreTheirs
      <3> QED
        BY <3>1, WritesNumber
    <2>4. ASSUME NEW a \in Asks, Connect(a) PROVE lastId' = lastId /\ \A b \in Asks : ask'[b].id = ask[b].id
      <3>1. ask[a].id = 0
        BY <2>4 DEF Connect, SocketInv, IdsDiffer
      <3> QED
        BY <1>1, <2>4, <3>1 DEF Connect, NotAsked
    <2>5. ASSUME NEW a \in Asks, NotConnected(a) \/ TimesOut(a) PROVE lastId' = lastId /\ \A b \in Asks : ask'[b].id = ask[b].id
      BY <1>1, <2>5 DEF NotConnected, TimesOut, AskStates
    <2>6. ASSUME NEW s \in Sockets, NEW k \in DOMAIN inbound[s], Data(s, k)
          PROVE  lastId' = lastId /\ \A b \in Asks : ask'[b].id = ask[b].id
      BY <1>1, <2>6 DEF Data, AskStates
    <2>7. ASSUME RejectAll PROVE \A b \in Asks : ask'[b].id = ask[b].id
      BY <1>1, <2>7 DEF RejectAll, AskStates
    <2>8. ASSUME (\E s \in Sockets : Closes(s)) \/ CloseAll PROVE lastId' = lastId /\ \A b \in Asks : ask'[b].id = ask[b].id
      BY <2>7, <2>8 DEF Closes, CloseAll
    <2>9. ASSUME \/ \E r \in serving : Answers(r)
                 \/ \E s \in Sockets : Destroys(s)
                 \/ ServerStops \/ ServerStarts \/ UNCHANGED socketVars
          PROVE  lastId' = lastId /\ \A b \in Asks : ask'[b].id = ask[b].id
      BY <2>9 DEF Answers, Destroys, ServerStops, ServerStarts, socketVars
    <2> QED
      BY <2>1, <2>2, <2>3, <2>4, <2>5, <2>6, <2>8, <2>9 DEF SocketNext
  <1> QED
    BY <1>2, <1>3 DEF NumbersInv

\* What is kept of a line is its first piece; the rest of it is under way.
LEMMA PiecesAreNumbered ==
  ASSUME SocketInv, NEW s \in Sockets
  PROVE  /\ \A i \in 1 .. Len(inbound[s]) : inbound[s][i].id <= lastId
         /\ \A i \in 1 .. Len(buffered[s]) : buffered[s][i].id <= lastId
  <1> DEFINE come == inbound[s]
             kept == buffered[s]
             text == kept \o come
  <1>1. /\ come \in Seq(LinePieces) /\ kept \in Seq(LinePieces) /\ WholeLines(text)
        /\ Len(kept) <= 1 /\ (Len(kept) = 1 => ~kept[1].end)
        /\ \A i \in 1 .. Len(come) : come[i].id = ask[come[i].of].id
        /\ \A a \in Asks : ask[a].id <= lastId
    BY DEF SocketInv, SocketTyped, IdsDiffer, LinesAreWhole, LinesAreTheirs
  <1> HIDE DEF come, kept
  <1>2. Len(come) \in Nat /\ Len(kept) \in Nat /\ \A i \in 1 .. Len(come) : come[i] \in LinePieces
    BY <1>1, LenProperties, ElementOfSeq
  <1>3. \A i \in 1 .. Len(come) : come[i].id <= lastId
    BY <1>1, <1>2 DEF LinePieces
  <1>4. ASSUME Len(kept) = 1 PROVE kept[1].id <= lastId
    <2>1. /\ Len(text) = 1 + Len(come) /\ text[1] = kept[1]
          /\ \A i \in 1 .. Len(text) : i > 1 => text[i] = come[i - 1]
      BY <1>1, <1>2, <1>4, ConcatProperties
    <2> HIDE DEF text
    <2>2. 1 \in 1 .. Len(text) /\ ~text[1].end
      BY <1>1, <1>2, <1>4, <2>1
    <2>3. 1 < Len(text) /\ text[1 + 1].id = text[1].id
      BY <1>1, <2>2 DEF WholeLines
    <2>4. 2 \in 1 .. Len(text) /\ 1 \in 1 .. Len(come) /\ 1 + 1 = 2 /\ 2 - 1 = 1
      BY <1>2, <2>1, <2>3
    <2>5. text[2] = come[1]
      BY <2>1, <2>4
    <2> QED
      BY <1>3, <2>1, <2>3, <2>4, <2>5
  <1>5. ASSUME NEW i \in 1 .. Len(kept) PROVE kept[i].id <= lastId
    <2>1. i = 1 /\ Len(kept) = 1
      <3>1. Len(kept) <= 1 /\ Len(kept) \in Nat /\ i \in Nat /\ 1 <= i /\ i <= Len(kept)
        BY <1>1, <1>2
      <3>2. \A n \in Nat : n <= 1 /\ 1 <= i /\ i <= n => i = 1 /\ n = 1
        BY <3>1
      <3> QED
        BY <3>1, <3>2
    <2> QED
      BY <1>4, <2>1
  <1> QED
    BY <1>3, <1>5 DEF come, kept

\* Every variable of the requests over the local socket has its type: no more ids are given than there are requests.
THEOREM SocketTypeCorrect == ASSUME IsFiniteSet(Asks) PROVE SocketSpec => []SocketTypeOK
  <1> USE SocketAssumption
  <1>1. SocketInit => NumbersInv
    BY NumbersInit
  <1>2. SocketInv /\ NumbersInv /\ [SocketNext]_socketVars => NumbersInv'
    BY NumbersStep
  <1>3. SocketInv /\ NumbersInv => SocketTypeOK
    <2> SUFFICES ASSUME SocketInv, NumbersInv PROVE SocketTypeOK
      OBVIOUS
    <2>1. lastId <= Cardinality(Asks) /\ lastId \in Nat /\ Cardinality(Asks) \in Nat
      <3>1. Numbered \subseteq Asks
        BY DEF Numbered
      <3>2. Cardinality(Numbered) <= Cardinality(Asks) /\ Cardinality(Asks) \in Nat
        BY <3>1, FS_Subset, FS_CardinalityType
      <3> QED
        BY <3>2 DEF SocketInv, SocketTyped, NumbersInv
    <2>2. ask \in [Asks -> [at : {"idle", "connecting", "waiting", "answered", "failed"},
                            over : 0 .. MaxSockets, id : 0 .. Cardinality(Asks), got : SUBSET Asks]]
      <3>1. ask \in [Asks -> AskStates] /\ \A a \in Asks : ask[a].id <= lastId
        BY DEF SocketInv, SocketTyped, IdsDiffer
      <3>2. \A a \in Asks : ask[a].id \in Nat /\ ask[a].id \in 0 .. Cardinality(Asks)
        BY <2>1, <3>1 DEF AskStates
      <3> QED
        BY <3>1, <3>2 DEF AskStates
    <2>3. ASSUME NEW s \in Sockets PROVE inbound[s] \in Seq(PieceSet) /\ buffered[s] \in Seq(PieceSet)
      <3>1. inbound[s] \in Seq(LinePieces) /\ buffered[s] \in Seq(LinePieces)
        BY DEF SocketInv, SocketTyped
      <3>2. ASSUME NEW text \in Seq(LinePieces), \A i \in 1 .. Len(text) : text[i].id <= lastId PROVE text \in Seq(PieceSet)
        <4>1. ASSUME NEW i \in 1 .. Len(text) PROVE text[i] \in PieceSet
          <5>1. text[i] \in LinePieces /\ text[i].id <= lastId
            BY <3>2, <4>1, ElementOfSeq
          <5>2. text[i].id \in 1 .. Cardinality(Asks)
            BY <2>1, <5>1 DEF LinePieces
          <5> QED
            BY <5>1, <5>2 DEF LinePieces, PieceSet
        <4>2. text = [i \in 1 .. Len(text) |-> text[i]] /\ Len(text) \in Nat
          BY <3>2, LenProperties
        <4> QED
          BY <4>1, <4>2, IsASeq
      <3> QED
        BY <3>1, <3>2, PiecesAreNumbered
    <2>4. serving \subseteq [over : Sockets, id : 1 .. Cardinality(Asks), of : Asks]
      <3>1. ASSUME NEW r \in serving PROVE r \in [over : Sockets, id : 1 .. Cardinality(Asks), of : Asks]
        <4>1. r \in [over : Sockets, id : Nat \ {0}, of : Asks] /\ r.id = ask[r.of].id /\ ask[r.of].id <= lastId
          BY DEF SocketInv, SocketTyped, LinesAreTheirs, IdsDiffer
        <4>2. r.id \in 1 .. Cardinality(Asks)
          BY <2>1, <4>1
        <4> QED
          BY <4>1, <4>2
      <3> QED
        BY <3>1
    <2> QED
      BY <2>1, <2>2, <2>3, <2>4 DEF SocketTypeOK, SocketInv, SocketTyped, NumbersInv
  <1> QED
    BY <1>1, <1>2, <1>3, SocketInvHolds, PTL DEF SocketSpec

=============================================================================

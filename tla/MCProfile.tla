------------------------------ MODULE MCProfile ------------------------------
(***************************************************************************)
(* What the commands of a profile change, checked in one run: the messages  *)
(* of a chat, the chats and people, and the points of inbox and review they *)
(* keep on disk, the file that holds them, the listing that takes a name    *)
(* for a chat, and the writes that are not messages.  Each lies in tables,  *)
(* files and fields of its own (the listing has the chats' titles), and no  *)
(* step of one reads or writes those of another: a behaviour moves one.     *)
(***************************************************************************)
EXTENDS MessageCache, ContactStore, InboxReview, OwnerWrites, CacheFile, MCNameLookup, TLC

VARIABLE part

vars == << part, cacheVars, contactVars, inboxVars, ownerVars, cacheFileVars, lookupVars >>

Init ==
  /\ part \in {"messages", "contacts", "inbox", "writes", "file", "names"}
  /\ CacheInit /\ ContactInit /\ InboxInit /\ OwnerInit /\ CacheFileInit /\ LookupInit
  /\ part # "file" => db.version = Unmade   \* one file is enough for the parts that do not open it

Next ==
  /\ UNCHANGED part
  /\ \/ /\ part = "messages" /\ CacheNext
        /\ UNCHANGED << contactVars, inboxVars, ownerVars, cacheFileVars, lookupVars >>
     \/ /\ part = "contacts" /\ ContactNext
        /\ UNCHANGED << cacheVars, inboxVars, ownerVars, cacheFileVars, lookupVars >>
     \/ /\ part = "inbox" /\ InboxNext
        /\ UNCHANGED << cacheVars, contactVars, ownerVars, cacheFileVars, lookupVars >>
     \/ /\ part = "writes" /\ OwnerNext
        /\ UNCHANGED << cacheVars, contactVars, inboxVars, cacheFileVars, lookupVars >>
     \/ /\ part = "file" /\ CacheFileNext
        /\ UNCHANGED << cacheVars, contactVars, inboxVars, ownerVars, lookupVars >>
     \/ /\ part = "names" /\ LookupNext
        /\ UNCHANGED << cacheVars, contactVars, inboxVars, ownerVars, cacheFileVars >>

Spec == Init /\ [][Next]_vars

\* Every variable of the part that moves has its type.
TypeOK ==
  CASE part = "messages" -> CacheTypeOK
    [] part = "contacts" -> ContactTypeOK
    [] part = "inbox" -> InboxTypeOK
    [] part = "writes" -> OwnerTypeOK
    [] part = "file" -> CacheFileTypeOK
    [] part = "names" -> LookupTypeOK

Times == << 1, 2, 2, 3 >>
Symmetry == Permutations(Readers)
=============================================================================

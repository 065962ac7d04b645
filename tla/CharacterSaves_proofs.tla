----------------------- MODULE CharacterSaves_proofs -----------------------
(* Proofs about CharacterSaves: for any connections, channels, receipts and  *)
(* backup slots, SavesInv is inductive, and whatever a load returns contains *)
(* exactly the items whose receipts are claimed.                             *)
EXTENDS CharacterSaves, TLAPS

USE SavesAssumption
USE DEF Task, Recv, Out, LockedAt, LoadedAt

\* Migration 0091 starts with generation 0 and nothing claimed.
LEMMA InitInv == SavesInit => SavesInv
<1> SUFFICES ASSUME SavesInit PROVE SavesInv
  OBVIOUS
<1>1. SavesTypeOK
  BY DEF SavesInit, SavesTypeOK, Blob, NoBlob, Nothing
<1>2. FencedBlobs
  BY DEF SavesInit, FencedBlobs, Claimed
<1>3. FencedClients
  BY DEF SavesInit, FencedClients
<1>4. ClaimsStaged /\ SentFits /\ LockHeld /\ NothingBetween
  BY DEF SavesInit, ClaimsStaged, ClaimsOf, SentFits, SentOf, LockHeld, NothingBetween
<1> QED
  BY <1>1, <1>2, <1>3, <1>4 DEF SavesInv

-----------------------------------------------------------------------------
(* The transaction.                                                          *)

\* What is readable fits the current generation.
LEMMA ReadableFits ==
    ASSUME SavesTypeOK, FencedBlobs
    PROVE  \A b \in Readable : /\ b \in Blob /\ b.epoch = generation
                               /\ b.items = Claimed /\ b.serial = save.serial
<1>1. CASE save.sound
  BY <1>1 DEF Readable, SavesTypeOK, Blob, FencedBlobs
<1>2. CASE ~save.sound
  <2> SUFFICES ASSUME NEW i \in Slot, backups[i].epoch = generation
               PROVE  backups[i].items = Claimed /\ backups[i].items \in SUBSET Starter
    BY <1>2 DEF Readable, SavesTypeOK, Blob
  <2> QED
    BY DEF SavesTypeOK, FencedBlobs, Fits
<1> QED
  BY <1>1, <1>2 DEF SavesTypeOK

\* What a transaction does to the database.
Advance(place) ==
    /\ generation' \in Nat /\ generation <= generation'
    /\ generation' = generation => Claimed' = Claimed
    /\ receipt' \in [Starter -> {"pending", "claimed", "legacy"}]
    /\ save' \in [items : SUBSET Starter, serial : Nat, sound : BOOLEAN]
    /\ save'.items = Claimed' /\ save'.serial = save.serial + 1
    /\ saver' = place
    /\ backups' \in [Slot -> [items : SUBSET Starter, epoch : Nat \cup {NoEpoch}]]
    /\ \A i \in Slot : backups'[i].epoch # NoEpoch =>
          /\ backups'[i].epoch <= generation'
          /\ backups'[i].epoch = generation' => backups'[i].items = Claimed'

\* If the items of a save agree with its receipts whenever it is current, the
\* transaction leaves a blob and backups that agree, and advances the
\* generation whenever it changes what is claimed.
LEMMA StoreFits ==
    ASSUME SavesInv, NEW t \in Task, NEW expected \in Nat \cup {NoEpoch},
           NEW ids \in SUBSET Starter, NEW items \in SUBSET Starter,
           NEW place \in Land \cup {NoLock}, at[t] \in LoadedAt,
           expected = generation => items = Claimed \cup ids,
           CommitSave(t, expected, ids, items, place)
    PROVE  expected = generation /\ Advance(place)
<1> USE DEF SavesInv, SavesTypeOK
<1>1. expected = generation
  BY DEF CommitSave, Fresh
<1>2. Claimed' = Claimed \cup ids /\ receipt' \in [Starter -> {"pending", "claimed", "legacy"}]
  BY DEF CommitSave, Claimed
<1>3. generation' = IF ids \subseteq Claimed THEN generation ELSE generation + 1
  BY DEF CommitSave
<1>4. /\ generation' \in Nat /\ generation <= generation'
      /\ generation' = generation => Claimed' = Claimed
  BY <1>2, <1>3
<1>5. /\ save' = [items |-> items, serial |-> save.serial + 1, sound |-> TRUE]
      /\ saver' = place
  BY DEF CommitSave
<1>6. save'.items = Claimed'
  BY <1>1, <1>2, <1>5
<1>7. \A i \in Slot : /\ backups'[i] \in [items : SUBSET Starter, epoch : Nat \cup {NoEpoch}]
                      /\ backups'[i].epoch # NoEpoch =>
                           /\ backups'[i].epoch <= generation'
                           /\ backups'[i].epoch = generation' => backups'[i].items = Claimed'
  <2> TAKE i \in Slot
  <2>1. CASE backups'[i] = backups[i]
    <3>1. backups[i].epoch # NoEpoch =>
            backups[i].epoch \in Nat /\ backups[i].epoch <= generation
            /\ (backups[i].epoch = generation => backups[i].items = Claimed)
      BY DEF FencedBlobs, Fits
    <3>2. backups[i] \in [items : SUBSET Starter, epoch : Nat \cup {NoEpoch}]
      OBVIOUS
    <3>3. generation \in Nat
      OBVIOUS
    <3> HIDE DEF SavesInv, SavesTypeOK
    <3> QED
      BY <2>1, <3>1, <3>2, <3>3, <1>4
  <2>2. CASE base[t].epoch = expected /\ backups'[i] = [items |-> base[t].items, epoch |-> expected]
    <3>1. base[t].items = Claimed /\ base[t].items \in SUBSET Starter
      BY <1>1, <2>2 DEF FencedBlobs, Fits, Blob
    <3>2. backups'[i].epoch = generation /\ backups'[i].items = Claimed
      BY <1>1, <2>2, <3>1
    <3>3. backups'[i] \in [items : SUBSET Starter, epoch : Nat \cup {NoEpoch}]
      BY <1>1, <2>2, <3>1
    <3> QED
      BY <1>4, <3>2, <3>3
  <2> QED
    BY <2>1, <2>2 DEF CommitSave
<1>8. backups' \in [Slot -> [items : SUBSET Starter, epoch : Nat \cup {NoEpoch}]]
  BY <1>7 DEF CommitSave
<1>a. save' \in [items : SUBSET Starter, serial : Nat, sound : BOOLEAN]
  BY <1>5
<1>10. save'.serial = save.serial + 1
  BY <1>5
<1> QED
  BY <1>1, <1>4, <1>2, <1>5, <1>6, <1>7, <1>8, <1>a, <1>10, Zenon DEF Advance

\* A blob that is stored as it was loaded, without receipts, agrees.
LEMMA DerivedFits ==
    ASSUME SavesInv, NEW t \in Task, NEW place \in Land \cup {NoLock},
           at[t] \in LoadedAt, StoreDerived(t, place)
    PROVE  /\ CommitSave(t, base[t].epoch, {}, base[t].items, place)
           /\ base[t].epoch \in Nat /\ base[t].items \in SUBSET Starter
           /\ base[t].epoch = generation => base[t].items = Claimed \cup {}
  BY DEF StoreDerived, SavesInv, SavesTypeOK, Blob, FencedBlobs, Fits

\* The client's save has the receipts of all it adds, whichever blob it is
\* applied to.
LEMMA ClientFits ==
    ASSUME SavesInv, NEW c \in Client, at[Recv(c)] = "saving",
           NEW items \in {known[c] \cup sent[c].new, base[Recv(c)].items \cup sent[c].new}
    PROVE  /\ items \in SUBSET Starter
           /\ baseline[c] = generation => items = Claimed \cup sent[c].ids
<1> USE DEF SavesInv, SavesTypeOK
<1>1. items \in SUBSET Starter
  BY DEF Blob
<1>2. ASSUME baseline[c] = generation PROVE items = Claimed \cup sent[c].ids
  <2>1. known[c] = Claimed
    BY <1>2 DEF FencedClients, Fits
  <2>2. base[Recv(c)].epoch = generation
    <3>1. baseline[c] <= base[Recv(c)].epoch
      BY DEF SentFits, SentOf
    <3>2. base[Recv(c)].epoch <= generation
      BY DEF FencedBlobs, Fits
    <3>3. base[Recv(c)].epoch \in Nat /\ generation \in Nat
      BY DEF Blob
    <3> HIDE DEF SavesInv, SavesTypeOK, Recv
    <3> QED
      BY <1>2, <3>1, <3>2, <3>3
  <2>3. base[Recv(c)].items = Claimed
    BY <2>2 DEF FencedBlobs, Fits
  <2>4. sent[c].new \subseteq sent[c].ids /\ sent[c].ids \subseteq known[c] \cup sent[c].new
    BY <1>2 DEF SentFits, SentOf
  <2> QED
    BY <2>1, <2>3, <2>4
<1> QED
  BY <1>1, <1>2

\* What was loaded before a transaction still fits after it.
LEMMA FitsKept ==
    ASSUME SavesInv, NEW place, Advance(place)
    PROVE  /\ \A u \in Task : at[u] \in LoadedAt =>
                /\ base[u].epoch <= generation'
                /\ base[u].epoch = generation' => base[u].items = Claimed'
           /\ \A c \in Client : baseline[c] # NoEpoch =>
                /\ baseline[c] <= generation'
                /\ baseline[c] = generation' => known[c] = Claimed'
<1>1. /\ generation \in Nat /\ generation' \in Nat /\ generation <= generation'
      /\ generation' = generation => Claimed' = Claimed
  BY DEF SavesInv, SavesTypeOK, Advance
<1>2. ASSUME NEW u \in Task, at[u] \in LoadedAt
      PROVE  /\ base[u].epoch <= generation'
             /\ base[u].epoch = generation' => base[u].items = Claimed'
  <2>1. base[u].epoch \in Nat
    BY DEF SavesInv, SavesTypeOK, Blob
  <2>2. base[u].epoch <= generation /\ (base[u].epoch = generation => base[u].items = Claimed)
    BY <1>2 DEF SavesInv, FencedBlobs, Fits
  <2> QED
    BY <1>1, <2>1, <2>2
<1>3. ASSUME NEW c \in Client, baseline[c] # NoEpoch
      PROVE  /\ baseline[c] <= generation'
             /\ baseline[c] = generation' => known[c] = Claimed'
  <2>1. baseline[c] \in Nat
    BY <1>3 DEF SavesInv, SavesTypeOK
  <2>2. baseline[c] <= generation /\ (baseline[c] = generation => known[c] = Claimed)
    BY <1>3 DEF SavesInv, FencedClients, Fits
  <2> QED
    BY <1>1, <2>1, <2>2
<1> QED
  BY <1>2, <1>3

\* A client that is current after a transaction was current before it.
LEMMA StaysBehind ==
    ASSUME SavesInv, NEW place, Advance(place), NEW c \in Client, baseline[c] = generation'
    PROVE  baseline[c] = generation
<1>1. generation \in Nat /\ generation' \in Nat /\ generation <= generation'
  BY DEF SavesInv, SavesTypeOK, Advance
<1>2. baseline[c] # NoEpoch
  BY <1>1
<1>3. baseline[c] <= generation /\ baseline[c] \in Nat
  BY <1>2 DEF SavesInv, SavesTypeOK, FencedClients, Fits
<1> QED
  BY <1>1, <1>3

-----------------------------------------------------------------------------
(* The lock.                                                                 *)

\* Leaving a step gives up the lock that was held, and nobody else's.
LEMMA LeaveKeepsLocks ==
    ASSUME SavesInv, NEW c \in Client, NEW k \in {"recv", "out"}, Leave(c, <<c, k>>),
           UNCHANGED land
    PROVE  LockHeld' /\ lock' \in [Land -> Task \cup {NoTask}]
<1>1. /\ lock \in [Land -> Task \cup {NoTask}] /\ land \in [Client -> Land]
      /\ at \in [Task -> LoadedAt \cup {"idle", "save", "load", "leave"}]
  BY DEF SavesInv, SavesTypeOK
<1>2. LockHeld
  BY DEF SavesInv
<1>3. lock' \in [Land -> Task \cup {NoTask}]
  BY <1>1 DEF Leave, LeaveLock
<1>4. ASSUME NEW d \in Client, NEW j \in {"recv", "out"}, at'[<<d, j>>] \in LockedAt
      PROVE  lock'[land[d]] = <<d, j>>
  <2>1. at' = [at EXCEPT ![<<c, k>>] = "idle"]
    BY DEF Leave
  <2>2. <<d, j>> # <<c, k>> /\ at[<<d, j>>] \in LockedAt
    BY <1>1, <1>4, <2>1
  <2>3. lock[land[d]] = <<d, j>>
    BY <2>2, <1>2, Zenon DEF LockHeld
  <2>4. CASE at[<<c, k>>] \in LockedAt
    <3>1. lock[land[c]] = <<c, k>>
      BY <2>4, <1>2, Zenon DEF LockHeld
    <3>2. land[d] # land[c]
      BY <2>2, <2>3, <3>1
    <3>3. lock' = [lock EXCEPT ![land[c]] = NoTask]
      BY <2>4 DEF Leave, LeaveLock
    <3> QED
      BY <1>1, <2>3, <3>2, <3>3
  <2>5. CASE at[<<c, k>>] \notin LockedAt
    BY <2>3, <2>5 DEF Leave
  <2> QED
    BY <2>4, <2>5
<1> QED
  BY <1>3, <1>4 DEF LockHeld

\* Entering a lock that is free.
LEMMA EnterKeepsLocks ==
    ASSUME SavesInv, NEW c \in Client, NEW k \in {"recv", "out"}, NEW next \in LockedAt,
           LockAndLoad(c, <<c, k>>, next), UNCHANGED land
    PROVE  LockHeld' /\ lock' \in [Land -> Task \cup {NoTask}]
<1>1. /\ lock \in [Land -> Task \cup {NoTask}] /\ land \in [Client -> Land]
      /\ at \in [Task -> LoadedAt \cup {"idle", "save", "load", "leave"}]
  BY DEF SavesInv, SavesTypeOK
<1>2. LockHeld
  BY DEF SavesInv
<1>3. /\ lock[land[c]] = NoTask /\ lock' = [lock EXCEPT ![land[c]] = <<c, k>>]
      /\ at' = [at EXCEPT ![<<c, k>>] = next]
  BY DEF LockAndLoad, Unlocked
<1>4. ASSUME NEW d \in Client, NEW j \in {"recv", "out"}, at'[<<d, j>>] \in LockedAt
      PROVE  lock'[land[d]] = <<d, j>>
  <2>1. CASE <<d, j>> = <<c, k>>
    BY <1>1, <1>3, <2>1
  <2>2. CASE <<d, j>> # <<c, k>>
    <3>1. lock[land[d]] = <<d, j>>
      BY <1>1, <1>2, <1>3, <1>4, <2>2, Zenon DEF LockHeld
    <3>2. land[d] # land[c]
      BY <1>3, <3>1
    <3> QED
      BY <1>1, <1>3, <3>1, <3>2
  <2> QED
    BY <2>1, <2>2
<1>5. lock' \in [Land -> Task \cup {NoTask}]
  BY <1>1, <1>3
<1> QED
  BY <1>4, <1>5, Zenon DEF LockHeld

\* Two tasks on one channel are never both between their load and their store.
LEMMA OneInside ==
    ASSUME SavesInv, NEW c \in Client, NEW k \in {"recv", "out"},
           NEW d \in Client, NEW j \in {"recv", "out"},
           at[<<c, k>>] \in LockedAt, at[<<d, j>>] \in LockedAt, land[c] = land[d]
    PROVE  <<c, k>> = <<d, j>>
  BY Zenon DEF SavesInv, LockHeld

-----------------------------------------------------------------------------
(* Steps that leave the database alone.                                      *)

\* What such a step must not do to the tasks: a blob is one that was loaded
\* before, or one that can be read now.
Loads ==
    \A c \in Client, k \in {"recv", "out"} : at'[<<c, k>>] \in LoadedAt =>
        \/ /\ at[<<c, k>>] \in LoadedAt /\ base'[<<c, k>>] = base[<<c, k>>]
           /\ at'[<<c, k>>] \in LockedAt => at[<<c, k>>] \in LockedAt /\ land'[c] = land[c]
        \/ base'[<<c, k>>] \in Readable

LEMMA DatabaseKept ==
    ASSUME SavesInv, UNCHANGED database, Loads
    PROVE  FencedBlobs' /\ NothingBetween'
<1>1. /\ SavesTypeOK /\ FencedBlobs /\ NothingBetween
      /\ save' = save /\ saver' = saver /\ backups' = backups /\ generation' = generation
      /\ Claimed' = Claimed
  BY DEF SavesInv, database, Claimed
<1>2. ASSUME NEW c \in Client, NEW k \in {"recv", "out"}, at'[<<c, k>>] \in LoadedAt
      PROVE  Fits(base[<<c, k>>].items, base[<<c, k>>].epoch)'
  <2>1. CASE base'[<<c, k>>] \in Readable
    <3>1. /\ base'[<<c, k>>].epoch = generation /\ base'[<<c, k>>].items = Claimed
          /\ generation \in Nat
      BY <1>1, <2>1, ReadableFits DEF SavesTypeOK
    <3> QED
      BY <1>1, <3>1 DEF Fits
  <2>2. CASE at[<<c, k>>] \in LoadedAt /\ base'[<<c, k>>] = base[<<c, k>>]
    <3>1. Fits(base[<<c, k>>].items, base[<<c, k>>].epoch)
      BY <1>1, <2>2 DEF FencedBlobs
    <3> QED
      BY <1>1, <2>2, <3>1 DEF Fits
  <2> QED
    BY <1>2, <2>1, <2>2, Zenon DEF Loads
<1>3. FencedBlobs'
  <2>1. save'.sound => save'.items = Claimed'
    BY <1>1 DEF FencedBlobs
  <2>2. \A i \in Slot : backups'[i].epoch # NoEpoch => Fits(backups[i].items, backups[i].epoch)'
    BY <1>1 DEF FencedBlobs, Fits
  <2>3. ASSUME NEW t \in Task, at'[t] \in LoadedAt
        PROVE  Fits(base[t].items, base[t].epoch)'
    <3>1. PICK c \in Client, k \in {"recv", "out"} : t = <<c, k>>
      OBVIOUS
    <3> QED
      BY <1>2, <2>3, <3>1, Zenon
  <2> QED
    BY <2>1, <2>2, <2>3 DEF FencedBlobs
<1>4. ASSUME NEW c \in Client, NEW k \in {"recv", "out"},
             at'[<<c, k>>] \in LockedAt, base'[<<c, k>>].serial # save.serial
      PROVE  saver # land'[c]
  <2>1. base'[<<c, k>>] \notin Readable
    BY <1>1, <1>4, ReadableFits
  <2>2. /\ at[<<c, k>>] \in LockedAt /\ base'[<<c, k>>] = base[<<c, k>>]
        /\ land'[c] = land[c]
    BY <1>4, <2>1, Zenon DEF Loads
  <2> QED
    BY <1>1, <1>4, <2>2, Zenon DEF NothingBetween
<1>5. NothingBetween'
  BY <1>1, <1>4, Zenon DEF NothingBetween
<1> QED
  BY <1>3, <1>5
-----------------------------------------------------------------------------
(* What other clients believe.                                               *)

\* The claims of a client a step has not touched; if the step stores a blob, a
\* client that is current after it was current before.
LEMMA ClaimsKept ==
    ASSUME SavesInv, NEW d \in Client,
           baseline'[d] = generation' => baseline[d] = generation,
           staged'[d] = staged[d], rejected'[d] = rejected[d], known'[d] = known[d],
           added'[d] = added[d], wanted'[d] = wanted[d],
           at'[Recv(d)] \in {"load", "loading"} =>
              at[Recv(d)] \in {"load", "loading"} \/ (staged[d] = {} /\ wanted[d] = NoStarter)
    PROVE  ClaimsOf(d)'
<1>1. ClaimsOf(d)
  BY DEF SavesInv, ClaimsStaged
<1> QED
  BY <1>1 DEF ClaimsOf

\* The save under way of a client a step has not touched.
LEMMA SentKept ==
    ASSUME SavesInv, NEW d \in Client,
           baseline'[d] = generation' => baseline[d] = generation,
           baseline'[d] = baseline[d], known'[d] = known[d],
           added[d] \subseteq added'[d], wanted'[d] \in {wanted[d], NoStarter} \cup (Starter \ added[d]),
           sent'[d] = sent[d], at'[Recv(d)] = at[Recv(d)],
           at[Recv(d)] = "saving" => base'[Recv(d)].epoch = base[Recv(d)].epoch
    PROVE  SentOf(d)'
<1>1. SentOf(d) /\ sent[d].new \subseteq Starter
  BY DEF SavesInv, SavesTypeOK, SentFits
<1> QED
  BY <1>1 DEF SentOf

-----------------------------------------------------------------------------
(* Steps that leave the database alone, one by one.                          *)

\* A new session has loaded nothing, so it has nothing to save.
LEMMA ConnectKeeps ==
    ASSUME SavesInv, NEW c \in Client, NEW l \in Land, Connect(c, l)
    PROVE  SavesInv'
<1>0. SavesTypeOK /\ FencedBlobs /\ FencedClients /\ ClaimsStaged /\ SentFits /\ LockHeld
  BY DEF SavesInv
<1>1. UNCHANGED database
  BY DEF Connect, database, session, client, tasks
<1>2. LockHeld'
  BY <1>0, Zenon DEF Connect, database, session, client, tasks, LockHeld, SavesTypeOK
<1>3. SavesTypeOK'
  BY <1>0, ReadableFits
     DEF Connect, database, session, client, tasks, SavesTypeOK, Blob, NoBlob, Nothing
<1>4. Loads
  BY <1>0, Zenon DEF Connect, database, session, client, tasks, Loads, SavesTypeOK
<1>5. FencedClients'
  BY <1>0 DEF Connect, database, session, client, tasks, FencedClients, SavesTypeOK, Fits,
     Claimed
<1>6. ASSUME NEW d \in Client PROVE ClaimsOf(d)'
  <2>1. CASE d # c
    BY <1>0, <2>1, ClaimsKept, Zenon
       DEF Connect, database, session, client, tasks, SavesTypeOK
  <2>2. CASE d = c
    BY <1>0, <2>2 DEF Connect, database, session, client, tasks, SavesTypeOK, ClaimsStaged,
       ClaimsOf
  <2> QED
    BY <2>1, <2>2
<1>7. ASSUME NEW d \in Client PROVE SentOf(d)'
  <2>1. CASE d # c
    BY <1>0, <2>1, SentKept DEF Connect, database, session, client, tasks, SavesTypeOK
  <2>2. CASE d = c
    BY <1>0, <2>2 DEF Connect, database, session, client, tasks, SavesTypeOK, SentFits,
       SentOf
  <2> QED
    BY <2>1, <2>2
<1> QED
  BY <1>1, <1>2, <1>3, <1>4, <1>5, <1>6, <1>7, DatabaseKept
     DEF SavesInv, ClaimsStaged, SentFits

\* What the client picks up is the claim it sends next.
LEMMA PickUpKeeps ==
    ASSUME SavesInv, NEW c \in Client, NEW r \in Starter, PickUp(c, r)
    PROVE  SavesInv'
<1>0. SavesTypeOK /\ FencedBlobs /\ FencedClients /\ ClaimsStaged /\ SentFits /\ LockHeld
  BY DEF SavesInv
<1>1. UNCHANGED database
  BY DEF PickUp, database, session, client, tasks
<1>2. LockHeld'
  BY <1>0, Zenon DEF PickUp, database, session, client, tasks, LockHeld, SavesTypeOK
<1>3. SavesTypeOK'
  BY <1>0, ReadableFits
     DEF PickUp, database, session, client, tasks, SavesTypeOK, Blob, NoBlob, Nothing
<1>4. Loads
  BY <1>0 DEF PickUp, database, session, client, tasks, Loads, SavesTypeOK
<1>5. FencedClients'
  BY <1>0 DEF PickUp, database, session, client, tasks, FencedClients, SavesTypeOK, Fits,
     Claimed
<1>6. ASSUME NEW d \in Client PROVE ClaimsOf(d)'
  <2>1. CASE d # c
    BY <1>0, <2>1, ClaimsKept, Zenon
       DEF PickUp, database, session, client, tasks, SavesTypeOK
  <2>2. CASE d = c
    BY <1>0, <2>2 DEF PickUp, database, session, client, tasks, SavesTypeOK, ClaimsStaged,
       ClaimsOf
  <2> QED
    BY <2>1, <2>2
<1>7. ASSUME NEW d \in Client PROVE SentOf(d)'
  <2>1. CASE d = c
    <3>1. /\ r \in Starter \ added[c] /\ wanted'[c] = r /\ added'[c] = added[c] \cup {r}
      BY <1>0 DEF PickUp, SavesTypeOK
    <3> QED
      BY <2>1, <3>1, SentKept DEF PickUp, database, session, tasks
  <2>2. CASE d # c
    BY <1>0, <2>2, SentKept DEF PickUp, database, session, tasks, SavesTypeOK
  <2> QED
    BY <2>1, <2>2
<1> QED
  BY <1>1, <1>2, <1>3, <1>4, <1>5, <1>6, <1>7, DatabaseKept
     DEF SavesInv, ClaimsStaged, SentFits

\* A claim that is answered again belongs to an outdated inventory.
LEMMA AcquireKeeps ==
    ASSUME SavesInv, NEW c \in Client, Acquire(c)
    PROVE  SavesInv'
<1>0. SavesTypeOK /\ FencedBlobs /\ FencedClients /\ ClaimsStaged /\ SentFits /\ LockHeld
  BY DEF SavesInv
<1>1. UNCHANGED database
  BY DEF Acquire, Ready, database, session, client, tasks
<1>2. LockHeld'
  BY <1>0, Zenon DEF Acquire, Ready, database, session, client, tasks, LockHeld, SavesTypeOK
<1>3. SavesTypeOK'
  <2>1. wanted[c] \in Starter /\ staged \in [Client -> SUBSET Starter] /\ rejected \in [Client -> BOOLEAN]
    BY <1>0 DEF Acquire, SavesTypeOK
  <2>2. \/ rejected' = rejected
        \/ rejected' = [rejected EXCEPT ![c] = TRUE]
    BY DEF Acquire
  <2>3. rejected' \in [Client -> BOOLEAN]
    BY <2>1, <2>2, Zenon
  <2>4. \/ staged' = staged
        \/ staged' = [staged EXCEPT ![c] = @ \cup {wanted[c]}]
    BY DEF Acquire
  <2>5. staged' \in [Client -> SUBSET Starter]
    BY <2>1, <2>4
  <2> QED
    BY <1>0, <2>3, <2>5 DEF Acquire, database, session, client, tasks, SavesTypeOK
<1>4. Loads
  BY <1>0 DEF Acquire, Ready, database, session, client, tasks, Loads, SavesTypeOK
<1>5. FencedClients'
  BY <1>0 DEF Acquire, Ready, database, session, client, tasks, FencedClients, SavesTypeOK,
     Fits, Claimed
<1>6. ASSUME NEW d \in Client PROVE ClaimsOf(d)'
  <2>1. CASE d # c
    BY <1>0, <2>1, ClaimsKept, Zenon
       DEF Acquire, Ready, database, session, client, tasks, SavesTypeOK
  <2>2. CASE d = c
    <3>1. ClaimsOf(c) /\ wanted[c] \in Starter
      BY <1>0 DEF Acquire, SavesTypeOK, ClaimsStaged
    <3>2. /\ wanted'[c] = NoStarter /\ at'[Recv(c)] = "idle" /\ added' = added /\ known' = known
          /\ baseline' = baseline /\ generation' = generation
      BY <1>0 DEF Acquire, Ready, database, tasks, SavesTypeOK
    <3>3. CASE staged' = [staged EXCEPT ![c] = @ \cup {wanted[c]}] /\ rejected' = rejected
      BY <1>0, <2>2, <3>1, <3>2, <3>3 DEF ClaimsOf, SavesTypeOK
    <3>4. CASE receipt[wanted[c]] = "claimed" /\ staged' = staged
      <4>1. baseline[c] # generation
        BY <1>0, <3>1, <3>4 DEF ClaimsOf, FencedClients, Fits, Claimed, SavesTypeOK
      <4> QED
        BY <2>2, <3>1, <3>2, <4>1 DEF ClaimsOf
    <3>5. CASE rejected' = [rejected EXCEPT ![c] = TRUE] /\ staged' = staged
      <4>1. rejected'[c]
        BY <1>0, <3>5, Zenon DEF SavesTypeOK
      <4> QED
        BY <2>2, <3>1, <3>2, <3>5, <4>1 DEF ClaimsOf
    <3> QED
      BY <3>3, <3>4, <3>5 DEF Acquire
  <2> QED
    BY <2>1, <2>2
<1>7. ASSUME NEW d \in Client PROVE SentOf(d)'
  BY <1>0, SentKept DEF Acquire, Ready, database, session, client, tasks, SavesTypeOK
<1> QED
  BY <1>1, <1>2, <1>3, <1>4, <1>5, <1>6, <1>7, DatabaseKept
     DEF SavesInv, ClaimsStaged, SentFits

\* The packet holds what was picked up, and all of it is staged.
LEMMA SavedataKeeps ==
    ASSUME SavesInv, NEW c \in Client, Savedata(c)
    PROVE  SavesInv'
<1>0. SavesTypeOK /\ FencedBlobs /\ FencedClients /\ ClaimsStaged /\ SentFits /\ LockHeld
  BY DEF SavesInv
<1>1. UNCHANGED database
  BY DEF Savedata, Ready, database, session, client, tasks
<1>2. LockHeld'
  BY <1>0, Zenon DEF Savedata, Ready, database, session, client, tasks, LockHeld,
     SavesTypeOK
<1>3. SavesTypeOK'
  BY <1>0, ReadableFits
     DEF Savedata, Ready, database, session, client, tasks, SavesTypeOK, Blob, NoBlob,
     Nothing
<1>4. Loads
  BY <1>0 DEF Savedata, Ready, database, session, client, tasks, Loads, SavesTypeOK
<1>5. FencedClients'
  BY <1>0 DEF Savedata, Ready, database, session, client, tasks, FencedClients,
     SavesTypeOK, Fits, Claimed
<1>6. ASSUME NEW d \in Client PROVE ClaimsOf(d)'
  BY <1>0, ClaimsKept, Zenon
     DEF Savedata, Ready, database, session, client, tasks, SavesTypeOK
<1>7. ASSUME NEW d \in Client PROVE SentOf(d)'
  <2>1. CASE d # c
    BY <1>0, <2>1, SentKept, Zenon
       DEF Savedata, Ready, database, session, client, tasks, SavesTypeOK
  <2>2. CASE d = c
    <3>1. ClaimsOf(c) /\ staged[c] \subseteq Starter /\ added[c] \subseteq Starter
      BY <1>0 DEF SavesTypeOK, ClaimsStaged
    <3>2. /\ sent'[c] = [ids |-> staged[c], new |-> added[c]] /\ at'[Recv(c)] = "save"
          /\ wanted'[c] = NoStarter /\ wanted[c] = NoStarter /\ ~rejected[c] /\ added' = added
          /\ baseline[c] # NoEpoch /\ baseline' = baseline /\ generation' = generation
          /\ known' = known
      BY <1>0 DEF Savedata, database, session, client, SavesTypeOK
    <3> QED
      BY <2>2, <3>1, <3>2 DEF ClaimsOf, SentOf
  <2> QED
    BY <2>1, <2>2
<1> QED
  BY <1>1, <1>2, <1>3, <1>4, <1>5, <1>6, <1>7, DatabaseKept
     DEF SavesInv, ClaimsStaged, SentFits

\* The blob is loaded at the current generation.
LEMMA SaveLoadKeeps ==
    ASSUME SavesInv, NEW c \in Client, SaveLoad(c)
    PROVE  SavesInv'
<1>0. SavesTypeOK /\ FencedBlobs /\ FencedClients /\ ClaimsStaged /\ SentFits /\ LockHeld
  BY DEF SavesInv
<1>1. UNCHANGED database
  BY DEF SaveLoad, LockAndLoad, database, session, client, tasks
<1>2. LockHeld' /\ lock' \in [Land -> Task \cup {NoTask}]
  BY EnterKeepsLocks, Zenon DEF SaveLoad, database, session, client, tasks
<1>3. SavesTypeOK'
  BY <1>0, <1>2, ReadableFits
     DEF SaveLoad, LockAndLoad, database, session, client, tasks, SavesTypeOK, Blob,
     NoBlob, Nothing
<1>4. Loads
  BY <1>0 DEF SaveLoad, LockAndLoad, database, session, client, tasks, Loads, SavesTypeOK
<1>5. FencedClients'
  BY <1>0 DEF SaveLoad, LockAndLoad, database, session, client, tasks, FencedClients,
     SavesTypeOK, Fits, Claimed
<1>6. ASSUME NEW d \in Client PROVE ClaimsOf(d)'
  BY <1>0, ClaimsKept, Zenon
     DEF SaveLoad, LockAndLoad, database, session, client, tasks, SavesTypeOK
<1>7. ASSUME NEW d \in Client PROVE SentOf(d)'
  <2>1. CASE d # c
    BY <1>0, <2>1, SentKept, Zenon
       DEF SaveLoad, LockAndLoad, database, session, client, tasks, SavesTypeOK
  <2>2. CASE d = c
    <3>1. SentOf(c) /\ at[Recv(c)] = "save"
      BY <1>0 DEF SaveLoad, SentFits
    <3>2. baseline[c] \in Nat /\ baseline[c] <= generation
      BY <1>0, <3>1 DEF SentOf, SavesTypeOK, FencedClients, Fits
    <3>3. base'[Recv(c)].epoch = generation
      BY <1>0, ReadableFits DEF SaveLoad, LockAndLoad, SavesTypeOK
    <3>4. /\ baseline' = baseline /\ generation' = generation /\ known' = known
          /\ added' = added /\ wanted' = wanted /\ sent' = sent
      BY DEF SaveLoad, database, session, client
    <3> QED
      BY <2>2, <3>1, <3>2, <3>3, <3>4 DEF SentOf
  <2> QED
    BY <2>1, <2>2
<1> QED
  BY <1>1, <1>2, <1>3, <1>4, <1>5, <1>6, <1>7, DatabaseKept
     DEF SavesInv, ClaimsStaged, SentFits

\* A load starts with nothing staged.
LEMMA LoaddataKeeps ==
    ASSUME SavesInv, NEW c \in Client, Loaddata(c)
    PROVE  SavesInv'
<1>0. SavesTypeOK /\ FencedBlobs /\ FencedClients /\ ClaimsStaged /\ SentFits /\ LockHeld
  BY DEF SavesInv
<1>1. UNCHANGED database
  BY DEF Loaddata, Ready, HasPending, database, session, client, tasks
<1>2. LockHeld'
  BY <1>0, Zenon DEF Loaddata, Ready, HasPending, database, session, client, tasks,
     LockHeld, SavesTypeOK
<1>3. SavesTypeOK'
  BY <1>0, ReadableFits
     DEF Loaddata, Ready, HasPending, database, session, client, tasks, SavesTypeOK, Blob,
     NoBlob, Nothing
<1>4. Loads
  BY <1>0 DEF Loaddata, Ready, HasPending, database, session, client, tasks, Loads,
     SavesTypeOK
<1>5. FencedClients'
  BY <1>0 DEF Loaddata, Ready, HasPending, database, session, client, tasks, FencedClients,
     SavesTypeOK, Fits, Claimed
<1>6. ASSUME NEW d \in Client PROVE ClaimsOf(d)'
  BY <1>0, ClaimsKept, Zenon
     DEF Loaddata, Ready, HasPending, database, session, client, tasks, SavesTypeOK
<1>7. ASSUME NEW d \in Client PROVE SentOf(d)'
  <2>1. CASE d # c
    BY <1>0, <2>1, SentKept, Zenon
       DEF Loaddata, Ready, HasPending, database, session, client, tasks, SavesTypeOK
  <2>2. CASE d = c
    BY <1>0, <2>2 DEF Loaddata, Ready, HasPending, database, session, client, tasks,
       SavesTypeOK, SentFits, SentOf
  <2> QED
    BY <2>1, <2>2
<1> QED
  BY <1>1, <1>2, <1>3, <1>4, <1>5, <1>6, <1>7, DatabaseKept
     DEF SavesInv, ClaimsStaged, SentFits

\* The load takes the lock.
LEMMA LoadReadKeeps ==
    ASSUME SavesInv, NEW c \in Client, LoadRead(c)
    PROVE  SavesInv'
<1>0. SavesTypeOK /\ FencedBlobs /\ FencedClients /\ ClaimsStaged /\ SentFits /\ LockHeld
  BY DEF SavesInv
<1>1. UNCHANGED database
  BY DEF LoadRead, LockAndLoad, database, session, client, tasks
<1>2. LockHeld' /\ lock' \in [Land -> Task \cup {NoTask}]
  BY EnterKeepsLocks, Zenon DEF LoadRead, database, session, client, tasks
<1>3. SavesTypeOK'
  BY <1>0, <1>2, ReadableFits
     DEF LoadRead, LockAndLoad, database, session, client, tasks, SavesTypeOK, Blob,
     NoBlob, Nothing
<1>4. Loads
  BY <1>0 DEF LoadRead, LockAndLoad, database, session, client, tasks, Loads, SavesTypeOK
<1>5. FencedClients'
  BY <1>0 DEF LoadRead, LockAndLoad, database, session, client, tasks, FencedClients,
     SavesTypeOK, Fits, Claimed
<1>6. ASSUME NEW d \in Client PROVE ClaimsOf(d)'
  BY <1>0, ClaimsKept, Zenon
     DEF LoadRead, LockAndLoad, database, session, client, tasks, SavesTypeOK
<1>7. ASSUME NEW d \in Client PROVE SentOf(d)'
  <2>1. CASE d # c
    BY <1>0, <2>1, SentKept, Zenon
       DEF LoadRead, LockAndLoad, database, session, client, tasks, SavesTypeOK
  <2>2. CASE d = c
    BY <1>0, <2>2 DEF LoadRead, LockAndLoad, database, session, client, tasks, SavesTypeOK,
       SentFits, SentOf
  <2> QED
    BY <2>1, <2>2
<1> QED
  BY <1>1, <1>2, <1>3, <1>4, <1>5, <1>6, <1>7, DatabaseKept
     DEF SavesInv, ClaimsStaged, SentFits

\* The client is brought to the generation its blob was read at.
LEMMA LoadAnswerKeeps ==
    ASSUME SavesInv, NEW c \in Client, LoadAnswer(c)
    PROVE  SavesInv'
<1>0. SavesTypeOK /\ FencedBlobs /\ FencedClients /\ ClaimsStaged /\ SentFits /\ LockHeld
  BY DEF SavesInv
<1>1. UNCHANGED database
  BY DEF LoadAnswer, Leave, database, session, client, tasks
<1>2. LockHeld' /\ lock' \in [Land -> Task \cup {NoTask}]
  BY LeaveKeepsLocks, Zenon DEF LoadAnswer, database, session, client, tasks
<1>3. SavesTypeOK'
  BY <1>0, <1>2, ReadableFits
     DEF LoadAnswer, Leave, database, session, client, tasks, SavesTypeOK, Blob, NoBlob,
     Nothing
<1>4. Loads
  BY <1>0 DEF LoadAnswer, Leave, database, session, client, tasks, Loads, SavesTypeOK
<1>5. FencedClients'
  <2>1. at[Recv(c)] = "loading" /\ Fits(base[Recv(c)].items, base[Recv(c)].epoch)
    BY <1>0 DEF LoadAnswer, FencedBlobs
  <2> SUFFICES ASSUME NEW d \in Client, baseline'[d] # NoEpoch
               PROVE  Fits(known[d], baseline[d])'
    BY DEF FencedClients
  <2>2. CASE d = c
    BY <1>0, <2>1, <2>2, Zenon DEF LoadAnswer, database, SavesTypeOK, Fits, Claimed
  <2>3. CASE d # c
    BY <1>0, <2>3 DEF LoadAnswer, database, SavesTypeOK, FencedClients, Fits, Claimed
  <2> QED
    BY <2>2, <2>3
<1>6. ASSUME NEW d \in Client PROVE ClaimsOf(d)'
  <2>1. CASE d # c
    BY <1>0, <2>1, ClaimsKept, Zenon
       DEF LoadAnswer, Leave, database, session, client, tasks, SavesTypeOK
  <2>2. CASE d = c
    BY <1>0, <2>2 DEF LoadAnswer, Leave, database, session, client, tasks, SavesTypeOK,
       ClaimsStaged, ClaimsOf
  <2> QED
    BY <2>1, <2>2
<1>7. ASSUME NEW d \in Client PROVE SentOf(d)'
  <2>1. CASE d # c
    BY <1>0, <2>1, SentKept, Zenon
       DEF LoadAnswer, Leave, database, session, client, tasks, SavesTypeOK
  <2>2. CASE d = c
    BY <1>0, <2>2 DEF LoadAnswer, Leave, database, session, client, tasks, SavesTypeOK,
       SentFits, SentOf
  <2> QED
    BY <2>1, <2>2
<1> QED
  BY <1>1, <1>2, <1>3, <1>4, <1>5, <1>6, <1>7, DatabaseKept
     DEF SavesInv, ClaimsStaged, SentFits

\* A handler that changes points loads without the lock.
LEMMA SpendLoadKeeps ==
    ASSUME SavesInv, NEW c \in Client, SpendLoad(c)
    PROVE  SavesInv'
<1>0. SavesTypeOK /\ FencedBlobs /\ FencedClients /\ ClaimsStaged /\ SentFits /\ LockHeld
  BY DEF SavesInv
<1>1. UNCHANGED database
  BY DEF SpendLoad, Ready, database, session, client, tasks
<1>2. LockHeld'
  BY <1>0, Zenon DEF SpendLoad, Ready, database, session, client, tasks, LockHeld,
     SavesTypeOK
<1>3. SavesTypeOK'
  BY <1>0, ReadableFits
     DEF SpendLoad, Ready, database, session, client, tasks, SavesTypeOK, Blob, NoBlob,
     Nothing
<1>4. Loads
  BY <1>0 DEF SpendLoad, Ready, database, session, client, tasks, Loads, SavesTypeOK
<1>5. FencedClients'
  BY <1>0 DEF SpendLoad, Ready, database, session, client, tasks, FencedClients,
     SavesTypeOK, Fits, Claimed
<1>6. ASSUME NEW d \in Client PROVE ClaimsOf(d)'
  BY <1>0, ClaimsKept, Zenon
     DEF SpendLoad, Ready, database, session, client, tasks, SavesTypeOK
<1>7. ASSUME NEW d \in Client PROVE SentOf(d)'
  <2>1. CASE d # c
    BY <1>0, <2>1, SentKept, Zenon
       DEF SpendLoad, Ready, database, session, client, tasks, SavesTypeOK
  <2>2. CASE d = c
    BY <1>0, <2>2 DEF SpendLoad, Ready, database, session, client, tasks, SavesTypeOK,
       SentFits, SentOf
  <2> QED
    BY <2>1, <2>2
<1> QED
  BY <1>1, <1>2, <1>3, <1>4, <1>5, <1>6, <1>7, DatabaseKept
     DEF SavesInv, ClaimsStaged, SentFits

\* A handler that gives up frees the lock it held.
LEMMA RefuseKeeps ==
    ASSUME SavesInv, NEW c \in Client, Refuse(c)
    PROVE  SavesInv'
<1>0. SavesTypeOK /\ FencedBlobs /\ FencedClients /\ ClaimsStaged /\ SentFits /\ LockHeld
  BY DEF SavesInv
<1>1. UNCHANGED database
  BY DEF Refuse, Leave, database, session, client, tasks
<1>2. LockHeld' /\ lock' \in [Land -> Task \cup {NoTask}]
  BY LeaveKeepsLocks, Zenon DEF Refuse, database, session, client, tasks
<1>3. SavesTypeOK'
  BY <1>0, <1>2, ReadableFits
     DEF Refuse, Leave, database, session, client, tasks, SavesTypeOK, Blob, NoBlob, Nothing
<1>4. Loads
  BY <1>0 DEF Refuse, Leave, database, session, client, tasks, Loads, SavesTypeOK
<1>5. FencedClients'
  BY <1>0 DEF Refuse, Leave, database, session, client, tasks, FencedClients, SavesTypeOK,
     Fits, Claimed
<1>6. ASSUME NEW d \in Client PROVE ClaimsOf(d)'
  BY <1>0, ClaimsKept, Zenon
     DEF Refuse, Leave, database, session, client, tasks, SavesTypeOK
<1>7. ASSUME NEW d \in Client PROVE SentOf(d)'
  <2>1. CASE d # c
    BY <1>0, <2>1, SentKept, Zenon
       DEF Refuse, Leave, database, session, client, tasks, SavesTypeOK
  <2>2. CASE d = c
    BY <1>0, <2>2 DEF Refuse, Leave, database, session, client, tasks, SavesTypeOK,
       SentFits, SentOf
  <2> QED
    BY <2>1, <2>2
<1> QED
  BY <1>1, <1>2, <1>3, <1>4, <1>5, <1>6, <1>7, DatabaseKept
     DEF SavesInv, ClaimsStaged, SentFits

\* The session is closed; its handler may go on.
LEMMA LogOutKeeps ==
    ASSUME SavesInv, NEW c \in Client, LogOut(c)
    PROVE  SavesInv'
<1>0. SavesTypeOK /\ FencedBlobs /\ FencedClients /\ ClaimsStaged /\ SentFits /\ LockHeld
  BY DEF SavesInv
<1>1. UNCHANGED database
  BY DEF LogOut, database, session, client, tasks
<1>2. LockHeld'
  BY <1>0, Zenon DEF LogOut, database, session, client, tasks, LockHeld, SavesTypeOK
<1>3. SavesTypeOK'
  BY <1>0, ReadableFits
     DEF LogOut, database, session, client, tasks, SavesTypeOK, Blob, NoBlob, Nothing
<1>4. Loads
  BY <1>0 DEF LogOut, database, session, client, tasks, Loads, SavesTypeOK
<1>5. FencedClients'
  BY <1>0 DEF LogOut, database, session, client, tasks, FencedClients, SavesTypeOK, Fits,
     Claimed
<1>6. ASSUME NEW d \in Client PROVE ClaimsOf(d)'
  BY <1>0, ClaimsKept, Zenon DEF LogOut, database, session, client, tasks, SavesTypeOK
<1>7. ASSUME NEW d \in Client PROVE SentOf(d)'
  BY <1>0, SentKept DEF LogOut, database, session, client, tasks, SavesTypeOK
<1> QED
  BY <1>1, <1>2, <1>3, <1>4, <1>5, <1>6, <1>7, DatabaseKept
     DEF SavesInv, ClaimsStaged, SentFits

\* The logout takes the same lock.
LEMMA LogoutLoadKeeps ==
    ASSUME SavesInv, NEW c \in Client, LogoutLoad(c)
    PROVE  SavesInv'
<1>0. SavesTypeOK /\ FencedBlobs /\ FencedClients /\ ClaimsStaged /\ SentFits /\ LockHeld
  BY DEF SavesInv
<1>1. UNCHANGED database
  BY DEF LogoutLoad, LockAndLoad, database, session, client, tasks
<1>2. LockHeld' /\ lock' \in [Land -> Task \cup {NoTask}]
  BY EnterKeepsLocks, Zenon DEF LogoutLoad, database, session, client, tasks
<1>3. SavesTypeOK'
  BY <1>0, <1>2, ReadableFits
     DEF LogoutLoad, LockAndLoad, database, session, client, tasks, SavesTypeOK, Blob,
     NoBlob, Nothing
<1>4. Loads
  BY <1>0 DEF LogoutLoad, LockAndLoad, database, session, client, tasks, Loads, SavesTypeOK
<1>5. FencedClients'
  BY <1>0 DEF LogoutLoad, LockAndLoad, database, session, client, tasks, FencedClients,
     SavesTypeOK, Fits, Claimed
<1>6. ASSUME NEW d \in Client PROVE ClaimsOf(d)'
  BY <1>0, ClaimsKept, Zenon
     DEF LogoutLoad, LockAndLoad, database, session, client, tasks, SavesTypeOK
<1>7. ASSUME NEW d \in Client PROVE SentOf(d)'
  BY <1>0, SentKept DEF LogoutLoad, LockAndLoad, database, session, client, tasks,
     SavesTypeOK
<1> QED
  BY <1>1, <1>2, <1>3, <1>4, <1>5, <1>6, <1>7, DatabaseKept
     DEF SavesInv, ClaimsStaged, SentFits

\* A logout that finds nothing to save stores nothing.
LEMMA LogoutFailsKeeps ==
    ASSUME SavesInv, NEW c \in Client, LogoutFails(c)
    PROVE  SavesInv'
<1>0. SavesTypeOK /\ FencedBlobs /\ FencedClients /\ ClaimsStaged /\ SentFits /\ LockHeld
  BY DEF SavesInv
<1>1. UNCHANGED database
  BY DEF LogoutFails, Leave, database, session, client, tasks
<1>2. LockHeld' /\ lock' \in [Land -> Task \cup {NoTask}]
  BY LeaveKeepsLocks, Zenon DEF LogoutFails, database, session, client, tasks
<1>3. SavesTypeOK'
  BY <1>0, <1>2, ReadableFits
     DEF LogoutFails, Leave, database, session, client, tasks, SavesTypeOK, Blob, NoBlob,
     Nothing
<1>4. Loads
  BY <1>0 DEF LogoutFails, Leave, database, session, client, tasks, Loads, SavesTypeOK
<1>5. FencedClients'
  BY <1>0 DEF LogoutFails, Leave, database, session, client, tasks, FencedClients,
     SavesTypeOK, Fits, Claimed
<1>6. ASSUME NEW d \in Client PROVE ClaimsOf(d)'
  BY <1>0, ClaimsKept, Zenon
     DEF LogoutFails, Leave, database, session, client, tasks, SavesTypeOK
<1>7. ASSUME NEW d \in Client PROVE SentOf(d)'
  BY <1>0, SentKept DEF LogoutFails, Leave, database, session, client, tasks, SavesTypeOK
<1> QED
  BY <1>1, <1>2, <1>3, <1>4, <1>5, <1>6, <1>7, DatabaseKept
     DEF SavesInv, ClaimsStaged, SentFits

-----------------------------------------------------------------------------
(* Steps that store.                                                         *)

\* The tasks when t has stored: the others are where they were.
Afterwards(t) ==
    \A d \in Client, j \in {"recv", "out"} : at'[<<d, j>>] \in LoadedAt =>
        /\ at[<<d, j>>] = at'[<<d, j>>]
        /\ base'[<<d, j>>].items = base[<<d, j>>].items
        /\ base'[<<d, j>>].epoch = base[<<d, j>>].epoch
        /\ <<d, j>> = t => base'[<<d, j>>].serial = save'.serial

\* The task <<c, k>> has stored, inside its lock or without one; if it goes on,
\* it counts its own write as seen.
LEMMA DatabaseAdvanced ==
    ASSUME SavesInv, NEW place \in Land \cup {NoLock}, Advance(place), UNCHANGED land,
           NEW c \in Client, NEW k \in {"recv", "out"},
           place = NoLock \/ (place = land[c] /\ at[<<c, k>>] \in LockedAt),
           Afterwards(<<c, k>>)
    PROVE  FencedBlobs' /\ NothingBetween'
<1>1. save'.items = Claimed' /\ saver' = place
  BY DEF Advance
<1>2. \A i \in Slot : backups'[i].epoch # NoEpoch => Fits(backups[i].items, backups[i].epoch)'
  BY DEF Advance, Fits
<1>3. ASSUME NEW t \in Task, at'[t] \in LoadedAt
      PROVE  Fits(base[t].items, base[t].epoch)'
  <2>1. PICK d \in Client, j \in {"recv", "out"} : t = <<d, j>>
    OBVIOUS
  <2>2. /\ at[t] \in LoadedAt /\ base'[t].items = base[t].items
        /\ base'[t].epoch = base[t].epoch
    BY <1>3, <2>1, ZenonT(60) DEF Afterwards
  <2>3. /\ base[t].epoch <= generation'
        /\ base[t].epoch = generation' => base[t].items = Claimed'
    BY <2>2, FitsKept
  <2> QED
    BY <2>2, <2>3 DEF Fits
<1>4. FencedBlobs'
  BY <1>1, <1>2, <1>3 DEF FencedBlobs
<1>5. ASSUME NEW d \in Client, NEW j \in {"recv", "out"},
             at'[<<d, j>>] \in LockedAt, base'[<<d, j>>].serial # save'.serial
      PROVE  place # land[d]
  <2>1. at[<<d, j>>] \in LockedAt /\ <<d, j>> # <<c, k>>
    BY <1>5, Zenon DEF Afterwards
  <2>2. NoLock # land[d]
    BY DEF SavesInv, SavesTypeOK
  <2>3. ASSUME land[c] = land[d], at[<<c, k>>] \in LockedAt
        PROVE  <<c, k>> = <<d, j>>
    BY <2>1, <2>3, OneInside, Zenon
  <2> QED
    BY <2>1, <2>2, <2>3
<1>6. NothingBetween'
  BY <1>1, <1>5, Zenon DEF NothingBetween
<1> QED
  BY <1>4, <1>6

\* What a transaction leaves of the types.
LEMMA DatabaseTyped ==
    ASSUME NEW place \in Land \cup {NoLock}, Advance(place)
    PROVE  /\ save' \in [items : SUBSET Starter, serial : Nat, sound : BOOLEAN]
           /\ generation' \in Nat
           /\ receipt' \in [Starter -> {"pending", "claimed", "legacy"}]
           /\ backups' \in [Slot -> [items : SUBSET Starter, epoch : Nat \cup {NoEpoch}]]
           /\ saver' \in Land \cup {NoLock}
  BY DEF Advance

\* A task that stores what it has loaded, and then leaves.
LEMMA DerivedKeeps ==
    ASSUME SavesInv, NEW c \in Client, NEW k \in {"recv", "out"},
           NEW place \in Land \cup {NoLock}, at[<<c, k>>] \in LoadedAt,
           place = NoLock \/ (place = land[c] /\ at[<<c, k>>] \in LockedAt),
           StoreDerived(<<c, k>>, place), Leave(c, <<c, k>>), UNCHANGED <<session, client>>
    PROVE  SavesInv'
<1>0. SavesTypeOK /\ FencedClients /\ SentFits
  BY DEF SavesInv
<1>1. Advance(place)
  BY DerivedFits, StoreFits
<1>2. LockHeld' /\ lock' \in [Land -> Task \cup {NoTask}]
  BY LeaveKeepsLocks, Zenon DEF session
<1>3. SavesTypeOK'
  BY <1>0, <1>1, <1>2, DatabaseTyped
     DEF Leave, session, client, SavesTypeOK, Blob, NoBlob, Nothing
<1>4. FencedBlobs' /\ NothingBetween'
  <2>1. Afterwards(<<c, k>>)
    BY <1>0 DEF Leave, SavesTypeOK, Afterwards
  <2> QED
    BY <1>1, <2>1, DatabaseAdvanced, Zenon DEF session
<1>5. FencedClients'
  BY <1>1, FitsKept DEF session, client, FencedClients, Fits
<1>6. ASSUME NEW d \in Client PROVE ClaimsOf(d)'
  BY <1>0, <1>1, StaysBehind, ClaimsKept, Zenon DEF Leave, session, client, SavesTypeOK
<1>7. ASSUME NEW d \in Client PROVE SentOf(d)'
  <2>1. CASE d # c
    BY <1>0, <1>1, <2>1, StaysBehind, SentKept, Zenon
       DEF Leave, session, client, SavesTypeOK
  <2>2. CASE d = c /\ k = "recv"
    BY <1>0, <2>2 DEF Leave, SavesTypeOK, SentOf
  <2>3. CASE d = c /\ k = "out"
    BY <1>0, <1>1, <2>3, StaysBehind, SentKept DEF Leave, session, client, SavesTypeOK
  <2> QED
    BY <2>1, <2>2, <2>3
<1> QED
  BY <1>2, <1>3, <1>4, <1>5, <1>6, <1>7 DEF SavesInv, ClaimsStaged, SentFits

\* Points are stored without the lock: saver says so.
LEMMA SpendStoreKeeps ==
    ASSUME SavesInv, NEW c \in Client, SpendStore(c)
    PROVE  SavesInv'
  BY DerivedKeeps, Zenon DEF SpendStore

\* The final save, or none if its transaction fails.
LEMMA LogoutStoreKeeps ==
    ASSUME SavesInv, NEW c \in Client, LogoutStore(c)
    PROVE  SavesInv'
<1>0. SavesTypeOK /\ FencedClients
  BY DEF SavesInv
<1>1. CASE StoreDerived(Out(c), land[c])
  BY <1>0, <1>1, DerivedKeeps, Zenon DEF LogoutStore, SavesTypeOK
<1>2. CASE UNCHANGED database
  <2>1. LockHeld' /\ lock' \in [Land -> Task \cup {NoTask}]
    BY LeaveKeepsLocks, Zenon DEF LogoutStore, session
  <2>2. SavesTypeOK'
    BY <1>0, <1>2, <2>1
       DEF LogoutStore, Leave, database, session, client, SavesTypeOK, Blob, NoBlob, Nothing
  <2>3. Loads
    BY <1>0 DEF LogoutStore, Leave, session, Loads, SavesTypeOK
  <2>4. FencedClients'
    BY <1>0, <1>2 DEF LogoutStore, database, session, client, FencedClients, Fits, Claimed
  <2>5. ASSUME NEW d \in Client PROVE ClaimsOf(d)'
    BY <1>0, <1>2, ClaimsKept, Zenon
       DEF LogoutStore, Leave, database, session, client, SavesTypeOK
  <2>6. ASSUME NEW d \in Client PROVE SentOf(d)'
    BY <1>0, <1>2, SentKept DEF LogoutStore, Leave, database, session, client, SavesTypeOK
  <2> QED
    BY <1>2, <2>1, <2>2, <2>3, <2>4, <2>5, <2>6, DatabaseKept
    DEF SavesInv, ClaimsStaged, SentFits
<1> QED
  BY <1>1, <1>2 DEF LogoutStore

\* A load that repairs the blob goes on with the blob it has stored.
LEMMA LoadRepairKeeps ==
    ASSUME SavesInv, NEW c \in Client, LoadRepair(c)
    PROVE  SavesInv'
<1>0. SavesTypeOK /\ LockHeld /\ at[<<c, "recv">>] = "loading" /\ land[c] \in Land
  BY DEF SavesInv, SavesTypeOK, LoadRepair
<1>a. \E b \in [items : SUBSET Starter, serial : {save'.serial}, epoch : Nat] :
        /\ b.items = base[<<c, "recv">>].items /\ b.epoch = base[<<c, "recv">>].epoch
        /\ base' = [base EXCEPT ![<<c, "recv">>] = b]
  <2>1. base[<<c, "recv">>] \in Blob
    BY <1>0 DEF SavesTypeOK
  <2> DEFINE b == [items |-> base[<<c, "recv">>].items, serial |-> save'.serial,
                   epoch |-> base[<<c, "recv">>].epoch]
  <2>2. [base[<<c, "recv">>] EXCEPT !.serial = save'.serial] = b
    BY <2>1 DEF Blob
  <2>3. b \in [items : SUBSET Starter, serial : {save'.serial}, epoch : Nat]
    BY <2>1 DEF Blob
  <2>4. base' = [base EXCEPT ![<<c, "recv">>] = b]
    BY <2>2, Zenon DEF LoadRepair
  <2> QED
    BY <2>3, <2>4, Zenon
<1>1. Advance(land[c])
  BY <1>0, DerivedFits, StoreFits DEF LoadRepair
<1>2. LockHeld'
  BY <1>0, Zenon DEF LoadRepair, session, LockHeld
<1>3. SavesTypeOK'
  <2>1. save'.serial \in Nat
    BY <1>1 DEF Advance
  <2>2. base' \in [Task -> Blob]
    BY <1>0, <1>a, <2>1 DEF SavesTypeOK, Blob
  <2> QED
    BY <1>0, <1>1, <2>2, DatabaseTyped DEF LoadRepair, session, client, SavesTypeOK
<1>4. FencedBlobs' /\ NothingBetween'
  <2>1. Afterwards(<<c, "recv">>)
    BY <1>0, <1>a, Zenon DEF LoadRepair, SavesTypeOK, Afterwards
  <2> QED
    BY <1>0, <1>1, <2>1, DatabaseAdvanced, Zenon DEF LoadRepair, session
<1>5. FencedClients'
  BY <1>1, FitsKept DEF LoadRepair, session, client, FencedClients, Fits
<1>6. ASSUME NEW d \in Client PROVE ClaimsOf(d)'
  BY <1>0, <1>1, StaysBehind, ClaimsKept, Zenon DEF LoadRepair, session, client
<1>7. ASSUME NEW d \in Client PROVE SentOf(d)'
  BY <1>0, <1>1, StaysBehind, SentKept, Zenon
     DEF LoadRepair, session, client, SavesTypeOK, Blob
<1> QED
  BY <1>2, <1>3, <1>4, <1>5, <1>6, <1>7 DEF SavesInv, ClaimsStaged, SentFits

\* The save of the client: a new generation if it has new receipts.
LEMMA SaveStoreKeeps ==
    ASSUME SavesInv, NEW c \in Client, SaveStore(c)
    PROVE  SavesInv'
<1>0. /\ SavesTypeOK /\ FencedClients /\ ClaimsStaged /\ SentFits
      /\ at[<<c, "recv">>] = "saving" /\ land[c] \in Land
  BY DEF SavesInv, SavesTypeOK, SaveStore
<1>1. /\ baseline[c] = generation /\ Advance(land[c])
      /\ Claimed' = Claimed \cup sent[c].ids
  <2>1. PICK items \in {known[c] \cup sent[c].new, base[Recv(c)].items \cup sent[c].new} :
          CommitSave(Recv(c), baseline[c], sent[c].ids, items, land[c])
    BY Zenon DEF SaveStore
  <2>2. /\ items \in SUBSET Starter
        /\ baseline[c] = generation => items = Claimed \cup sent[c].ids
    BY <1>0, ClientFits
  <2>3. baseline[c] \in Nat \cup {NoEpoch} /\ sent[c].ids \in SUBSET Starter
    BY <1>0 DEF SavesTypeOK
  <2>4. Claimed' = Claimed \cup sent[c].ids
    BY <2>1, <2>3 DEF CommitSave, Claimed
  <2> QED
    BY <1>0, <2>1, <2>2, <2>3, <2>4, StoreFits
<1>2. LockHeld' /\ lock' \in [Land -> Task \cup {NoTask}]
  BY LeaveKeepsLocks, Zenon DEF SaveStore
<1>3. \/ /\ baseline' = [baseline EXCEPT ![c] = generation']
         /\ staged' = [staged EXCEPT ![c] = @ \ sent[c].ids]
         /\ known' = [known EXCEPT ![c] = @ \cup sent[c].new]
         /\ added' = [added EXCEPT ![c] = @ \ sent[c].new]
      \/ UNCHANGED <<baseline, staged, known, added>>
  BY DEF SaveStore
<1>4. SavesTypeOK'
  <2>1. baseline' \in [Client -> Nat \cup {NoEpoch}]
    BY <1>0, <1>1, <1>3, SMTT(40) DEF SavesTypeOK, Advance
  <2>2. /\ staged' = staged \/ staged' = [staged EXCEPT ![c] = @ \ sent[c].ids]
        /\ added' = added \/ added' = [added EXCEPT ![c] = @ \ sent[c].new]
        /\ known' = known \/ known' = [known EXCEPT ![c] = @ \cup sent[c].new]
    BY <1>3
  <2>3. /\ staged \in [Client -> SUBSET Starter] /\ added \in [Client -> SUBSET Starter]
        /\ known \in [Client -> SUBSET Starter] /\ sent[c].new \in SUBSET Starter
    BY <1>0 DEF SavesTypeOK
  <2>4. staged' \in [Client -> SUBSET Starter]
    BY <2>2, <2>3
  <2>5. added' \in [Client -> SUBSET Starter]
    BY <2>2, <2>3
  <2>6. known' \in [Client -> SUBSET Starter]
    BY <2>2, <2>3
  <2> QED
    BY <1>0, <1>1, <1>2, <2>1, <2>4, <2>5, <2>6, DatabaseTyped
    DEF SaveStore, Leave, SavesTypeOK, Blob, NoBlob, Nothing
<1>5. FencedBlobs' /\ NothingBetween'
  <2>1. Afterwards(<<c, "recv">>)
    BY <1>0 DEF SaveStore, Leave, SavesTypeOK, Afterwards
  <2> QED
    BY <1>0, <1>1, <2>1, DatabaseAdvanced, Zenon DEF SaveStore
<1>6. ASSUME NEW d \in Client, baseline'[d] # NoEpoch
      PROVE  Fits(known[d], baseline[d])'
  <2>1. CASE baseline'[d] = baseline[d] /\ known'[d] = known[d]
    BY <1>1, <1>6, <2>1, FitsKept DEF Fits
  <2>2. CASE d = c /\ baseline'[d] = generation' /\ known'[d] = known[d] \cup sent[d].new
    <3>1. known[c] \cup sent[c].new = Claimed \cup sent[c].ids
      BY <1>0, <1>1, ClientFits
    <3> QED
      BY <1>1, <2>2, <3>1 DEF Fits, Advance
  <2> QED
    BY <1>0, <1>3, <2>1, <2>2 DEF SavesTypeOK
<1>7. ASSUME NEW d \in Client PROVE ClaimsOf(d)'
  <2>1. CASE d # c \/ UNCHANGED <<baseline, staged, known, added>>
    BY <1>0, <1>1, <1>3, <2>1, StaysBehind, ClaimsKept, ZenonT(60)
       DEF SaveStore, Leave, SavesTypeOK
  <2>2. CASE d = c /\ ~UNCHANGED <<baseline, staged, known, added>>
    <3>1. /\ sent[c].new \subseteq added[c] /\ wanted[c] \notin sent[c].new
          /\ sent[c].new \subseteq sent[c].ids /\ sent[c].ids \subseteq known[c] \cup sent[c].new
      BY <1>0, <1>1 DEF SentFits, SentOf
    <3>2. /\ added[c] \cap known[c] = {} /\ wanted[c] \in added[c] \cup {NoStarter}
          /\ rejected[c] \/ added[c] \subseteq staged[c] \cup {wanted[c]}
          /\ staged[c] \subseteq known[c] \cup added[c]
      BY <1>0, <1>1 DEF ClaimsStaged, ClaimsOf
    <3>3. /\ staged'[c] = staged[c] \ sent[c].ids /\ known'[c] = known[c] \cup sent[c].new
          /\ added'[c] = added[c] \ sent[c].new /\ wanted' = wanted /\ rejected' = rejected
          /\ at'[Recv(c)] = "idle"
      BY <1>0, <1>3, <2>2 DEF SaveStore, Leave, SavesTypeOK
    <3> QED
      BY <2>2, <3>1, <3>2, <3>3 DEF ClaimsOf
  <2> QED
    BY <2>1, <2>2
<1>8. ASSUME NEW d \in Client PROVE SentOf(d)'
  <2>1. CASE d # c
    BY <1>0, <1>1, <1>3, <2>1, StaysBehind, SentKept, ZenonT(60)
       DEF SaveStore, Leave, SavesTypeOK
  <2>2. CASE d = c
    BY <1>0, <2>2 DEF SaveStore, Leave, SavesTypeOK, SentOf
  <2> QED
    BY <2>1, <2>2
<1> QED
  BY <1>2, <1>4, <1>5, <1>6, <1>7, <1>8 DEF SavesInv, FencedClients, ClaimsStaged, SentFits

-----------------------------------------------------------------------------
(* What happens outside the server.                                          *)

\* A receipt of the old campaign is never claimed.
LEMMA SuppressKeeps ==
    ASSUME SavesInv, NEW r \in Starter, Suppress(r)
    PROVE  SavesInv'
<1>1. Claimed' = Claimed /\ receipt' \in [Starter -> {"pending", "claimed", "legacy"}]
  BY DEF Suppress, Claimed, SavesInv, SavesTypeOK
<1>2. SavesTypeOK'
  BY <1>1 DEF Suppress, session, client, tasks, SavesInv, SavesTypeOK
<1>3. FencedBlobs' /\ FencedClients'
  BY <1>1 DEF Suppress, session, client, tasks, SavesInv, FencedBlobs, FencedClients, Fits
<1>4. ClaimsStaged' /\ SentFits' /\ LockHeld' /\ NothingBetween'
  BY DEF Suppress, session, client, tasks, SavesInv, ClaimsStaged, ClaimsOf, SentFits,
     SentOf,
         LockHeld, NothingBetween
<1> QED
  BY <1>2, <1>3, <1>4 DEF SavesInv

\* Damage changes the blob's hash, not its number.
LEMMA DamageKeeps ==
    ASSUME SavesInv, Damage
    PROVE  SavesInv'
<1>1. /\ save' \in [items : SUBSET Starter, serial : Nat, sound : BOOLEAN]
      /\ save'.serial = save.serial /\ ~save'.sound /\ Claimed' = Claimed
  BY Zenon DEF Damage, Claimed, SavesInv, SavesTypeOK
<1>2. SavesTypeOK'
  BY <1>1, Zenon DEF Damage, session, client, tasks, SavesInv, SavesTypeOK
<1>3. FencedBlobs' /\ FencedClients'
  BY <1>1 DEF Damage, session, client, tasks, SavesInv, FencedBlobs, FencedClients, Fits
<1>4. ClaimsStaged' /\ SentFits' /\ LockHeld'
  BY ZenonT(60) DEF Damage, session, client, tasks, SavesInv, ClaimsStaged, ClaimsOf,
     SentFits, SentOf, LockHeld
<1>5. NothingBetween'
  BY <1>1, Zenon DEF Damage, session, tasks, SavesInv, NothingBetween
<1> QED
  BY <1>2, <1>3, <1>4, <1>5 DEF SavesInv

\* Steps of other parts.
LEMMA StutterKeeps ==
    ASSUME SavesInv, UNCHANGED savesVars
    PROVE  SavesInv'
  BY DEF savesVars, database, session, client, tasks, SavesInv, SavesTypeOK, FencedBlobs,
         FencedClients, ClaimsStaged, ClaimsOf, SentFits, SentOf, LockHeld, NothingBetween,
         Fits, Claimed

-----------------------------------------------------------------------------
(* The theorems.                                                             *)

\* SavesInv holds in every reachable state: what has been read at the current
\* generation agrees with the receipts, a client save under way carries the
\* receipts of what it adds, and nobody writes between the load and the store of
\* a task of the same channel but the handlers that take no lock.
THEOREM SavesInvariance == SavesSpec => []SavesInv
<1>1. SavesInv /\ [SavesNext]_savesVars => SavesInv'
  <2> SUFFICES ASSUME SavesInv, [SavesNext]_savesVars PROVE SavesInv'
    OBVIOUS
  <2>1. CASE Damage \/ \E r \in Starter : Suppress(r)
    BY <2>1, DamageKeeps, SuppressKeeps
  <2>2. ASSUME NEW c \in Client,
               (\E l \in Land : Connect(c, l)) \/ (\E r \in Starter : PickUp(c, r)) \/ Acquire(c)
        PROVE  SavesInv'
    BY <2>2, ConnectKeeps, PickUpKeeps, AcquireKeeps
  <2>3. ASSUME NEW c \in Client, Savedata(c) \/ SaveLoad(c) \/ SaveStore(c)
        PROVE  SavesInv'
    BY <2>3, SavedataKeeps, SaveLoadKeeps, SaveStoreKeeps
  <2>4. ASSUME NEW c \in Client, Loaddata(c) \/ LoadRead(c) \/ LoadRepair(c) \/ LoadAnswer(c)
        PROVE  SavesInv'
    BY <2>4, LoaddataKeeps, LoadReadKeeps, LoadRepairKeeps, LoadAnswerKeeps
  <2>5. ASSUME NEW c \in Client, SpendLoad(c) \/ SpendStore(c) \/ Refuse(c)
        PROVE  SavesInv'
    BY <2>5, SpendLoadKeeps, SpendStoreKeeps, RefuseKeeps
  <2>6. ASSUME NEW c \in Client, LogOut(c) \/ LogoutLoad(c) \/ LogoutStore(c) \/ LogoutFails(c)
        PROVE  SavesInv'
    BY <2>6, LogOutKeeps, LogoutLoadKeeps, LogoutStoreKeeps, LogoutFailsKeeps
  <2>7. CASE UNCHANGED savesVars
    BY <2>7, StutterKeeps
  <2> QED
    BY <2>1, <2>2, <2>3, <2>4, <2>5, <2>6, <2>7 DEF SavesNext
<1> QED
  BY <1>1, InitInv, PTL DEF SavesSpec

\* Whatever a load of the character returns, the blob or a backup of it, holds
\* exactly the starter items whose receipts are claimed.
THEOREM ReceiptsMatch == SavesSpec => []ReceiptsMatchInventory
<1>1. SavesInv => ReceiptsMatchInventory
  BY ReadableFits DEF SavesInv, ReceiptsMatchInventory
<1> QED
  BY <1>1, SavesInvariance, PTL
=============================================================================

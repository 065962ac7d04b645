--------------------------- MODULE CharacterSaves ---------------------------
(* The savedata of one character and the receipts of its starter items, with *)
(* QuestLicenses enabled (handlers_data.go, handlers_character.go,           *)
(* quest_license_starter_*.go).  The client adds an item to its own          *)
(* inventory, claims the receipt and sends its savedata; the server writes   *)
(* the blob and marks the receipts of its snapshot in one transaction.  The  *)
(* generation of the inventory fences off every save built on an older one:  *)
(* a second connection, a logout, a handler that changes points, a backup.   *)
(* Saves of a channel are serialised by its mutex of the character; the      *)
(* handlers that only change points do not take it, and channels share none. *)
(* A blob is abstracted to the starter items that have entered it and to the *)
(* number of the write that stored it.                                       *)
EXTENDS Integers

CONSTANTS
    Client,     \* connections of the character, each used again after a logout
    Land,       \* channels
    Starter,    \* receipts of starter items (quest_license_starters)
    NoStarter,  \* no claim under way
    Slot,       \* slots of savedata_backups
    NoEpoch,    \* no generation: NULL, or a client that has loaded nothing
    NoLock,     \* no channel's lock
    NoTask,     \* nobody holds it
    MaxSaves    \* bound: writes of the blob

ASSUME SavesAssumption ==
    /\ NoStarter \notin Starter /\ NoEpoch \notin Nat
    /\ NoLock \notin Land /\ NoTask \notin Client \X {"recv", "out"}
    /\ MaxSaves \in Nat

VARIABLES
    save,       \* characters.savedata: [items, serial, sound], sound is the hash
    generation, \* characters.starter_inventory_epoch
    receipt,    \* state of each receipt
    backups,    \* slot -> [items, epoch]
    saver,      \* history: the channel whose lock the last writer held, or NoLock
    lock,       \* Server.charSaveLocks: channel -> the task inside
    up,         \* the connections that are open
    land,       \* the channel it is connected to
    baseline,   \* Session.questLicenseClientInventory
    staged,     \* questLicenseStarterPending.items
    rejected,   \* questLicenseStarterPending.rejected
    known,      \* the client: starter items of its last load or stored save
    added,      \* the client: items it has picked up since
    wanted,     \* the client's claim that the server has not handled yet
    at,         \* where the handler ("recv") and the logout ("out") are
    base,       \* the blob the task works on: [items, serial, epoch]
    sent        \* the client save under way: [ids, new]

database == <<save, generation, receipt, backups, saver>>
session == <<up, land, baseline, staged, rejected>>
client == <<known, added, wanted>>
tasks == <<lock, at, base, sent>>
savesVars == <<database, session, client, tasks>>

Task == Client \X {"recv", "out"}
Recv(c) == <<c, "recv">>
Out(c) == <<c, "out">>

Blob == [items : SUBSET Starter, serial : Nat, epoch : Nat]
Nothing == [ids |-> {}, new |-> {}]
NoBlob == [items |-> {}, serial |-> 0, epoch |-> 0]

\* The steps in which a task is between its load and its store.
LockedAt == {"saving", "loading", "leaving"}
LoadedAt == LockedAt \cup {"spend"}

SavesTypeOK ==
    /\ save \in [items : SUBSET Starter, serial : Nat, sound : BOOLEAN]
    /\ generation \in Nat
    /\ receipt \in [Starter -> {"pending", "claimed", "legacy"}]
    /\ backups \in [Slot -> [items : SUBSET Starter, epoch : Nat \cup {NoEpoch}]]
    /\ saver \in Land \cup {NoLock}
    /\ lock \in [Land -> Task \cup {NoTask}]
    /\ up \subseteq Client
    /\ land \in [Client -> Land]
    /\ baseline \in [Client -> Nat \cup {NoEpoch}]
    /\ staged \in [Client -> SUBSET Starter] /\ rejected \in [Client -> BOOLEAN]
    /\ known \in [Client -> SUBSET Starter] /\ added \in [Client -> SUBSET Starter]
    /\ wanted \in [Client -> Starter \cup {NoStarter}]
    /\ at \in [Task -> LoadedAt \cup {"idle", "save", "load", "leave"}]
    /\ base \in [Task -> Blob]
    /\ sent \in [Client -> [ids : SUBSET Starter, new : SUBSET Starter]]

Claimed == {r \in Starter : receipt[r] = "claimed"}

\* Migration 0091: generation 0; backups made before it have none.
SavesInit ==
    /\ save = [items |-> {}, serial |-> 0, sound |-> TRUE]
    /\ generation = 0 /\ receipt = [r \in Starter |-> "pending"]
    /\ backups = [i \in Slot |-> [items |-> {}, epoch |-> NoEpoch]]
    /\ saver = NoLock /\ lock = [l \in Land |-> NoTask]
    /\ up = {} /\ land \in [Client -> Land]
    /\ baseline = [c \in Client |-> NoEpoch]
    /\ staged = [c \in Client |-> {}] /\ rejected = [c \in Client |-> FALSE]
    /\ known = [c \in Client |-> {}] /\ added = [c \in Client |-> {}]
    /\ wanted = [c \in Client |-> NoStarter]
    /\ at = [t \in Task |-> "idle"] /\ base = [t \in Task |-> NoBlob]
    /\ sent = [c \in Client |-> Nothing]

-----------------------------------------------------------------------------
(* Locking, loading and storing.                                             *)

Ready(c) == c \in up /\ at[Recv(c)] = "idle"

HasPending(c) == rejected[c] \/ staged[c] # {}

Unlocked(l) == lock[l] = NoTask

LeaveLock(c) == lock' = [lock EXCEPT ![land[c]] = NoTask]

\* What GetCharacterSaveData may return: the blob, or, if it is damaged, a
\* backup of the same generation.
Readable ==
    IF save.sound
    THEN {[items |-> save.items, serial |-> save.serial, epoch |-> generation]}
    ELSE {[items |-> backups[i].items, serial |-> save.serial, epoch |-> generation] :
            i \in {j \in Slot : backups[j].epoch = generation}}

\* Mutant: CharacterLocks.Lock makes a mutex of its own for every caller.
LockAndLoadAlone(c, t, next) ==
    /\ lock' = [lock EXCEPT ![land[c]] = t]
    /\ at' = [at EXCEPT ![t] = next]
    /\ \E b \in Readable : base' = [base EXCEPT ![t] = b]

\* A task enters the lock of its channel and loads.
LockAndLoad(c, t, next) ==
    /\ Unlocked(land[c])
    /\ lock' = [lock EXCEPT ![land[c]] = t]
    /\ at' = [at EXCEPT ![t] = next]
    /\ \E b \in Readable : base' = [base EXCEPT ![t] = b]

\* Mutant: a save without receipts skips the check.
AnyFresh(expected) == expected \in Nat

\* The generation check of the save's transaction.
Fresh(expected) == generation = expected

Collectible(ids) == \A r \in ids : receipt[r] # "legacy"

\* The transaction of a save: receipts first, then the blob, then the backup of
\* what the task had loaded, which has to be of the same generation.
CommitSave(t, expected, ids, items, place) ==
    /\ Fresh(expected) /\ Collectible(ids) /\ save.serial < MaxSaves
    /\ generation' = IF ids \subseteq Claimed THEN generation ELSE generation + 1
    /\ receipt' = [r \in Starter |-> IF r \in ids THEN "claimed" ELSE receipt[r]]
    /\ save' = [items |-> items, serial |-> save.serial + 1, sound |-> TRUE]
    /\ saver' = place
    /\ \/ UNCHANGED backups
       \/ /\ base[t].epoch = expected
          /\ \E i \in Slot : backups' =
                [backups EXCEPT ![i] = [items |-> base[t].items, epoch |-> expected]]

\* A blob derived from the database is stored as it was loaded, and takes no
\* receipts.
StoreDerived(t, place) == CommitSave(t, base[t].epoch, {}, base[t].items, place)

\* The task gives up or has finished; `inside' if it holds the lock.
Leave(c, t) ==
    /\ at' = [at EXCEPT ![t] = "idle"] /\ base' = [base EXCEPT ![t] = NoBlob]
    /\ sent' = IF t = Recv(c) THEN [sent EXCEPT ![c] = Nothing] ELSE sent
    /\ IF at[t] \in LockedAt THEN LeaveLock(c) ELSE UNCHANGED lock

-----------------------------------------------------------------------------
(* The client and its claims.                                                *)

\* A new connection is a new Session: nothing loaded, nothing staged.
Connect(c, l) ==
    /\ c \notin up /\ at[Recv(c)] = "idle" /\ at[Out(c)] = "idle"
    /\ up' = up \cup {c} /\ land' = [land EXCEPT ![c] = l]
    /\ baseline' = [baseline EXCEPT ![c] = NoEpoch]
    /\ staged' = [staged EXCEPT ![c] = {}] /\ rejected' = [rejected EXCEPT ![c] = FALSE]
    /\ known' = [known EXCEPT ![c] = {}] /\ added' = [added EXCEPT ![c] = {}]
    /\ wanted' = [wanted EXCEPT ![c] = NoStarter]
    /\ UNCHANGED <<database, tasks>>

\* The client picks up an item it was offered at some time, and has queued the
\* claim and the next save before it sees an answer to either.  While it loads
\* its savedata it does nothing else.
PickUp(c, r) ==
    /\ c \in up /\ baseline[c] # NoEpoch /\ wanted[c] = NoStarter
    /\ at[Recv(c)] \notin {"load", "loading"}
    /\ r \notin known[c] \cup added[c]
    /\ added' = [added EXCEPT ![c] = @ \cup {r}]
    /\ wanted' = [wanted EXCEPT ![c] = r]
    /\ UNCHANGED <<database, session, known, tasks>>

\* The claim reaches the server: a pending receipt is staged, a claimed one was
\* answered before; a conflict, an error of the database or an earlier rejection
\* rejects everything the session claims from now on.
Acquire(c) ==
    /\ Ready(c) /\ wanted[c] # NoStarter
    /\ \/ /\ receipt[wanted[c]] = "pending" /\ ~rejected[c]
          /\ staged' = [staged EXCEPT ![c] = @ \cup {wanted[c]}] /\ UNCHANGED rejected
       \/ /\ receipt[wanted[c]] = "claimed" /\ ~rejected[c] /\ UNCHANGED <<staged, rejected>>
       \/ rejected' = [rejected EXCEPT ![c] = TRUE] /\ UNCHANGED staged
    /\ wanted' = [wanted EXCEPT ![c] = NoStarter]
    /\ UNCHANGED <<database, up, land, baseline, known, added, tasks>>

\* Ensure finds that the old campaign has delivered the item already.
Suppress(r) ==
    /\ receipt[r] = "pending"
    /\ receipt' = [receipt EXCEPT ![r] = "legacy"]
    /\ UNCHANGED <<save, generation, backups, saver, session, client, tasks>>

\* The blob is damaged outside the server; its hash no longer fits.
Damage ==
    /\ save.sound /\ save' = [save EXCEPT !.sound = FALSE]
    /\ UNCHANGED <<generation, receipt, backups, saver, session, client, tasks>>

-----------------------------------------------------------------------------
(* The handlers.                                                             *)

\* handleMsgMhfSavedata up to the lock: the receipts are read here, and so is
\* what the client's packet contains.
Savedata(c) ==
    /\ Ready(c) /\ wanted[c] = NoStarter
    /\ baseline[c] # NoEpoch /\ ~rejected[c]
    /\ at' = [at EXCEPT ![Recv(c)] = "save"]
    /\ sent' = [sent EXCEPT ![c] = [ids |-> staged[c], new |-> added[c]]]
    /\ UNCHANGED <<database, session, client, lock, base>>

SaveLoad(c) ==
    /\ at[Recv(c)] = "save" /\ LockAndLoad(c, Recv(c), "saving")
    /\ UNCHANGED <<database, session, client, sent>>

\* A full save replaces the blob, a difference is applied to the one loaded.
\* The session learns the new generation only if the commit is reported.
SaveStore(c) ==
    LET new == sent[c].new IN
    /\ at[Recv(c)] = "saving"
    /\ \E items \in {known[c] \cup new, base[Recv(c)].items \cup new} :
          CommitSave(Recv(c), baseline[c], sent[c].ids, items, land[c])
    /\ Leave(c, Recv(c)) /\ UNCHANGED <<up, land, rejected, wanted>>
    /\ \/ /\ baseline' = [baseline EXCEPT ![c] = generation']
          /\ staged' = [staged EXCEPT ![c] = @ \ sent[c].ids]
          /\ known' = [known EXCEPT ![c] = @ \cup new]
          /\ added' = [added EXCEPT ![c] = @ \ new]
       \/ UNCHANGED <<baseline, staged, known, added>>

\* handleMsgMhfLoaddata, refused while a claim is unresolved.
Loaddata(c) ==
    /\ Ready(c) /\ wanted[c] = NoStarter /\ ~HasPending(c)
    /\ at' = [at EXCEPT ![Recv(c)] = "load"]
    /\ UNCHANGED <<database, session, client, lock, base, sent>>

LoadRead(c) ==
    /\ at[Recv(c)] = "load" /\ LockAndLoad(c, Recv(c), "loading")
    /\ UNCHANGED <<database, session, client, sent>>

\* A repaired name or the Pallone points are stored before the answer.
LoadRepair(c) ==
    /\ at[Recv(c)] = "loading" /\ StoreDerived(Recv(c), land[c])
    /\ base' = [base EXCEPT ![Recv(c)].serial = save'.serial]
    /\ UNCHANGED <<session, client, lock, at, sent>>

LoadAnswer(c) ==
    /\ at[Recv(c)] = "loading" /\ Leave(c, Recv(c))
    /\ baseline' = [baseline EXCEPT ![c] = base[Recv(c)].epoch]
    /\ known' = [known EXCEPT ![c] = base[Recv(c)].items]
    /\ added' = [added EXCEPT ![c] = {}]
    /\ UNCHANGED <<database, up, land, staged, rejected, wanted>>

\* A donation or a distribution changes the points without the lock.
SpendLoad(c) ==
    /\ Ready(c) /\ at' = [at EXCEPT ![Recv(c)] = "spend"]
    /\ \E b \in Readable : base' = [base EXCEPT ![Recv(c)] = b]
    /\ UNCHANGED <<database, session, client, lock, sent>>

SpendStore(c) ==
    /\ at[Recv(c)] = "spend" /\ StoreDerived(Recv(c), NoLock)
    /\ Leave(c, Recv(c)) /\ UNCHANGED <<session, client>>

\* A handler gives up: nothing to read, an invalid blob or name, a stale
\* generation, a failed transaction.
Refuse(c) ==
    /\ at[Recv(c)] # "idle" /\ Leave(c, Recv(c))
    /\ UNCHANGED <<database, session, client>>

\* saveAllCharacterData; the session may be closed while its handler runs.
LogOut(c) ==
    /\ c \in up /\ up' = up \ {c} /\ at' = [at EXCEPT ![Out(c)] = "leave"]
    /\ UNCHANGED <<database, land, baseline, staged, rejected, client, lock, base, sent>>

LogoutLoad(c) ==
    /\ at[Out(c)] = "leave" /\ LockAndLoad(c, Out(c), "leaving")
    /\ UNCHANGED <<database, session, client, sent>>

LogoutStore(c) ==
    /\ at[Out(c)] = "leaving"
    /\ StoreDerived(Out(c), land[c]) \/ UNCHANGED database
    /\ Leave(c, Out(c)) /\ UNCHANGED <<session, client>>

LogoutFails(c) ==
    /\ at[Out(c)] = "leave" /\ Leave(c, Out(c))
    /\ UNCHANGED <<database, session, client>>

SavesNext ==
    \/ Damage \/ \E r \in Starter : Suppress(r)
    \/ \E c \in Client :
        \/ (\E l \in Land : Connect(c, l)) \/ (\E r \in Starter : PickUp(c, r))
        \/ Acquire(c)
        \/ Savedata(c) \/ SaveLoad(c) \/ SaveStore(c)
        \/ Loaddata(c) \/ LoadRead(c) \/ LoadRepair(c) \/ LoadAnswer(c)
        \/ SpendLoad(c) \/ SpendStore(c) \/ Refuse(c)
        \/ LogOut(c) \/ LogoutLoad(c) \/ LogoutStore(c) \/ LogoutFails(c)

SavesSpec == SavesInit /\ [][SavesNext]_savesVars

-----------------------------------------------------------------------------
(* Properties.                                                               *)

\* Whatever a load returns contains exactly the starter items whose receipts
\* are claimed: no connection, channel, logout, lost answer or backup brings an
\* item twice or loses one that is paid for.
ReceiptsMatchInventory == \A b \in Readable : b.items = Claimed

\* What has come between the load and the store of a task inside the lock was
\* written by somebody who did not hold that lock.
NothingBetween ==
    \A c \in Client, k \in {"recv", "out"} :
        at[<<c, k>>] \in LockedAt /\ base[<<c, k>>].serial # save.serial => saver # land[c]

(* The strengthening: everything that was read at the current generation     *)
(* agrees with the receipts.                                                 *)
Fits(items, epoch) == epoch <= generation /\ (epoch = generation => items = Claimed)

FencedBlobs ==
    /\ save.sound => save.items = Claimed
    /\ \A i \in Slot : backups[i].epoch # NoEpoch => Fits(backups[i].items, backups[i].epoch)
    /\ \A t \in Task : at[t] \in LoadedAt => Fits(base[t].items, base[t].epoch)

FencedClients == \A c \in Client : baseline[c] # NoEpoch => Fits(known[c], baseline[c])

\* Whatever the client has picked up since its load is staged or on its way,
\* unless the session is rejected or its inventory outdated.
ClaimsOf(c) ==
    /\ added[c] \cap known[c] = {} /\ wanted[c] \in added[c] \cup {NoStarter}
    /\ at[Recv(c)] \in {"load", "loading"} => staged[c] = {} /\ wanted[c] = NoStarter
    /\ baseline[c] = generation =>
          /\ rejected[c] \/ added[c] \subseteq staged[c] \cup {wanted[c]}
          /\ staged[c] \subseteq known[c] \cup added[c]

ClaimsStaged == \A c \in Client : ClaimsOf(c)

\* A client save under way has the receipts of what it adds, if it is current.
SentOf(c) ==
    at[Recv(c)] \in {"save", "saving"} =>
        /\ baseline[c] # NoEpoch /\ sent[c].new \subseteq added[c] /\ wanted[c] \notin sent[c].new
        /\ at[Recv(c)] = "saving" => baseline[c] <= base[Recv(c)].epoch
        /\ baseline[c] = generation =>
              sent[c].new \subseteq sent[c].ids /\ sent[c].ids \subseteq known[c] \cup sent[c].new

SentFits == \A c \in Client : SentOf(c)

LockHeld ==
    \A c \in Client, k \in {"recv", "out"} :
        at[<<c, k>>] \in LockedAt => lock[land[c]] = <<c, k>>

\* Checked by TLC, proved inductive in CharacterSaves_proofs.
SavesInv ==
    /\ SavesTypeOK /\ FencedBlobs /\ FencedClients /\ ClaimsStaged /\ SentFits
    /\ LockHeld /\ NothingBetween
=============================================================================

----------------------------- MODULE TrustStore -----------------------------
(***************************************************************************)
(* What the phone remembers of the hosts it is paired with: the file store *)
(* of the first releases (mobile.Setup, fileStore), the Keychain-backed    *)
(* store that replaced it (setupKeychainStore, keychainStore) and the two  *)
(* migrations that an upgraded app runs at every launch, the Swift one     *)
(* (KeychainTrust.migrateLegacyFile) and the Go one (migrateLegacyStore).  *)
(*                                                                         *)
(* Identities are numbered in the order they are made.  A stored value     *)
(* that is absent is None; an empty list of peers is a value of its own.   *)
(* Each Keychain call is a step, reads as well as writes: between any two  *)
(* the app can be killed and the Keychain can lock or unlock.  While it is *)
(* locked, or fails for another reason, reads give nil and writes fail.    *)
(* Bound: MaxIds identities.                                               *)
(***************************************************************************)
EXTENDS Integers, FiniteSets

CONSTANTS Peers, MaxIds, None

(* None is none of the values stored. *)
ASSUME StoreAssumption ==
  /\ None \notin Nat
  /\ None \notin [id : Nat \cup {None}, peers : (SUBSET Peers) \cup {None}]
  /\ \A S \in SUBSET Peers : S # None

VARIABLES
  pc,        \* "legacy" or "saving": the old release runs; else where the new one is
  file,      \* trust.json: None, or its identity and its peers
  keychain,  \* the two Keychain items
  mem,       \* the store in memory: being written, being loaded or mobile.store
  made,      \* identities made so far
  locked,    \* the Keychain cannot be used
  paired,    \* history: the hosts paired and not forgotten
  misread,   \* history: the items whose last read of this launch hid them
  clobbered  \* history: the Keychain was written after such a read

storeVars == <<pc, file, keychain, mem, made, locked, paired, misread, clobbered>>

Nothing == [id |-> None, peers |-> None]

(* A file that os.WriteFile has truncated and not written: it is no JSON. *)
Torn == Nothing

StoreInit ==
  /\ pc = "legacy" /\ file = None /\ keychain = Nothing /\ mem = None
  /\ made = 0 /\ locked = FALSE /\ paired = {} /\ misread = {} /\ clobbered = FALSE

listed(peers) == IF peers = None THEN {} ELSE peers

(***************************************************************************)
(* fileStore: each operation reads the file, changes it and writes it back *)
(* whole; a file that does not decode makes it fail and stays as it is.    *)
(***************************************************************************)
save(st) ==
  /\ file' = Torn /\ mem' = st /\ pc' = "saving"
  /\ UNCHANGED <<keychain, locked, misread, clobbered>>

(* WriteFile ends, with all of it written or with an error. *)
Saved ==
  /\ pc = "saving" /\ pc' = "legacy" /\ mem' = None
  /\ file' \in {mem, Torn}
  /\ UNCHANGED <<keychain, made, locked, paired, misread, clobbered>>

(* Setup: an identity is made when the file has none. *)
Setup ==
  /\ pc = "legacy" /\ file = None /\ made < MaxIds
  /\ made' = made + 1
  /\ save([Nothing EXCEPT !.id = made + 1])
  /\ UNCHANGED paired

FileSavePeer(p) ==
  /\ pc = "legacy" /\ file \notin {None, Torn}
  /\ save([file EXCEPT !.peers = listed(@) \cup {p}])
  /\ paired' = paired \cup {p}
  /\ UNCHANGED made

FileRemovePeer(p) ==
  /\ pc = "legacy" /\ file \notin {None, Torn}
  /\ save([file EXCEPT !.peers = IF @ = None THEN None ELSE @ \ {p}])
  /\ paired' = paired \ {p}
  /\ UNCHANGED made

-----------------------------------------------------------------------------
(* A launch of the new release. *)
Launch ==
  /\ pc \in {"legacy", "off"}
  /\ pc' = "swift" /\ misread' = {}
  /\ UNCHANGED <<file, keychain, mem, made, locked, paired, clobbered>>

(* The app is killed. *)
Kill ==
  /\ pc \notin {"legacy", "off"}
  /\ pc' = "off" /\ mem' = None /\ misread' = {}
  /\ UNCHANGED <<file, keychain, made, locked, paired, clobbered>>

(* KeychainTrust.read: nil for an absent item and for every error. *)
getIdentity == IF locked THEN None ELSE keychain.id
getPeers == IF locked THEN None ELSE keychain.peers

(* What a read of an item tells: misread keeps those it hid. *)
reads(item) ==
  misread' = IF locked /\ keychain[item] # None THEN misread \cup {item} ELSE misread \ {item}

(* KeychainTrust.upsert. *)
upsert(items) ==
  /\ ~locked
  /\ keychain' = items /\ clobbered' = (clobbered \/ misread # {})

putIdentity(id) == upsert([keychain EXCEPT !.id = id])
putPeers(peers) == upsert([keychain EXCEPT !.peers = peers])

(* The file decodes in Swift only while it lists no peers: Go writes a     *)
(* peer's id as an array of numbers, and Data decodes from base64.         *)
decodes(f) == f \notin {None, Torn} /\ listed(f.peers) = {}

MigrateLegacyFile ==
  /\ pc = "swift" /\ reads("id")
  /\ pc' = IF getIdentity = None /\ decodes(file) THEN "swiftIdentity" ELSE "go"
  /\ UNCHANGED <<file, keychain, mem, made, locked, paired, clobbered>>

MigrateLegacyFileIdentity ==
  /\ pc = "swiftIdentity"
  /\ \/ putIdentity(file.id) /\ pc' = "swiftPeers"
     \/ locked /\ pc' = "go" /\ UNCHANGED <<keychain, clobbered>>
  /\ UNCHANGED <<file, mem, made, locked, paired, misread>>

MigrateLegacyFilePeers ==
  /\ pc = "swiftPeers"
  /\ \/ file.peers = None /\ pc' = "swiftRemove" /\ UNCHANGED <<keychain, clobbered>>
     \/ file.peers # None /\ putPeers(file.peers) /\ pc' = "swiftRemove"
     \/ file.peers # None /\ locked /\ pc' = "go" /\ UNCHANGED <<keychain, clobbered>>
  /\ UNCHANGED <<file, mem, made, locked, paired, misread>>

(* Neither release minds when the file cannot be removed. *)
MigrateLegacyFileRemove ==
  /\ pc = "swiftRemove"
  /\ file' \in {None, file} /\ pc' = "go"
  /\ UNCHANGED <<keychain, mem, made, locked, paired, misread, clobbered>>

-----------------------------------------------------------------------------
(* migrateLegacyStore copies into a Keychain in which it finds neither     *)
(* item, each looked for by a read of its own.                             *)
MigrateLegacyStore ==
  /\ pc = "go" /\ reads("id")
  /\ pc' = IF getIdentity # None THEN "load" ELSE "goFile"
  /\ UNCHANGED <<file, keychain, mem, made, locked, paired, clobbered>>

MigrateLegacyStoreFile ==
  /\ pc = "goFile" /\ reads("peers")
  /\ \/ (getPeers # None \/ file = None) /\ pc' = "load"
     \/ getPeers = None /\ file = Torn /\ pc' = "failed"
     \/ getPeers = None /\ file \notin {None, Torn} /\ pc' = "goIdentity"
  /\ UNCHANGED <<file, keychain, mem, made, locked, paired, clobbered>>

MigrateLegacyStoreIdentity ==
  /\ pc = "goIdentity"
  /\ \/ putIdentity(file.id) /\ pc' = "goPeers"
     \/ locked /\ pc' = "failed" /\ UNCHANGED <<keychain, clobbered>>
  /\ UNCHANGED <<file, mem, made, locked, paired, misread>>

(* Mutant: an error of PutPeers is ignored. *)
peersMovedOrNot ==
  \/ (listed(file.peers) = {} \/ locked) /\ pc' = "goRemove" /\ UNCHANGED <<keychain, clobbered>>
  \/ listed(file.peers) # {} /\ putPeers(file.peers) /\ pc' = "goRemove"

peersMoved ==
  \/ listed(file.peers) = {} /\ pc' = "goRemove" /\ UNCHANGED <<keychain, clobbered>>
  \/ listed(file.peers) # {} /\ putPeers(file.peers) /\ pc' = "goRemove"
  \/ listed(file.peers) # {} /\ locked /\ pc' = "failed" /\ UNCHANGED <<keychain, clobbered>>

MigrateLegacyStorePeers ==
  /\ pc = "goPeers"
  /\ peersMoved
  /\ UNCHANGED <<file, mem, made, locked, paired, misread>>

MigrateLegacyStoreRemove ==
  /\ pc = "goRemove"
  /\ file' \in {None, file} /\ pc' = "load"
  /\ UNCHANGED <<keychain, mem, made, locked, paired, misread, clobbered>>

-----------------------------------------------------------------------------
(* newKeychainStore reads the two items; LoadIdentity has what it read. *)
LoadTrust ==
  /\ pc = "load" /\ reads("id")
  /\ mem' = [id |-> getIdentity, peers |-> {}]
  /\ pc' = "loadPeers"
  /\ UNCHANGED <<file, keychain, made, locked, paired, clobbered>>

LoadPeers ==
  /\ pc = "loadPeers" /\ reads("peers")
  /\ mem' = [mem EXCEPT !.peers = listed(getPeers)]
  /\ pc' = IF mem.id # None THEN "ready" ELSE "newIdentity"
  /\ UNCHANGED <<file, keychain, made, locked, paired, clobbered>>

(* Without an identity a new one is made and saved, or setup fails. *)
NewIdentity ==
  /\ pc = "newIdentity" /\ made < MaxIds
  /\ made' = made + 1
  /\ \/ putIdentity(made + 1) /\ mem' = [mem EXCEPT !.id = made + 1] /\ pc' = "ready"
     \/ locked /\ pc' = "failed" /\ mem' = None /\ UNCHANGED <<keychain, clobbered>>
  /\ UNCHANGED <<file, locked, paired, misread>>

(* keychainStore.SavePeer and RemovePeer: the source first. *)
KeychainSavePeer(p) ==
  /\ pc = "ready" /\ putPeers(mem.peers \cup {p})
  /\ mem' = [mem EXCEPT !.peers = @ \cup {p}]
  /\ paired' = paired \cup {p}
  /\ UNCHANGED <<pc, file, made, locked, misread>>

KeychainRemovePeer(p) ==
  /\ pc = "ready" /\ putPeers(mem.peers \ {p})
  /\ mem' = [mem EXCEPT !.peers = @ \ {p}]
  /\ paired' = paired \ {p}
  /\ UNCHANGED <<pc, file, made, locked, misread>>

(* The Keychain becomes usable, or not, between any two calls. *)
LockChanges ==
  /\ pc \notin {"legacy", "saving"}
  /\ locked' = ~locked
  /\ UNCHANGED <<pc, file, keychain, mem, made, paired, misread, clobbered>>

StoreNext ==
  \/ Setup \/ Saved \/ Launch \/ Kill \/ LockChanges
  \/ \E p \in Peers : FileSavePeer(p) \/ FileRemovePeer(p)
  \/ \E p \in Peers : KeychainSavePeer(p) \/ KeychainRemovePeer(p)
  \/ MigrateLegacyFile \/ MigrateLegacyFileIdentity \/ MigrateLegacyFilePeers
  \/ MigrateLegacyFileRemove
  \/ MigrateLegacyStore \/ MigrateLegacyStoreFile \/ MigrateLegacyStoreIdentity
  \/ MigrateLegacyStorePeers \/ MigrateLegacyStoreRemove
  \/ LoadTrust \/ LoadPeers \/ NewIdentity

StoreSpec == StoreInit /\ [][StoreNext]_storeVars

-----------------------------------------------------------------------------
(* Whatever step of a migration fails and wherever the app is killed, a    *)
(* host that was paired and not forgotten is in the Keychain or still in   *)
(* the file, as long as the file was written whole and no write to the     *)
(* Keychain followed a read that had hidden what is there; and the store   *)
(* in memory is what the Keychain holds, so that its next write takes no   *)
(* pairing away, unless the read of the peers hid them (migrateLegacyFile, *)
(* migrateLegacyStore, keychainStore).                                     *)
TrustKept ==
  /\ \/ clobbered \/ file = Torn
     \/ \A p \in paired :
          p \in listed(keychain.peers) \/ (file # None /\ p \in listed(file.peers))
  /\ pc = "ready" =>
       mem.id = keychain.id /\ ("peers" \in misread \/ mem.peers = listed(keychain.peers))

(* store.go says of its migration that it "can never clobber newer         *)
(* secure-storage data", and RemoteAUCore.swift of its own that it "can    *)
(* never overwrite newer Keychain data": no write of a migration takes a   *)
(* host out of the Keychain.                                               *)
MigrationNeverClobbers ==
  [][LET migrating == pc \in {"swiftIdentity", "swiftPeers", "goIdentity", "goPeers"}
     IN migrating => listed(keychain.peers) \subseteq listed(keychain'.peers)]_storeVars

(* What the migration is for: a set-up store knows the hosts paired. *)
TrustUsed == pc = "ready" => paired \subseteq mem.peers
=============================================================================

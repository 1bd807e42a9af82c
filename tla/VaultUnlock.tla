----------------------------- MODULE VaultUnlock -----------------------------
(***************************************************************************)
(* The keys of one vault (crates/seance-vault/src/lib.rs, storage.rs):    *)
(* creating it, unlocking it with the passphrase or with the device,      *)
(* rotating the passphrase and enrolling the device.                      *)
(*                                                                         *)
(* The master key is wrapped by a passphrase in the recovery bundle and   *)
(* by a device key in the enrollment; the device key is in the operating  *)
(* system's key store.  Every SQL statement and every key store call is a *)
(* step; each can fail, and the process can die between two of them.      *)
(* Authenticated decryption succeeds exactly with the key that wrapped.   *)
(***************************************************************************)
EXTENDS Integers

CONSTANTS Passphrases,  \* passphrases a user enters
          DeviceKeys,   \* bound: device keys generated, one per enrollment
          MaxDeaths,    \* bound: crashes
          MaxFaults,    \* bound: failing statements and key store calls
          Absent        \* absent

ASSUME KeysAssumption == Absent \notin Passphrases \cup DeviceKeys
ASSUME FaultsAssumption == MaxDeaths \in Nat /\ MaxFaults \in Nat

VARIABLES
    headerRow,  \* vault_header has a row
    bundle,     \* passphrase that opens the recovery bundle, or Absent
    enrollment, \* device key that opens this device's enrollment, or Absent
    message,    \* local_state device unlock message: a warning is stored
    keyring,    \* device key in the key store, or Absent
    fresh,      \* device keys not generated yet
    loaded,     \* the VaultStore holds the header
    unlocked,   \* the VaultStore holds the master key
    doing,      \* the call in progress: its name, next statement and passphrase
    acked,      \* the passphrase of the last create or rotate that returned
    tried,      \* new passphrases of the rotations begun since then
    torn,       \* a rotation was cut short after DELETE and before INSERT
    unnoticed,  \* an enrollment replaced the key store's key, then was cut short or
                \* failed to store its warning
    deaths, faults

disk == <<headerRow, bundle, enrollment, message, keyring>>
promises == <<acked, tried, torn, unnoticed>>
unlockVars == <<headerRow, bundle, enrollment, message, keyring, fresh, loaded, unlocked, doing,
                promises, deaths, faults>>

NoCall == [call |-> "idle", at |-> "start", pass |-> Absent, key |-> Absent]

UnlockInit ==
    /\ headerRow = FALSE /\ bundle = Absent /\ enrollment = Absent /\ message = FALSE
    /\ keyring = Absent
    /\ fresh = DeviceKeys
    /\ loaded = FALSE /\ unlocked = FALSE
    /\ doing = NoCall
    /\ acked = Absent /\ tried = {} /\ torn = FALSE /\ unnoticed = FALSE
    /\ deaths = 0 /\ faults = 0

Goto(where) == doing' = [doing EXCEPT !.at = where]

---------------------------------------------------------------------------
\* Creating and rotating

\* create_vault: VaultAlreadyInitialized if a header is loaded.
BeginCreate(p) ==
    /\ doing = NoCall /\ ~loaded
    /\ doing' = [call |-> "create", at |-> "header", pass |-> p, key |-> Absent]
    /\ UNCHANGED <<disk, fresh, loaded, unlocked, promises, deaths, faults>>

InsertHeader ==
    /\ doing.call = "create" /\ doing.at = "header"
    /\ ~headerRow
    /\ headerRow' = TRUE
    /\ Goto("delete")
    /\ UNCHANGED <<bundle, enrollment, message, keyring, fresh, loaded, unlocked, promises, deaths, faults>>

\* A create that failed after its first statement has left the row: the insert
\* violates the primary key.
HeaderExists ==
    /\ doing.call = "create" /\ doing.at = "header"
    /\ headerRow
    /\ doing' = NoCall
    /\ UNCHANGED <<disk, fresh, loaded, unlocked, promises, deaths, faults>>

\* rotate_passphrase: the old passphrase opens the bundle.
BeginRotate(old, new) ==
    /\ doing = NoCall /\ loaded
    /\ bundle = old
    /\ doing' = [call |-> "rotate", at |-> "delete", pass |-> new, key |-> Absent]
    /\ tried' = tried \cup {new}
    /\ UNCHANGED <<disk, fresh, loaded, unlocked, acked, torn, unnoticed, deaths, faults>>

\* Mutant: the old bundle is kept and found first.
KeepBundle == bundle

\* What load_recovery_bundle finds after the first statement.
BundleAfterDelete == Absent

\* insert_recovery_bundle deletes every bundle ...
DeleteBundles ==
    /\ doing.call \in {"create", "rotate"} /\ doing.at = "delete"
    /\ bundle' = BundleAfterDelete
    /\ Goto("insert")
    /\ UNCHANGED <<headerRow, enrollment, message, keyring, fresh, loaded, unlocked, promises, deaths, faults>>

\* ... and inserts the new one.
InsertBundle ==
    /\ doing.call \in {"create", "rotate"} /\ doing.at = "insert"
    /\ bundle' = IF bundle = Absent THEN doing.pass ELSE bundle
    /\ Goto("finish")
    /\ UNCHANGED <<headerRow, enrollment, message, keyring, fresh, loaded, unlocked, promises, deaths, faults>>

\* create_vault keeps header and key and enrolls the device.
FinishCreate ==
    /\ doing.call = "create" /\ doing.at = "finish"
    /\ loaded' = TRUE /\ unlocked' = TRUE
    /\ acked' = doing.pass /\ tried' = {}
    /\ doing' = [call |-> "enroll", at |-> "keyring", pass |-> Absent, key |-> Absent]
    /\ UNCHANGED <<disk, fresh, torn, unnoticed, deaths, faults>>

\* rotate_passphrase updates the header's KDF parameters, which no unlock reads.
FinishRotate ==
    /\ doing.call = "rotate" /\ doing.at = "finish"
    /\ acked' = doing.pass /\ tried' = {}
    /\ doing' = NoCall
    /\ UNCHANGED <<disk, fresh, loaded, unlocked, torn, unnoticed, deaths, faults>>

---------------------------------------------------------------------------
\* Unlocking and locking

\* unlock_with_passphrase: the bundle is there and the passphrase opens it.
UnlockWithPassphrase(p) ==
    /\ doing = NoCall /\ loaded
    /\ bundle = p
    /\ unlocked' = TRUE
    /\ doing' = [call |-> "enroll", at |-> "keyring", pass |-> Absent, key |-> Absent]
    /\ UNCHANGED <<disk, fresh, loaded, promises, deaths, faults>>

\* persist_device_unlock_message: the statement may fail and its error is dropped.
Persist(m, f) ==
    \/ message' = m /\ faults' = f
    \/ f < MaxFaults /\ faults' = f + 1 /\ UNCHANGED message

\* try_unlock_with_device: with the key in the key store that wrapped the
\* enrollment it unlocks and clears the warning.
UnlockWithDevice ==
    /\ doing = NoCall /\ loaded
    /\ enrollment # Absent /\ keyring = enrollment
    /\ unlocked' = TRUE
    /\ Persist(FALSE, faults)
    /\ UNCHANGED <<headerRow, bundle, enrollment, keyring, fresh, loaded, doing, promises, deaths>>

\* With another key decryption fails: a warning is stored and the call is false.
DeviceKeyMismatch ==
    /\ doing = NoCall /\ loaded
    /\ enrollment # Absent /\ keyring \notin {Absent, enrollment}
    /\ Persist(TRUE, faults)
    /\ UNCHANGED <<headerRow, bundle, enrollment, keyring, fresh, loaded, unlocked, doing, promises, deaths>>

\* The key store is not available in this build: a warning is stored.
DeviceKeyUnavailable ==
    /\ doing = NoCall /\ loaded
    /\ enrollment # Absent
    /\ faults < MaxFaults
    /\ Persist(TRUE, faults + 1)
    /\ UNCHANGED <<headerRow, bundle, enrollment, keyring, fresh, loaded, unlocked, doing, promises, deaths>>

Lock ==
    /\ doing = NoCall /\ unlocked
    /\ unlocked' = FALSE
    /\ UNCHANGED <<disk, fresh, loaded, doing, promises, deaths, faults>>

---------------------------------------------------------------------------
\* refresh_device_enrollment: a fresh device key goes to the key store, then
\* the master key wrapped with it to the enrollment row.

SetSecret(k) ==
    /\ doing.call = "enroll" /\ doing.at = "keyring"
    /\ k \in fresh
    /\ fresh' = fresh \ {k}
    /\ keyring' = k
    /\ doing' = [doing EXCEPT !.at = "row", !.key = k]
    /\ UNCHANGED <<headerRow, bundle, enrollment, message, loaded, unlocked, promises, deaths, faults>>

\* Mutant: an existing enrollment row is kept.
KeptEnrollment(k) == IF enrollment = Absent THEN k ELSE enrollment

\* upsert_device_enrollment replaces the wrapped key.
UpsertedEnrollment(k) == k

UpsertEnrollment ==
    /\ doing.call = "enroll" /\ doing.at = "row"
    /\ enrollment' = UpsertedEnrollment(doing.key)
    /\ Goto("message")
    /\ unnoticed' = FALSE
    /\ UNCHANGED <<headerRow, bundle, message, keyring, fresh, loaded, unlocked, acked, tried, torn,
                   deaths, faults>>

ClearMessage ==
    /\ doing.call = "enroll" /\ doing.at = "message"
    /\ Persist(FALSE, faults)
    /\ doing' = NoCall
    /\ UNCHANGED <<headerRow, bundle, enrollment, keyring, fresh, loaded, unlocked, promises, deaths>>

---------------------------------------------------------------------------
\* Failures

\* Enrolling fails at the key store or at the row ...
EnrollmentFails ==
    /\ doing.call = "enroll" /\ doing.at \in {"keyring", "row"}
    /\ faults < MaxFaults /\ faults' = faults + 1
    /\ Goto("warn")
    /\ UNCHANGED <<disk, fresh, loaded, unlocked, promises, deaths>>

\* Mutant: the message of the last call is kept.
ForgetEnrollmentFailure == message

EnrollmentFailureMessage == TRUE

\* ... and a warning is stored, if it can be; the call that enrolled succeeds.
StoreWarning ==
    /\ doing.call = "enroll" /\ doing.at = "warn"
    /\ Persist(EnrollmentFailureMessage, faults)
    /\ unnoticed' = (unnoticed \/ (faults' # faults /\ doing.key # Absent))
    /\ doing' = NoCall
    /\ UNCHANGED <<headerRow, bundle, enrollment, keyring, fresh, loaded, unlocked, acked, tried, torn,
                   deaths>>

\* Where a call that stops leaves what it was replacing half replaced.
BetweenBundles == doing.call = "rotate" /\ doing.at = "insert"
BetweenStores == doing.call = "enroll" /\ doing.at \in {"row", "warn"} /\ doing.key # Absent

\* A statement of create or rotate fails: the call returns the error.
StatementFails ==
    /\ doing.call \in {"create", "rotate"}
    /\ doing.call = "create" => doing.at # "finish"
    /\ faults < MaxFaults /\ faults' = faults + 1
    /\ doing' = NoCall
    /\ torn' = (torn \/ BetweenBundles)
    /\ UNCHANGED <<disk, fresh, loaded, unlocked, acked, tried, unnoticed, deaths>>

\* VaultStore::open reads the header; the process may have died in any call.
Reopen ==
    /\ deaths < MaxDeaths /\ deaths' = deaths + 1
    /\ loaded' = headerRow /\ unlocked' = FALSE
    /\ doing' = NoCall
    /\ torn' = (torn \/ BetweenBundles)
    /\ unnoticed' = (unnoticed \/ BetweenStores)
    /\ UNCHANGED <<disk, fresh, acked, tried, faults>>

UnlockNext ==
    \/ \E p \in Passphrases :
          \/ BeginCreate(p)
          \/ UnlockWithPassphrase(p)
          \/ \E q \in Passphrases : BeginRotate(p, q)
    \/ \E k \in DeviceKeys : SetSecret(k)
    \/ InsertHeader \/ HeaderExists \/ DeleteBundles \/ InsertBundle \/ FinishCreate \/ FinishRotate
    \/ UnlockWithDevice \/ DeviceKeyMismatch \/ DeviceKeyUnavailable \/ Lock
    \/ UpsertEnrollment \/ ClearMessage
    \/ EnrollmentFails \/ StoreWarning \/ StatementFails \/ Reopen

UnlockSpec == UnlockInit /\ [][UnlockNext]_unlockVars

---------------------------------------------------------------------------
\* Properties

\* Disk, key store and store are in one of their states.
UnlockTypeOK ==
    /\ {headerRow, message, loaded, unlocked, torn, unnoticed} \subseteq BOOLEAN
    /\ bundle \in Passphrases \cup {Absent}
    /\ {enrollment, keyring} \subseteq DeviceKeys \cup {Absent}
    /\ fresh \subseteq DeviceKeys
    /\ doing.call \in {"idle", "create", "rotate", "enroll"}
    /\ acked \in Passphrases \cup {Absent}
    /\ tried \subseteq Passphrases

\* status().device_unlock_available
Available == loaded /\ ~message /\ enrollment # Absent

\* Between calls, device unlock is offered only if it works.  Enrolling writes to
\* two stores; a failure between them is recorded, survives restarts and is taken
\* back only by what makes the two agree again.  What the code cannot notice is an
\* enrollment cut short between the two, or whose warning is not stored either.
OfferedDeviceUnlockWorks ==
    doing = NoCall /\ ~unnoticed /\ Available => keyring = enrollment

\* The same, in well-typed states of disk, key store and store.
DeviceUnlockHonest == UnlockTypeOK /\ OfferedDeviceUnlockWorks

\* The passphrase that create or rotate confirmed opens the vault, or one a later
\* rotation was asked for, wherever that rotation failed or died -- except between
\* the two statements that replace the bundle.
AckedPassphraseOpens ==
    acked # Absent =>
        /\ headerRow
        /\ bundle \in {acked} \cup tried \/ torn \/ BetweenBundles

\* README.md: "unlock once with the recovery passphrase ... to re-enroll this
\* device": an enrollment that no failure interrupts makes device unlock work,
\* also after one that a crash left half written.
PassphraseUnlockReenrolls ==
    [][doing.call = "enroll" /\ doing.at # "warn" /\ doing' = NoCall
            /\ deaths' = deaths /\ faults' = faults
        => Available' /\ keyring' = enrollment']_unlockVars

=============================================================================

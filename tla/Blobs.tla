-------------------------------- MODULE Blobs --------------------------------
(***************************************************************************)
(* One content-addressed blob and its uploads: BlobStore and the blob      *)
(* messages of ws/server.ts, BlobUploader of the plugin, and what the      *)
(* operation processor asks of the blob of an operation.  Requests of one  *)
(* connection are handled in turn, those of several interleave where the   *)
(* handlers await.  (gcUnreferenced does nothing with the Postgres store.) *)
(***************************************************************************)
EXTENDS Naturals

CONSTANTS
    Uploader,       \* uploads of the same bytes, each on a connection of its own
    BlobVault,
    VaultOfUpload,  \* the vault of each
    MaxBreaks       \* bound: uploads that break off, restarts of the server

ASSUME BlobsAssumption == VaultOfUpload \in [Uploader -> BlobVault] /\ MaxBreaks \in Nat

VARIABLES
    blob,       \* blobs.state: none, pending, verified
    object,     \* whether the object store has the bytes
    owners,     \* pendingBlobOwners
    holders,    \* vaults with an accepted operation that refers to the blob
    upload,     \* where each upload is
    restarted,  \* history: the server has lost its memory
    breaks

blobVars == <<blob, object, owners, holders, upload, restarted, breaks>>

BlobsInit ==
    /\ blob = "none" /\ object = FALSE
    /\ owners = {} /\ holders = {}
    /\ upload = [u \in Uploader |-> "init"]
    /\ restarted = FALSE /\ breaks = 0

At(u, here, there) == upload[u] = here /\ upload' = [upload EXCEPT ![u] = there]

\* initUpload, up to its first await: a verified blob is not sent again.
InitReads(u) ==
    /\ At(u, "init", IF blob = "verified" THEN "uploaded" ELSE "registering")
    /\ UNCHANGED <<blob, object, owners, holders, restarted, breaks>>

\* The row is written back as pending, whatever it has become.
InitSaves(u) ==
    /\ At(u, "registering", "put")
    /\ blob' = "pending"
    /\ owners' = owners \cup {VaultOfUpload[u]}
    /\ UNCHANGED <<object, holders, restarted, breaks>>

\* Mutant of PutObject: the object store takes an object once.
PutOnce(u) ==
    /\ At(u, "put", IF object THEN "failed" ELSE "complete")
    /\ object' = TRUE
    /\ UNCHANGED <<blob, owners, holders, restarted, breaks>>

PutObject(u) ==
    /\ At(u, "put", "complete")
    /\ object' = TRUE
    /\ UNCHANGED <<blob, owners, holders, restarted, breaks>>

\* completeUpload: the object is read and hashed, then the row is verified.
CompleteReads(u) ==
    /\ At(u, "complete", IF blob # "none" /\ object THEN "verifying" ELSE "failed")
    /\ UNCHANGED <<blob, object, owners, holders, restarted, breaks>>

CompleteSaves(u) ==
    /\ At(u, "verifying", "uploaded")
    /\ blob' = "verified"
    /\ UNCHANGED <<object, owners, holders, restarted, breaks>>

\* file_op: assertOpContentAccess, validatePayload, then the reference.
Refer(u) ==
    LET v == VaultOfUpload[u]
        answer == CASE v \notin owners \cup holders -> "forbidden"
                    [] v \in owners \cup holders /\ blob # "verified" -> "missing"
                    [] OTHER -> "accepted"
    IN  /\ At(u, "uploaded", answer)
        /\ IF answer = "accepted"
           THEN holders' = holders \cup {v} /\ owners' = owners \ {v}
           ELSE UNCHANGED <<holders, owners>>
        /\ UNCHANGED <<blob, object, restarted, breaks>>

\* A connection or an upload breaks off.
BreakOff(u) ==
    /\ breaks < MaxBreaks
    /\ upload[u] \in {"registering", "put", "complete", "verifying", "uploaded"}
    /\ upload' = [upload EXCEPT ![u] = "failed"]
    /\ breaks' = breaks + 1
    /\ UNCHANGED <<blob, object, owners, holders, restarted>>

\* The plugin asks anew for a failed upload: the note is edited again.
UploadAgain(u) ==
    /\ At(u, "failed", "init")
    /\ UNCHANGED <<blob, object, owners, holders, restarted, breaks>>

RestartServer ==
    /\ breaks < MaxBreaks
    /\ owners' = {} /\ restarted' = TRUE
    /\ upload' = [u \in Uploader |-> IF upload[u] \in {"registering", "verifying"}
                                     THEN "failed" ELSE upload[u]]
    /\ breaks' = breaks + 1
    /\ UNCHANGED <<blob, object, holders>>

BlobsNext ==
    \/ \E u \in Uploader :
          \/ InitReads(u) \/ InitSaves(u) \/ PutObject(u) \/ CompleteReads(u) \/ CompleteSaves(u)
          \/ Refer(u) \/ BreakOff(u) \/ UploadAgain(u)
    \/ RestartServer

UploadProgress ==
    \E u \in Uploader : \/ InitReads(u) \/ InitSaves(u) \/ PutObject(u) \/ CompleteReads(u)
                        \/ CompleteSaves(u) \/ Refer(u)

BlobsSpec == BlobsInit /\ [][BlobsNext]_blobVars /\ WF_blobVars(UploadProgress)
-----------------------------------------------------------------------------
(***************************************************************************)
(* Properties.                                                             *)
(***************************************************************************)
\* spec-core-protocol.md:214, in time: a blob that a file refers to and that another
\* upload has put back to pending is verified again, unless that upload breaks off.
ReferencedIsServed == (holders # {}) ~> (blob = "verified" \/ breaks > 0)

\* A vault is refused a blob it has sent only if the blob was there already from another
\* vault, or the server has restarted.
OwnUploadIsUsable ==
    \A u \in Uploader :
       upload[u] = "forbidden" => restarted \/ holders \ {VaultOfUpload[u]} # {}
                                     \/ \E v \in owners : v # VaultOfUpload[u]

\* What was uploaded serves the vault that has sent it, and whoever refers to it.
UploadsServe == []OwnUploadIsUsable /\ ReferencedIsServed
=============================================================================

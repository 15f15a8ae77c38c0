---------------------------- MODULE IdempotencyStore ----------------------------
(***************************************************************************)
(* One row of idempotency_records, that of one (scope, key), and the       *)
(* statements its two clients, Idempotency and SystemOperationLock, update *)
(* it with.  Times are ticks of one clock; time 0 stands for NULL.         *)
(***************************************************************************)
EXTENDS Naturals

CONSTANTS
  Fingerprints,   \* request fingerprints: a payload or an operation id
  NoFingerprint,
  TTL,            \* DefaultTTL, SystemOperationTTL
  Lease,          \* ProcessingTimeout
  MaxTime         \* bound: the clock

ASSUME StoreConstants ==
  /\ NoFingerprint \notin Fingerprints
  /\ TTL \in Nat \ {0} /\ Lease \in Nat \ {0} /\ MaxTime \in Nat \ {0}

VARIABLES
  record,   \* the row, or Absent
  lastId,   \* the last value of the table's sequence
  clock

store == <<record, lastId, clock>>

Statuses == {"none", "processing", "succeeded", "failed_retryable"}

Absent == [id |-> 0, fingerprint |-> NoFingerprint, status |-> "none",
           lockedUntil |-> 0, expiresAt |-> 0, response |-> NoFingerprint]

\* response: the fingerprint of the request whose result response_body holds.
Records ==
  [id : 1 .. MaxTime, fingerprint : Fingerprints, status : Statuses \ {"none"},
   lockedUntil : Nat, expiresAt : Nat \ {0},
   response : Fingerprints \cup {NoFingerprint}] \cup {Absent}

StoreTypeOK ==
  /\ record \in Records /\ lastId \in 0 .. MaxTime /\ clock \in 1 .. MaxTime
  /\ record.id <= lastId

StoreInit == record = Absent /\ lastId = 0 /\ clock = 1

\* INSERT ... ON CONFLICT (scope, idempotency_key_hash) DO NOTHING.
CreateProcessing(fingerprint, start) ==
  IF record = Absent
  THEN /\ record' = [id |-> lastId + 1, fingerprint |-> fingerprint,
                     status |-> "processing", lockedUntil |-> start + Lease,
                     expiresAt |-> start + TTL, response |-> NoFingerprint]
       /\ lastId' = lastId + 1
  ELSE UNCHANGED <<record, lastId>>

\* Mutant: the lock is not looked at.
Reclaimable_AnyLock(id, from, now) == record.id = id /\ record.status = from

\* The WHERE of TryReclaim.
Reclaimable(id, from, now) ==
  record.id = id /\ record.status = from /\ record.lockedUntil <= now

\* TryReclaim leaves the fingerprint and the old response as they are.
TryReclaim(id, from, now) ==
  record' = IF Reclaimable(id, from, now)
            THEN [record EXCEPT !.status = "processing", !.lockedUntil = now + Lease,
                                !.expiresAt = now + TTL]
            ELSE record

\* The WHERE of ExtendProcessingLock.
Extendable(id, fingerprint) ==
  /\ record.id = id /\ record.status = "processing"
  /\ record.fingerprint = fingerprint

ExtendProcessingLock(id, fingerprint) ==
  record' = IF Extendable(id, fingerprint)
            THEN [record EXCEPT !.lockedUntil = clock + Lease, !.expiresAt = clock + TTL]
            ELSE record

\* Both marks update by id alone.
StoreSucceeded(id, response, expiresAt) ==
  record' = IF record.id = id
            THEN [record EXCEPT !.status = "succeeded", !.response = response,
                                !.lockedUntil = 0, !.expiresAt = expiresAt]
            ELSE record

StoreFailedRetryable(id, lockedUntil, expiresAt) ==
  record' = IF record.id = id
            THEN [record EXCEPT !.status = "failed_retryable",
                                !.lockedUntil = lockedUntil, !.expiresAt = expiresAt]
            ELSE record

\* Mutant: the row is deleted when its lock ends.
Deletable_Unlocked == record # Absent /\ record.lockedUntil <= clock

Deletable == record # Absent /\ record.expiresAt <= clock

\* cleanupOnce: DeleteExpired.
DeleteExpired ==
  /\ Deletable
  /\ record' = Absent
  /\ UNCHANGED <<lastId, clock>>

=============================================================================

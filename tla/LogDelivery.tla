---------------------------- MODULE LogDelivery -----------------------------
(***************************************************************************)
(* Log collection: the application adds records to the storage, the upload *)
(* strategy decides when to send a bucket of them, requests wait for a     *)
(* delivery status, and a status or a timeout settles the bucket.          *)
(*                                                                         *)
(* The operations channel is what log collection can see of it: a CONNECT  *)
(* carries every service, a KAASYNC the pending ones, and what is on its   *)
(* way is lost with the connection.  The link is "down", "up" (connected,  *)
(* but the CONNECT could not be built), "authorizing" or "authorized".  A  *)
(* timeout replaces the access point, which closes the connection and      *)
(* keeps the state of the channel: it is "deaf" when it goes on syncing    *)
(* over a connection that has not seen a CONNECT, and "mute" when it waits *)
(* there for the answer to one.                                            *)
(*                                                                         *)
(* The server handles requests in any order, and none before a CONNECT.    *)
(* KAA_TIME is read only to compare it with a deadline, so it is the       *)
(* choice of how the comparison comes out.                                 *)
(***************************************************************************)
EXTENDS LogStorage, Sequences, SequencesExt

CONSTANTS BucketSize,                        \* log_batch_size
          ThresholdVolume, ThresholdCount,   \* of the upload strategy
          BucketIds,         \* how many values log_bucket_id has: 2^16
          ListMayEnd,        \* a timeout may find no next access point
          MaxFailures, MaxTimeouts, MaxDrops \* bounds on what goes wrong

ASSUME DeliveryAssumption ==
  /\ BucketSize \in Nat \ {0}
  /\ ThresholdVolume \in Nat \ {0} /\ ThresholdCount \in Nat \ {0}
  /\ BucketIds \in Nat /\ BucketIds > 1
  /\ ListMayEnd \in BOOLEAN
  /\ MaxFailures \in Nat /\ MaxTimeouts \in Nat /\ MaxDrops \in Nat

VARIABLES
  storage,        \* the log storage, see LogStorage
  log_bucket_id,
  timeouts,       \* buckets whose status is awaited, newest first
  retrying,       \* upload_retry_ts # 0
  pending,        \* the channel has the logging service to sync
  link, requests, statuses,   \* the connection and what is on its way
  renewing,                   \* a new list of access points was asked for
  handling, inbox,            \* the server sync being handled, what is left of it
  added, delivered,           \* ghosts: records added, records the server has,
  astray,                     \* a search has begun at a freed record,
  outlived,                   \* a request has been on its way without a timer
  failures, timedOut, drops   \* budgets

client  == <<storage, log_bucket_id, timeouts, retrying, pending>>
flight  == <<requests, statuses>>
network == <<link, flight, renewing>>
reading == <<handling, inbox>>
budgets == <<failures, timedOut, drops>>
ghosts  == <<delivered, astray, outlived>>
vars == <<client, network, reading, added, ghosts, budgets>>

BucketId == 0 .. BucketIds - 1
Request == [bucket : BucketId, records : SUBSET Records]
Status == [bucket : BucketId, ok : BOOLEAN]
LinkState == {"down", "up", "authorizing", "authorized", "deaf", "mute"}
-----------------------------------------------------------------------------
(* The upload strategy, and what it makes the channel do. *)

(* Mutant: the volume of the records is not looked at. *)
DecideByCount(elapsed) ==
  IF retrying THEN elapsed ELSE storage'.count >= ThresholdCount

(* After a failed delivery only the end of the retry period counts. *)
Decide(elapsed) ==
  IF retrying THEN elapsed
  ELSE \/ storage'.unmarked >= ThresholdVolume
       \/ storage'.count >= ThresholdCount

UpdateStorage ==
  \E elapsed \in BOOLEAN :
    /\ pending' = (pending \/ Decide(elapsed))
    /\ retrying' = (retrying /\ ~elapsed)

LoseFlight == requests' = {} /\ statuses' = <<>>

(* kaa_tcp_channel_set_access_point: buffers and channel_state stay, and   *)
(* kaa_tcp_channel_authorize does nothing unless that is UNDEFINED.  A     *)
(* CONNECT that has not been written goes to the next server.              *)
ReplaceAccessPoint ==
  \/ link \in {"down", "up"} /\ link' = "down" /\ LoseFlight
  \/ link \in {"authorized", "deaf"} /\ link' = "deaf" /\ LoseFlight
  \/ link \in {"authorizing", "mute"} /\ link' = "mute" /\ LoseFlight
  \/ link = "authorizing" /\ statuses = <<>> /\ UNCHANGED <<link, flight>>

(* kaa_bootstrap_manager_on_access_point_failed: at the end of the list a   *)
(* bootstrap server is asked for another.                                  *)
AccessPointFailed ==
  \/ ~renewing /\ ReplaceAccessPoint /\ UNCHANGED renewing
  \/ (ListMayEnd \/ renewing) /\ renewing' = TRUE /\ UNCHANGED <<link, flight>>

(* Every bucket with a timer, expired or not, is up for another try. *)
Retry(st) == UnmarkBuckets(st, ToSet(timeouts))

(* is_timeout, when the oldest deadline has passed. *)
HandleTimeout(st) ==
  /\ timeouts # <<>> /\ timedOut < MaxTimeouts
  /\ timedOut' = timedOut + 1
  /\ storage' = Retry(st)
  /\ timeouts' = <<>>
  /\ retrying' = FALSE
  /\ AccessPointFailed
  /\ outlived' = (outlived \/ requests' # {} \/ statuses' # <<>>)
  /\ UNCHANGED pending

(* kaa_logging_add_record *)
AddRecord ==
  /\ ~handling /\ added < MaxRecords
  /\ added' = added + 1
  /\ LET st == AddLogRecord(storage, added + 1) IN
       \/ HandleTimeout(st)
       \/ /\ storage' = st
          /\ UpdateStorage
          /\ UNCHANGED <<timeouts, timedOut, network, outlived>>
  /\ UNCHANGED <<log_bucket_id, reading, delivered, astray, failures, drops>>
-----------------------------------------------------------------------------
(* A client sync is built. *)

(* Mutant: the id is not kept to its width. *)
WideBucketId == log_bucket_id + 1

NextBucketId == (log_bucket_id + 1) % BucketIds
Outstanding ==
  ToSet(timeouts) \cup {q.bucket : q \in requests}
  \cup {storage.logs[r] : r \in Stored(storage)} \cup {s.bucket : s \in ToSet(statuses)}
HasLogs == storage.count > 0 /\ storage.unmarked > 0

(* The logging extension: a new bucket with as much as fits.  A server that *)
(* has not seen a CONNECT takes no notice of it.                           *)
WriteBucket(S) ==
  /\ log_bucket_id' = NextBucketId
  /\ storage' = Mark(storage, S, NextBucketId)
  /\ timeouts' = <<NextBucketId>> \o timeouts
  /\ requests' = IF link = "deaf" THEN requests
                 ELSE requests \cup {[bucket |-> NextBucketId, records |-> S]}

(* No record fits, or the bucket would get the id of unmarked records: the *)
(* whole client sync fails.                                                *)
FailToWrite ==
  /\ log_bucket_id' = NextBucketId
  /\ UNCHANGED <<storage, timeouts, requests>>

(* kaa_logging_request_get_size, then kaa_logging_request_serialize *)
SerializeLogs(sent, failed) ==
  IF ~HasLogs
  THEN sent /\ UNCHANGED <<log_bucket_id, storage, timeouts, requests, astray>>
  ELSE /\ astray' = (astray \/ Dangling(storage))
       /\ \E start \in SearchStarts(storage) :
            LET S == Fitting(storage, start, BucketSize) IN
              IF NextBucketId = 0 \/ S = {} THEN failed /\ FailToWrite
                                            ELSE sent /\ WriteBucket(S)

(* Bound: the model ends where an id comes round while its bucket is still *)
(* unsettled, 2^16 - 1 buckets later.                                      *)
IdIsFree == NextBucketId \in Outstanding => NextBucketId = 0

(* kaa_tcp_channel_authorize, on a new connection.  When it fails there is *)
(* nothing to write, so nothing is tried again on this one.                *)
Authorize ==
  /\ ~handling /\ IdIsFree
  /\ link = "down"
  /\ SerializeLogs(link' = "authorizing", link' = "up")
  /\ pending' = FALSE
  /\ UNCHANGED <<retrying, statuses, renewing, reading, added, delivered, outlived, budgets>>

(* kaa_tcp_channel_connack_message_callback *)
Connack ==
  /\ link = "authorizing"
  /\ link' = "authorized"
  /\ UNCHANGED <<client, flight, renewing, reading, added, ghosts, budgets>>

(* kaa_tcp_channel_write_pending_services *)
Sync ==
  /\ ~handling /\ IdIsFree
  /\ link \in {"authorized", "deaf"} /\ pending
  /\ SerializeLogs(TRUE, TRUE)
  /\ pending' = FALSE
  /\ UNCHANGED <<link, retrying, statuses, renewing, reading, added, delivered, outlived, budgets>>
-----------------------------------------------------------------------------
(* A server sync is handled: kaa_logging_handle_server_sync. *)

(* The extension holds the statuses the server had by then. *)
ReceiveSync ==
  /\ ~handling /\ link = "authorized"
  /\ \E n \in 1 .. Len(statuses) :
       /\ inbox' = SubSeq(statuses, 1, n)
       /\ statuses' = SubSeq(statuses, n + 1, Len(statuses))
  /\ handling' = TRUE
  /\ UNCHANGED <<client, link, requests, renewing, added, ghosts, budgets>>

(* find_by_bucket_id assigns the id it is to compare with. *)
FindByBucketId(entry, bucket) == bucket # 0

(* Mutant: the first status stops every timer. *)
RemoveAllRequests(bucket) == <<>>

(* kaa_list_remove_first: the newest timer the predicate accepts goes. *)
RemoveRequest(bucket) ==
  LET found == {i \in DOMAIN timeouts : FindByBucketId(timeouts[i], bucket)}
  IN  IF found = {} THEN timeouts ELSE RemoveAt(timeouts, Min(found))

(* Mutant: a failed bucket is dropped as well. *)
SettleAnyway(status) == RemoveByBucketId(storage, status.bucket)

Settle(status) ==
  IF status.ok THEN RemoveByBucketId(storage, status.bucket)
  ELSE UnmarkBuckets(storage, {status.bucket})

(* One delivery status; a failure puts off the next upload. *)
HandleStatus ==
  /\ handling /\ inbox # <<>>
  /\ inbox' = Tail(inbox)
  /\ timeouts' = RemoveRequest(Head(inbox).bucket)
  /\ storage' = Settle(Head(inbox))
  /\ retrying' = (retrying \/ ~Head(inbox).ok)
  /\ UNCHANGED <<log_bucket_id, pending, network, handling, added, ghosts, budgets>>

FinishSync ==
  /\ handling /\ inbox = <<>>
  /\ handling' = FALSE
  /\ storage' = storage
  /\ UpdateStorage
  /\ UNCHANGED <<log_bucket_id, timeouts, network, inbox, added, ghosts, budgets>>
-----------------------------------------------------------------------------
(* The server and the connection. *)

Answer(q, ok) ==
  /\ requests' = requests \ {q}
  /\ statuses' = statuses \o <<[bucket |-> q.bucket, ok |-> ok]>>
  /\ delivered' = IF ok THEN delivered \cup q.records ELSE delivered
  /\ UNCHANGED <<client, link, renewing, reading, added, astray, outlived, timedOut, drops>>

StoreLogs == \E q \in requests : Answer(q, TRUE) /\ UNCHANGED failures

RejectLogs ==
  /\ failures < MaxFailures
  /\ \E q \in requests : Answer(q, FALSE)
  /\ failures' = failures + 1

(* kaa_tcp_channel_socket_io_error, which does reset the channel_state. *)
Drop ==
  /\ link # "down" /\ drops < MaxDrops
  /\ link' = "down" /\ LoseFlight
  /\ renewing' \in {renewing, renewing \/ ListMayEnd}
  /\ drops' = drops + 1
  /\ UNCHANGED <<client, reading, added, ghosts, failures, timedOut>>

(* The new list comes: its first access point replaces the present one. *)
Renew ==
  /\ ~handling /\ renewing
  /\ ReplaceAccessPoint
  /\ renewing' = FALSE
  /\ UNCHANGED <<client, reading, added, ghosts, budgets>>
-----------------------------------------------------------------------------
Init ==
  /\ storage = EmptyStorage
  /\ log_bucket_id = 0
  /\ timeouts = <<>>
  /\ retrying = FALSE /\ pending = FALSE
  /\ link = "down" /\ requests = {} /\ statuses = <<>> /\ renewing = FALSE
  /\ handling = FALSE /\ inbox = <<>>
  /\ added = 0 /\ delivered = {} /\ astray = FALSE /\ outlived = FALSE
  /\ failures = 0 /\ timedOut = 0 /\ drops = 0

Collector == AddRecord \/ Authorize \/ Connack \/ Sync \/ ReceiveSync \/ HandleStatus \/ FinishSync
Next == Collector \/ StoreLogs \/ RejectLogs \/ Drop \/ Renew

Spec == Init /\ [][Next]_vars

(* The collector's loop runs, the server answers; nobody has to log or fail. *)
Fairness ==
  /\ WF_vars(Authorize) /\ WF_vars(Connack) /\ WF_vars(Sync) /\ WF_vars(ReceiveSync)
  /\ WF_vars(HandleStatus) /\ WF_vars(FinishSync) /\ WF_vars(StoreLogs)

FairSpec == Spec /\ Fairness
-----------------------------------------------------------------------------
(* Every variable has values of its type. *)
TypeOK ==
  /\ StorageOK(storage, BucketId)
  /\ log_bucket_id \in BucketId
  /\ timeouts \in Seq(BucketId)
  /\ retrying \in BOOLEAN /\ pending \in BOOLEAN /\ handling \in BOOLEAN
  /\ link \in LinkState /\ renewing \in BOOLEAN
  /\ requests \subseteq Request
  /\ statuses \in Seq(Status) /\ inbox \in Seq(Status)
  /\ added \in 0 .. MaxRecords
  /\ delivered \subseteq Records /\ astray \in BOOLEAN /\ outlived \in BOOLEAN
  /\ failures \in Nat /\ timedOut \in Nat /\ drops \in Nat

(* The counters the upload strategy decides by, which are kept by hand in  *)
(* every operation of the storage, are those of the records in the list:   *)
(* through eviction of marked and unmarked records, failures and timeouts. *)
CountersMatch ==
  /\ storage.total = SizeOf(Stored(storage))
  /\ storage.unmarked = SizeOf(Unmarked(storage))
  /\ storage.count = Cardinality(Unmarked(storage))

(* kaa_list_insert_after(last_log_it) puts a new record at the tail, so    *)
(* that the list stays in the order records were added: last_log_it is the *)
(* last record whenever it is set.                                         *)
LastIsTail ==
  storage.last # NULL => storage.last \in Stored(storage)
                         /\ \A r \in Stored(storage) : r <= storage.last

(* first_unmarked leaves no unmarked record behind.                        *)
CursorPlaced ==
  storage.first # NULL => storage.first \in Stored(storage)
                          /\ \A r \in Unmarked(storage) : storage.first <= r

(* No bucket was given up, or all that was ever given up stays stored.     *)
NothingLeftBehind ==
  failures = 0 /\ (timedOut = 0 \/ (MaxStorage = 0 /\ ~outlived))

(* "Pointer to the first unmarked record position (with zero bucket_id)":  *)
(* first_unmarked names no freed record and none behind the first unmarked *)
(* one, however records are evicted and delivered; until a bucket fails,   *)
(* or one that timed out can be evicted or answered after all.             *)
CursorInStorage == NothingLeftBehind => CursorPlaced

(* "Max size of the log storage": what the records take never exceeds it.  *)
WithinMaxSize == MaxStorage # 0 => storage.total <= MaxStorage

InFlight == Cardinality(requests) + Len(statuses) + Len(inbox)

(* While a status can still come, a timer runs: the answer may be lost but *)
(* not the retry.  Holds although remove_request takes the wrong timer,    *)
(* because it takes one for every status, until a timeout has stopped the  *)
(* timer of a request that is still on its way.                            *)
AwaitedIsTimed == ~outlived => Len(timeouts) >= InFlight

(* "The maximum time to wait a log delivery response": every bucket of     *)
(* records on the way has its own timer.                                   *)
EveryBucketTimed ==
  \A r \in Stored(storage) : storage.logs[r] # UNMARKED => storage.logs[r] \in ToSet(timeouts)

(* Until a connection is lost or an answer late, a record is on its way    *)
(* once at most, and never again when the server has it.                   *)
DeliveredOnce ==
  drops = 0 /\ timedOut = 0 =>
    /\ \A p, q \in requests : p # q => p.records \cap q.records = {}
    /\ \A q \in requests : q.records \cap delivered = {}

(* A bucket takes the oldest records that are not in another: none that    *)
(* wait for a bucket is older than one that has just got it, also after    *)
(* failures and timeouts, unless a search has begun at a freed record.     *)
OldestFirst ==
  [][~astray' => \A q \in requests' \ requests :
                   \A sent \in q.records, left \in Unmarked(storage') : sent < left]_vars

(* Once the strategy has decided on an upload, all that is above a         *)
(* threshold is sent, over lost connections and however many buckets it    *)
(* takes, unless the search for records goes astray or a timeout leaves    *)
(* the channel with a connection that its CONNECT has not gone to.         *)
ThresholdUploads ==
  LET lost == astray \/ Dangling(storage) \/ link \in {"deaf", "mute"}
  IN  /\ pending /\ storage.count >= ThresholdCount
           ~> storage.count < ThresholdCount \/ lost
      /\ pending /\ storage.unmarked >= ThresholdVolume
           ~> storage.unmarked < ThresholdVolume \/ lost

(* A record leaves an unlimited storage only when the server has it,       *)
(* whatever is answered, lost or timed out in between.                     *)
Service == INSTANCE LogService WITH accepted <- 1 .. added, kept <- Stored(storage)
KeptUntilDelivered == Service!Spec
=============================================================================

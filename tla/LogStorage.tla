----------------------------- MODULE LogStorage -----------------------------
(***************************************************************************)
(* The log storage in memory: a list of records, each marked with the      *)
(* bucket it was last sent in, and two pointers into the list.             *)
(*                                                                         *)
(* A record is the number of the call that added it.  New records go to    *)
(* the tail, so the list is in the order of the numbers, and the storage   *)
(* is the record                                                           *)
(*   logs    the bucket of each stored record, 0 for an unmarked one       *)
(*   first   first_unmarked: where the search for an unmarked one begins   *)
(*   last    last_log_it: where a new record is linked in                  *)
(*   total, unmarked, count   total_occupied_size, unmarked_occupied_size  *)
(*                            and unmarked_record_count                    *)
(* A pointer is a record or NULL.  Nothing keeps it from naming a record   *)
(* that has been freed.                                                    *)
(***************************************************************************)
EXTENDS Integers, FiniteSets, FiniteSetsExt, Functions

CONSTANTS MaxRecords,    \* calls of kaa_logging_add_record
          RecordSize,      \* what each record takes
          MaxStorage,      \* max_storage_size; 0: unlimited
          ForcedSize       \* force_removal_to_size

Records == 1 .. MaxRecords
NULL == 0
UNMARKED == 0

ASSUME StorageAssumption ==
  /\ MaxRecords \in Nat
  /\ RecordSize \in [Records -> Nat \ {0}]
  /\ MaxStorage \in Nat
  /\ ForcedSize \in Nat /\ ForcedSize <= MaxStorage

SizeOf(S) == MapThenSumSet(LAMBDA r : RecordSize[r], S)
Stored(st) == DOMAIN st.logs
InBuckets(st, B) == {r \in Stored(st) : st.logs[r] \in B}
Unmarked(st) == InBuckets(st, {UNMARKED})

(* kaa_list_next in a list that holds S. *)
NextIn(S, r) == IF \E q \in S : q > r THEN Min({q \in S : q > r}) ELSE NULL

EmptyStorage == [logs |-> [r \in {} |-> UNMARKED], first |-> NULL, last |-> NULL,
                 total |-> 0, unmarked |-> 0, count |-> 0]

(* The oldest records, until what is left takes no more than ForcedSize. *)
Evicted(st) ==
  {r \in Stored(st) : st.total - SizeOf({q \in Stored(st) : q < r}) > ForcedSize}

(* Mutant: marked records, already taken off the counters, are taken off again. *)
ShrinkCountsMarked(st) ==
  LET gone  == Evicted(st)
      fresh == gone \cap Unmarked(st)
      left  == Stored(st) \ gone
  IN  [st EXCEPT !.logs = Restrict(@, left),
                 !.first = IF left = {} THEN NULL
                           ELSE IF fresh = {} THEN @ ELSE NextIn(Stored(st), Max(fresh)),
                 !.last = IF left = {} THEN NULL ELSE @,
                 !.total = @ - SizeOf(gone),
                 !.unmarked = @ - SizeOf(gone),
                 !.count = @ - Cardinality(gone)]

(* first_unmarked follows the unmarked records that go, and no other. *)
Shrink(st) ==
  LET gone  == Evicted(st)
      fresh == gone \cap Unmarked(st)
      left  == Stored(st) \ gone
  IN  [st EXCEPT !.logs = Restrict(@, left),
                 !.first = IF left = {} THEN NULL
                           ELSE IF fresh = {} THEN @ ELSE NextIn(Stored(st), Max(fresh)),
                 !.last = IF left = {} THEN NULL ELSE @,
                 !.total = @ - SizeOf(gone),
                 !.unmarked = @ - SizeOf(fresh),
                 !.count = @ - Cardinality(fresh)]

Link(st, r) ==
  [st EXCEPT !.logs = [q \in Stored(st) \cup {r} |-> IF q = r THEN UNMARKED ELSE st.logs[q]],
             !.last = r,
             !.total = @ + RecordSize[r],
             !.unmarked = @ + RecordSize[r],
             !.count = @ + 1]

(* Mutant: room is made only once the storage is over its limit. *)
AddLateShrink(st, r) ==
  Link(IF MaxStorage # 0 /\ st.total > MaxStorage THEN Shrink(st) ELSE st, r)

AddLogRecord(st, r) ==
  Link(IF MaxStorage # 0 /\ st.total + RecordSize[r] > MaxStorage THEN Shrink(st) ELSE st, r)

(* first_unmarked is a freed node. *)
Dangling(st) == st.first \notin Stored(st) \cup {NULL}

(* Where the search begins: first_unmarked or the head of the list.  The   *)
(* memory of a freed node may by now be any node of the list, or lead      *)
(* nowhere.                                                                *)
SearchStarts(st) ==
  IF Dangling(st) THEN Stored(st) \cup {MaxRecords + 1} ELSE {st.first}

(* Mutant: a record in another bucket is taken again. *)
FittingMarked(st, start, room) ==
  LET ahead == {r \in Stored(st) : r >= start}
  IN  {r \in ahead : SizeOf({q \in ahead : q <= r}) <= room}

(* The unmarked records from start on that write_next_record fits into     *)
(* room, one after the other; the first that does not fit ends the bucket. *)
Fitting(st, start, room) ==
  LET ahead == {r \in Unmarked(st) : r >= start}
  IN  {r \in ahead : SizeOf({q \in ahead : q <= r}) <= room}

(* Mutant: first_unmarked stays on the record just marked. *)
MarkStays(st, S, bucket) ==
  [st EXCEPT !.logs = [r \in Stored(st) |-> IF r \in S THEN bucket ELSE st.logs[r]],
             !.first = Max(S),
             !.unmarked = @ - SizeOf(S),
             !.count = @ - Cardinality(S)]

(* The records of S were written into the bucket. *)
Mark(st, S, bucket) ==
  [st EXCEPT !.logs = [r \in Stored(st) |-> IF r \in S THEN bucket ELSE st.logs[r]],
             !.first = NextIn(Stored(st), Max(S)),
             !.unmarked = @ - SizeOf(S),
             !.count = @ - Cardinality(S)]

(* Mutant: last_log_it keeps the record it had. *)
RemoveKeepsLast(st, bucket) ==
  LET left == Stored(st) \ InBuckets(st, {bucket})
  IN  [st EXCEPT !.logs = Restrict(@, left),
                 !.first = IF left = {} THEN NULL ELSE @,
                 !.total = @ - SizeOf(Stored(st) \ left)]

RemoveByBucketId(st, bucket) ==
  LET gone == InBuckets(st, {bucket})
      left == Stored(st) \ gone
  IN  IF gone = {} THEN st
      ELSE [st EXCEPT !.logs = Restrict(@, left),
                      !.first = IF left = {} THEN NULL ELSE @,
                      !.last = NULL,
                      !.total = @ - SizeOf(gone)]

(* Mutant: the search goes on where it was. *)
UnmarkKeepsFirst(st, B) ==
  LET S == InBuckets(st, B)
  IN  [st EXCEPT !.logs = [r \in Stored(st) |-> IF r \in S THEN UNMARKED ELSE st.logs[r]],
                 !.unmarked = @ + SizeOf(S),
                 !.count = @ + Cardinality(S)]

(* ext_log_storage_unmark_by_bucket_id for each bucket of B. *)
UnmarkBuckets(st, B) ==
  LET S == InBuckets(st, B)
  IN  IF S = {} THEN st
      ELSE [st EXCEPT !.logs = [r \in Stored(st) |-> IF r \in S THEN UNMARKED ELSE st.logs[r]],
                      !.first = NULL,
                      !.unmarked = @ + SizeOf(S),
                      !.count = @ + Cardinality(S)]

(* A storage whose records are in buckets of B; what its counters are is   *)
(* CountersMatch.                                                          *)
StorageOK(st, B) ==
  /\ st = [logs |-> st.logs, first |-> st.first, last |-> st.last,
           total |-> st.total, unmarked |-> st.unmarked, count |-> st.count]
  /\ \E S \in SUBSET Records : st.logs \in [S -> B]
  /\ st.first \in Records \cup {NULL} /\ st.last \in Records \cup {NULL}
=============================================================================

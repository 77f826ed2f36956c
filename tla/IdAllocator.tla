---------------------------- MODULE IdAllocator ----------------------------
(***************************************************************************)
(* The allocator of representation ids, ir/src/id.rs.  Every call of       *)
(* Id::new or Id::new_array, on any thread, reserves a block of LEN        *)
(* numbers with one atomic fetch_add on the process-wide counter and then  *)
(* builds its ids one by one from the value the counter had before.  The   *)
(* counter is a u64: fetch_add wraps silently, and only the construction   *)
(* of an id past u64::MAX notices the overflow and aborts the process.     *)
(***************************************************************************)
EXTENDS Integers

CONSTANTS
    Threads,    \* the threads that allocate ids
    MaxId,      \* u64::MAX
    Lens        \* the array lengths LEN that new_array is instantiated with

ASSUME AllocatorAssumption ==
    /\ MaxId \in Nat \ {0}
    /\ Lens \subseteq 0 .. MaxId

VARIABLES
    highest_id,     \* the static AtomicU64
    prev,           \* prev[t]: local variable of t's call
    left,           \* left[t]: ids t's call still has to construct
    aborted,        \* the process has called abort()
    made,           \* history: how often Id(i) was constructed (2 = "again")
    wrapped         \* history: some fetch_add has overflowed

vars == <<highest_id, prev, left, aborted, made, wrapped>>

Ids == 1 .. MaxId

TypeOK ==
    /\ highest_id \in 0 .. MaxId
    /\ prev \in [Threads -> 0 .. MaxId]
    /\ left \in [Threads -> 0 .. MaxId]
    /\ aborted \in BOOLEAN
    /\ made \in [Ids -> 0 .. 2]
    /\ wrapped \in BOOLEAN

Init ==
    /\ highest_id = 0
    /\ prev = [t \in Threads |-> 0]
    /\ left = [t \in Threads |-> 0]
    /\ aborted = FALSE
    /\ made = [i \in Ids |-> 0]
    /\ wrapped = FALSE

(* Mutants, as everywhere in this project: an operator named Bad... stands
   right before the definition it is a broken variant of, and no
   specification uses it. *)
BadWrap(n) == n

(* AtomicU64 arithmetic is modulo 2^64. *)
Wrap(n) == n % (MaxId + 1)

BadReserve(n) == Wrap(highest_id + 1)

(* The counter after a call reserved its block. *)
Reserve(n) == Wrap(highest_id + n)

BadBlockStart == Wrap(highest_id + 1)

(* fetch_add returns the old value, the number right before the block. *)
BlockStart == highest_id

(* fetch_add(LEN, Relaxed): one atomic step. *)
FetchAdd(t, n) ==
    /\ ~aborted
    /\ left[t] = 0
    /\ prev' = [prev EXCEPT ![t] = BlockStart]
    /\ left' = [left EXCEPT ![t] = n]
    /\ highest_id' = Reserve(n)
    /\ wrapped' = (wrapped \/ highest_id + n > MaxId)
    /\ UNCHANGED <<aborted, made>>

Again(n) == IF n = 0 THEN 1 ELSE 2

(* One round of the map closure: checked_add(1) succeeds. *)
BuildId(t) ==
    /\ ~aborted
    /\ left[t] > 0
    /\ prev[t] < MaxId
    /\ made' = [made EXCEPT ![prev[t] + 1] = Again(@)]
    /\ prev' = [prev EXCEPT ![t] = @ + 1]
    /\ left' = [left EXCEPT ![t] = @ - 1]
    /\ UNCHANGED <<highest_id, aborted, wrapped>>

BadOverflow(t) ==       \* panic!() instead: the panic is caught, the call is over
    /\ ~aborted
    /\ left[t] > 0
    /\ prev[t] = MaxId
    /\ left' = [left EXCEPT ![t] = 0]
    /\ UNCHANGED <<highest_id, prev, aborted, made, wrapped>>

(* checked_add(1) fails: the whole process aborts. *)
Overflow(t) ==
    /\ ~aborted
    /\ left[t] > 0
    /\ prev[t] = MaxId
    /\ aborted' = TRUE
    /\ UNCHANGED <<highest_id, prev, left, made, wrapped>>

Next ==
    \E t \in Threads :
        \/ \E n \in Lens : FetchAdd(t, n)
        \/ BuildId(t)
        \/ Overflow(t)

(* A call in progress runs on: the operating system schedules its thread.
   Whether anyone ever calls again is the tools' business. *)
Fairness == \A t \in Threads : WF_vars(BuildId(t) \/ Overflow(t))

Spec == Init /\ [][Next]_vars /\ Fairness
----------------------------------------------------------------------------
(* "Returns a new ID that has not been seen before" (id.rs:17), "an array of
   new, unique IDs" (id.rs:24): no number is ever handed out twice. *)
UniqueIds == \A i \in Ids : made[i] <= 1

(* What the code does guarantee of uniqueness: calls of any threads in any
   interleaving never repeat an id until a fetch_add overflows. *)
UniqueUntilWrap == wrapped \/ UniqueIds

Quiet == \A t \in Threads : left[t] = 0

(* The behaviour test new_implementation asks of ten racing threads
   (id.rs:102): once every call has returned, the ids handed out are exactly
   1 .. highest_id, without gaps. *)
NoGaps == (Quiet /\ ~wrapped) => {i \in Ids : made[i] > 0} = 1 .. highest_id

(* An overflow is always noticed: the call whose block crosses u64::MAX
   reaches the failing checked_add, whatever the other threads do. *)
OverflowAborts == wrapped ~> aborted
=============================================================================

------------------------- MODULE IdAllocatorProofs -------------------------
(* The allocator hands out every id at most once until its counter wraps,
   for any number of threads, any width of the counter and any block sizes. *)
EXTENDS IdAllocator, TLAPS

(* The ids t has reserved and not constructed yet. *)
InFlight(t, i) == prev[t] < i /\ i <= prev[t] + left[t]

(* Blocks that are reserved lie at or below the counter. *)
Behind == \A t \in Threads : prev[t] + left[t] <= highest_id

(* No two calls in progress have reserved an id in common. *)
Disjoint ==
    \A t, u \in Threads :
        t # u => \A i \in Ids : ~(InFlight(t, i) /\ InFlight(u, i))

(* Until a wrap, an id has been constructed iff the counter has passed it
   and it is not in flight; then it was constructed once. *)
MadeOnce ==
    \A i \in Ids :
        made[i] = IF i <= highest_id /\ \A t \in Threads : ~InFlight(t, i)
                  THEN 1 ELSE 0

(* The inductive invariant: after a wrap nothing is claimed. *)
IInv == TypeOK /\ (wrapped \/ (Behind /\ Disjoint /\ MadeOnce))

(* The numeric part of the types. *)
Numbers ==
    /\ highest_id \in 0 .. MaxId
    /\ prev \in [Threads -> 0 .. MaxId]
    /\ left \in [Threads -> 0 .. MaxId]
    /\ made \in [Ids -> 0 .. 2]

(* Types are preserved: in particular Id(0) is never built and the counter
   stays a u64. *)
THEOREM TypeCorrect == Spec => []TypeOK
<1> USE AllocatorAssumption
<1>1. Init => TypeOK
  <2>1. Init => Numbers
    BY DEF Init, Numbers, Ids
  <2>2. Init => aborted \in BOOLEAN /\ wrapped \in BOOLEAN
    BY Zenon DEF Init
  <2> QED
    BY <2>1, <2>2 DEF TypeOK, Numbers
<1>2. TypeOK /\ [Next]_vars => TypeOK'
  <2> SUFFICES ASSUME Numbers, aborted \in BOOLEAN, wrapped \in BOOLEAN, [Next]_vars
               PROVE Numbers' /\ aborted' \in BOOLEAN /\ wrapped' \in BOOLEAN
    BY DEF TypeOK, Numbers
  <2>1. ASSUME NEW t \in Threads, NEW n \in Lens, FetchAdd(t, n)
        PROVE Numbers' /\ aborted' \in BOOLEAN /\ wrapped' \in BOOLEAN
    <3>1. n \in 0 .. MaxId /\ highest_id \in Nat
      BY DEF Numbers
    <3>2. Reserve(n) \in 0 .. MaxId
      BY <3>1 DEF Reserve, Wrap
    <3>3. Numbers'
      BY <2>1, <3>1, <3>2 DEF Numbers, FetchAdd, BlockStart
    <3>4. aborted' \in BOOLEAN /\ wrapped' \in BOOLEAN
      BY <2>1, Zenon DEF FetchAdd
    <3> QED
      BY <3>3, <3>4
  <2>2. ASSUME NEW t \in Threads, BuildId(t)
        PROVE Numbers' /\ aborted' \in BOOLEAN /\ wrapped' \in BOOLEAN
    BY <2>2 DEF BuildId, Again, Numbers, Ids
  <2>3. ASSUME NEW t \in Threads, Overflow(t)
        PROVE Numbers' /\ aborted' \in BOOLEAN /\ wrapped' \in BOOLEAN
    BY <2>3, Zenon DEF Overflow, Numbers
  <2>4. CASE UNCHANGED vars
    BY <2>4, Zenon DEF vars, Numbers
  <2> QED
    BY <2>1, <2>2, <2>3, <2>4, Zenon DEF Next
<1> QED
  BY <1>1, <1>2, PTL DEF Spec

(* The invariant the two properties of the allocator rest on. *)
THEOREM Inductive == Spec => []IInv
<1> USE AllocatorAssumption
<1>1. Init => IInv
  <2> SUFFICES ASSUME Init PROVE TypeOK /\ Behind /\ Disjoint /\ MadeOnce
    BY Zenon DEF IInv
  <2>1. TypeOK
    <3>1. Numbers
      BY DEF Init, Numbers, Ids
    <3>2. aborted \in BOOLEAN /\ wrapped \in BOOLEAN
      BY Zenon DEF Init
    <3> QED
      BY <3>1, <3>2 DEF TypeOK, Numbers
  <2>2. Behind /\ Disjoint /\ MadeOnce
    BY DEF Init, Behind, Disjoint, MadeOnce, InFlight, Ids
  <2> QED
    BY <2>1, <2>2
<1>2. IInv /\ TypeOK' /\ [Next]_vars => IInv'
  <2> SUFFICES ASSUME IInv, [Next]_vars, ~wrapped'
               PROVE (Behind /\ Disjoint /\ MadeOnce)'
    BY Zenon DEF IInv
  <2>1. ~wrapped
    BY Zenon DEF Next, FetchAdd, BuildId, Overflow, vars
  <2>2. Numbers /\ Behind /\ Disjoint /\ MadeOnce
    BY <2>1, Zenon DEF IInv, TypeOK, Numbers
  <2>3. \A t \in Threads : prev[t] \in 0 .. MaxId /\ left[t] \in 0 .. MaxId
    BY <2>2 DEF Numbers
  <2>4. ASSUME NEW t \in Threads, NEW n \in Lens, FetchAdd(t, n)
        PROVE (Behind /\ Disjoint /\ MadeOnce)'
    <3>1. ~(highest_id + n > MaxId)
      BY <2>4, Zenon DEF FetchAdd
    <3>2. n \in Nat /\ highest_id \in Nat /\ highest_id + n <= MaxId
      BY <3>1, <2>2 DEF Numbers
    <3>3. highest_id' = highest_id + n
      BY <2>4, <3>2 DEF FetchAdd, Reserve, Wrap
    <3>4. /\ prev' = [prev EXCEPT ![t] = highest_id]
          /\ left' = [left EXCEPT ![t] = n]
          /\ left[t] = 0
          /\ made' = made
      BY <2>4, Zenon DEF FetchAdd, BlockStart
    <3>5. \A u \in Threads \ {t} : prev'[u] = prev[u] /\ left'[u] = left[u]
      BY <3>4, <2>2 DEF Numbers
    <3>6. prev'[t] = highest_id /\ left'[t] = n
      BY <3>4, <2>2 DEF Numbers
    <3>7. \A i \in Ids, u \in Threads : InFlight(u, i) => i <= highest_id
      BY <2>2, <2>3, <3>2 DEF Behind, InFlight, Ids
    <3>8. \A i \in Ids, u \in Threads \ {t} : InFlight(u, i)' <=> InFlight(u, i)
      BY <3>5 DEF InFlight
    <3>9. \A i \in Ids : InFlight(t, i)' <=> highest_id < i /\ i <= highest_id'
      BY <3>3, <3>6 DEF InFlight
    <3>10. \A i \in Ids : ~InFlight(t, i)
      BY <3>4, <2>3 DEF InFlight, Ids
    <3>11. Behind'
      BY <2>2, <2>3, <3>2, <3>3, <3>5, <3>6 DEF Behind
    <3>12. Disjoint'
      BY <2>2, <3>2, <3>7, <3>8, <3>9 DEF Disjoint, Ids
    <3>13. MadeOnce'
      <4> SUFFICES ASSUME NEW i \in Ids
                   PROVE made[i] = IF i <= highest_id' /\ \A u \in Threads : ~InFlight(u, i)'
                                   THEN 1 ELSE 0
        BY <3>4 DEF MadeOnce, Ids
      <4>1. CASE i <= highest_id
        BY <4>1, <3>2, <3>3, <3>8, <3>9, <3>10, <2>2 DEF MadeOnce, Ids
      <4>2. CASE ~(i <= highest_id)
        <5>1. made[i] = 0
          BY <4>2, <2>2 DEF MadeOnce
        <5>2. ~(i <= highest_id' /\ ~InFlight(t, i)')
          BY <4>2, <3>2, <3>9 DEF Ids
        <5> QED
          BY <5>1, <5>2
      <4> QED
        BY <4>1, <4>2
    <3> QED
      BY <3>11, <3>12, <3>13
  <2>5. ASSUME NEW t \in Threads, BuildId(t)
        PROVE (Behind /\ Disjoint /\ MadeOnce)'
    <3>0. PICK id \in Ids : id = prev[t] + 1
      BY <2>5, <2>3 DEF BuildId, Ids
    <3>1. /\ left[t] > 0
          /\ prev[t] < MaxId
          /\ prev' = [prev EXCEPT ![t] = id]
          /\ left' = [left EXCEPT ![t] = left[t] - 1]
          /\ made' = [made EXCEPT ![id] = Again(made[id])]
          /\ highest_id' = highest_id
      BY <2>5, <3>0 DEF BuildId
    <3>2. id \in Ids /\ InFlight(t, id) /\ id <= highest_id
      <4>1. id <= prev[t] + left[t]
        BY <3>0, <3>1, <2>3
      <4>2. prev[t] + left[t] <= highest_id
        BY <2>2 DEF Behind
      <4>3. highest_id \in Nat
        BY <2>2 DEF Numbers
      <4> QED
        BY <3>0, <4>1, <4>2, <4>3, <2>3 DEF InFlight, Ids
    <3>3. \A u \in Threads \ {t} : prev'[u] = prev[u] /\ left'[u] = left[u]
      BY <3>1, <2>2 DEF Numbers
    <3>4. prev'[t] = id /\ left'[t] = left[t] - 1
      BY <3>1, <2>2 DEF Numbers
    <3>5. \A i \in Ids : InFlight(t, i)' <=> (InFlight(t, i) /\ i # id)
      BY <3>0, <3>1, <3>4, <2>3 DEF InFlight, Ids
    <3>6. \A u \in Threads \ {t}, i \in Ids : InFlight(u, i)' <=> InFlight(u, i)
      BY <3>3 DEF InFlight
    <3>7. Behind'
      BY <3>0, <3>1, <3>3, <3>4, <2>2, <2>3 DEF Behind
    <3>8. Disjoint'
      BY <3>5, <3>6, <2>2 DEF Disjoint, Ids
    <3>9. MadeOnce'
      <4>1. made[id] = 0
        BY <3>2, <2>2 DEF MadeOnce
      <4>2. made'[id] = 1
        BY <3>1, <3>2, <4>1, <2>2 DEF Again, Numbers
      <4>3. \A u \in Threads : ~InFlight(u, id)'
        BY <3>2, <3>5, <3>6, <2>2 DEF Disjoint
      <4> SUFFICES ASSUME NEW i \in Ids
                   PROVE made'[i] = IF i <= highest_id /\ \A u \in Threads : ~InFlight(u, i)'
                                    THEN 1 ELSE 0
        BY <3>1 DEF MadeOnce, Ids
      <4>4. CASE i = id
        BY <4>2, <4>3, <4>4, <3>2
      <4>5. CASE i # id
        <5>1. made'[i] = made[i]
          BY <4>5, <3>1, <3>2, <2>2 DEF Numbers
        <5>2. \A u \in Threads : InFlight(u, i)' <=> InFlight(u, i)
          BY <4>5, <3>5, <3>6
        <5>3. made[i] = IF i <= highest_id /\ \A u \in Threads : ~InFlight(u, i)
                        THEN 1 ELSE 0
          BY <2>2 DEF MadeOnce
        <5> QED
          BY <5>1, <5>2, <5>3
      <4> QED
        BY <4>4, <4>5
    <3> QED
      BY <3>7, <3>8, <3>9
  <2>6. ASSUME NEW t \in Threads, Overflow(t)
        PROVE (Behind /\ Disjoint /\ MadeOnce)'
    BY <2>6, <2>2, Zenon DEF Overflow, Behind, Disjoint, MadeOnce, InFlight
  <2>7. CASE UNCHANGED vars
    BY <2>7, <2>2, Zenon DEF vars, Behind, Disjoint, MadeOnce, InFlight
  <2> QED
    BY <2>4, <2>5, <2>6, <2>7, Zenon DEF Next
<1> QED
  BY <1>1, <1>2, TypeCorrect, PTL DEF Spec

(* No id is constructed twice before a fetch_add has overflowed. *)
THEOREM Uniqueness == Spec => []UniqueUntilWrap
<1>1. IInv => UniqueUntilWrap
  BY AllocatorAssumption DEF IInv, MadeOnce, UniqueUntilWrap, UniqueIds, Ids
<1> QED
  BY <1>1, Inductive, PTL

(* When no call is in progress, the ids constructed are those from 1 to the
   counter. *)
THEOREM Contiguity == Spec => []NoGaps
<1>1. IInv => NoGaps
  <2> SUFFICES ASSUME IInv, Quiet, ~wrapped
               PROVE {i \in Ids : made[i] > 0} = 1 .. highest_id
    BY DEF NoGaps
  <2>1. \A t \in Threads, i \in Ids : ~InFlight(t, i)
    BY AllocatorAssumption DEF IInv, TypeOK, Quiet, InFlight, Ids
  <2>2. \A i \in Ids : made[i] = IF i <= highest_id THEN 1 ELSE 0
    BY <2>1 DEF IInv, MadeOnce
  <2> QED
    BY <2>2, AllocatorAssumption DEF IInv, TypeOK, Ids
<1> QED
  BY <1>1, Inductive, PTL

(* The safety half of OverflowAborts (id.rs:62): once a fetch_add has
   overflowed, some call is on its way to the failing checked_add, and it stays
   so until the process aborts; such a call never returns. *)
WrapIsPending ==
    wrapped => \E t \in Threads : left[t] > 0 /\ prev[t] + left[t] > MaxId

(* An overflow is never forgotten. *)
THEOREM OverflowPends == Spec => []WrapIsPending
<1> USE AllocatorAssumption
<1>1. Init => WrapIsPending
  BY Zenon DEF Init, WrapIsPending
<1>2. ASSUME TypeOK, WrapIsPending, [Next]_vars, wrapped'
      PROVE  \E t \in Threads : left'[t] > 0 /\ prev'[t] + left'[t] > MaxId
  <2>0. Numbers
    BY <1>2, Zenon DEF TypeOK, Numbers
  <2>1. ASSUME NEW u \in Threads, NEW n \in Lens, FetchAdd(u, n)
        PROVE  \E t \in Threads : left'[t] > 0 /\ prev'[t] + left'[t] > MaxId
    <3>1. /\ left[u] = 0
          /\ prev' = [prev EXCEPT ![u] = highest_id]
          /\ left' = [left EXCEPT ![u] = n]
      BY <2>1, Zenon DEF FetchAdd, BlockStart
    <3>2. wrapped \/ highest_id + n > MaxId
      BY <1>2, <2>1, Zenon DEF FetchAdd
    <3>3. CASE highest_id + n > MaxId
      <4>1. n \in Nat /\ highest_id \in 0 .. MaxId
        BY <2>0 DEF Numbers
      <4>2. prev'[u] = highest_id /\ left'[u] = n
        BY <2>0, <3>1 DEF Numbers
      <4> QED
        BY <3>3, <4>1, <4>2
    <3>4. CASE wrapped
      <4>1. PICK t \in Threads : left[t] > 0 /\ prev[t] + left[t] > MaxId
        BY <1>2, <3>4, Zenon DEF WrapIsPending
      <4>2. t # u
        BY <3>1, <4>1
      <4>3. prev'[t] = prev[t] /\ left'[t] = left[t]
        BY <2>0, <3>1, <4>2 DEF Numbers
      <4> QED
        BY <4>1, <4>3
    <3> QED
      BY <3>2, <3>3, <3>4, Zenon
  <2>2. ASSUME NEW u \in Threads, BuildId(u)
        PROVE  \E t \in Threads : left'[t] > 0 /\ prev'[t] + left'[t] > MaxId
    <3>1. wrapped
      BY <1>2, <2>2, Zenon DEF BuildId
    <3>2. PICK t \in Threads : left[t] > 0 /\ prev[t] + left[t] > MaxId
      BY <1>2, <3>1, Zenon DEF WrapIsPending
    <3>3. /\ prev[u] < MaxId
          /\ prev' = [prev EXCEPT ![u] = prev[u] + 1]
          /\ left' = [left EXCEPT ![u] = left[u] - 1]
      BY <2>2 DEF BuildId
    <3>4. CASE t = u
      <4>1. prev'[t] = prev[t] + 1 /\ left'[t] = left[t] - 1
        BY <2>0, <3>3, <3>4 DEF Numbers
      <4>2. prev[t] \in Nat /\ left[t] \in Nat /\ prev[t] < MaxId
        BY <2>0, <3>3, <3>4 DEF Numbers
      <4> QED
        BY <3>2, <4>1, <4>2
    <3>5. CASE t # u
      <4>1. prev'[t] = prev[t] /\ left'[t] = left[t]
        BY <2>0, <3>3, <3>5 DEF Numbers
      <4> QED
        BY <3>2, <4>1
    <3> QED
      BY <3>4, <3>5
  <2>3. ASSUME NEW u \in Threads, Overflow(u)
        PROVE  \E t \in Threads : left'[t] > 0 /\ prev'[t] + left'[t] > MaxId
    BY <1>2, <2>3, Zenon DEF Overflow, WrapIsPending
  <2>4. CASE UNCHANGED vars
    BY <1>2, <2>4, Zenon DEF vars, WrapIsPending
  <2> QED
    BY <1>2, <2>1, <2>2, <2>3, <2>4, Zenon DEF Next
<1>3. TypeOK /\ WrapIsPending /\ [Next]_vars => WrapIsPending'
  BY <1>2, Zenon DEF WrapIsPending
<1> QED
  BY <1>1, <1>3, TypeCorrect, PTL DEF Spec
=============================================================================

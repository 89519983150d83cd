------------------------- MODULE SharedHandlesProofs -------------------------
(***************************************************************************)
(* Proofs about the handle cache and the share locks, for any number of    *)
(* threads, handles and locks, and any size of the cache.                  *)
(*                                                                         *)
(* The invariant has two halves that share only the places of the threads: *)
(* HandleInv says who has which handle, LockInv who has which lock and     *)
(* what its owner field holds.  A step of one half does not change the     *)
(* variables of the other (HandlesKeepLocks, LocksKeepHandles).            *)
(***************************************************************************)
EXTENDS SharedHandles, SequenceTheorems, TLAPS

\* Places of a thread that has, or waits for, a lock
Locking == {"own", "locked", "unlock"}

\* Places of a thread that has a handle
Holding == {"configure", "perform", "release"} \cup Locking

TypePc == pc \in [Thread -> {"idle", "create"} \cup Holding]

TypeHandles ==
  /\ cache \in Seq(Handle)
  /\ Len(cache) <= CacheSize
  /\ live \subseteq Handle
  /\ handle \in [Thread -> Handle \cup {None}]
  /\ callback_arg \in [Handle -> Thread \cup {None}]

TypeLocks ==
  /\ readers \in [Datum -> SUBSET Thread]
  /\ writer \in [Datum -> Thread \cup {None}]
  /\ owner \in [Datum -> Thread \cup {None}]
  /\ locking \in [Thread -> Datum \cup {None}]

\* A thread has a handle where it uses one, and no thread is anywhere when inactive
Holders ==
  /\ \A t \in Thread : handle[t] # None <=> pc[t] \in Holding
  /\ ~active => \A t \in Thread : pc[t] = "idle"

\* The handle of a thread between its reset and the cache
ResetHandle == \A t \in Thread : pc[t] = "release" => callback_arg[handle[t]] = None

HandleInv ==
  /\ TypeHandles
  /\ active \in BOOLEAN
  /\ Holders
  /\ OneOwner
  /\ NoLeak
  /\ OwnRequest
  /\ ResetHandle

\* Who has a lock is where it locks; the owner is set only between the two steps
\* that lock and the two that unlock
LockInv ==
  /\ TypeLocks
  /\ \A d \in Datum : \A t \in readers[d] : pc[t] = "locked" /\ locking[t] = d
  /\ \A d \in Datum : writer[d] # None => locking[writer[d]] = d /\ pc[writer[d]] \in Locking
  /\ \A d \in Datum : writer[d] = None \/ readers[d] = {}
  /\ \A d \in Datum : owner[d] # None => owner[d] = writer[d] /\ pc[owner[d]] = "locked"
  /\ \A t \in Thread :
       pc[t] \in Locking =>
         /\ locking[t] \in Datum
         /\ IF t \in readers[locking[t]] THEN pc[t] = "locked"
                                         ELSE writer[locking[t]] = t
         /\ pc[t] = "locked" /\ t \notin readers[locking[t]] => owner[locking[t]] = t

IInv == TypePc /\ HandleInv /\ LockInv

----------------------------------------------------------------------------
LEMMA Constants == None \notin Thread /\ None \notin Handle /\ CacheSize \in Nat
  BY SharedHandlesAssumption

\* The cache without its last handle.
LEMMA PopCache ==
  ASSUME NEW s \in Seq(Handle), s # <<>>,
         \A j, k \in DOMAIN s : s[j] = s[k] => j = k
  PROVE  /\ Front(s) \in Seq(Handle)
         /\ Len(Front(s)) = Len(s) - 1
         /\ \A j, k \in DOMAIN Front(s) : Front(s)[j] = Front(s)[k] => j = k
         /\ Last(s) \in Handle
         /\ ToSet(Front(s)) = ToSet(s) \ {Last(s)}
         /\ Last(s) \in ToSet(s)
  <1>1. Len(s) \in Nat /\ Len(s) > 0 /\ DOMAIN s = 1..Len(s)
    BY EmptySeq, LenProperties
  <1>2. \A j \in 1..Len(s) : s[j] \in Handle
    BY <1>1, ElementOfSeq
  <1>3. Front(s) = [j \in 1..(Len(s) - 1) |-> s[j]]
    BY DEF Front
  <1>4. DOMAIN Front(s) = 1..(Len(s) - 1) /\ \A j \in 1..(Len(s) - 1) : Front(s)[j] = s[j]
    BY <1>3
  <1>5. Front(s) \in Seq(Handle) /\ Len(Front(s)) = Len(s) - 1
    <2>1. [j \in 1..(Len(s) - 1) |-> s[j]] \in [1..(Len(s) - 1) -> Handle]
      BY <1>1, <1>2
    <2>2. Len(s) - 1 \in Nat
      BY <1>1
    <2>3. Front(s) \in Seq(Handle)
      BY <1>3, <2>1, <2>2 DEF Seq
    <2>4. DOMAIN Front(s) = 1..Len(Front(s)) /\ Len(Front(s)) \in Nat
      BY <2>3, LenProperties
    <2> QED
      BY <1>4, <2>2, <2>3, <2>4
  <1>6. Last(s) = s[Len(s)]
    BY DEF Last
  <1>7. \A j, k \in DOMAIN Front(s) : Front(s)[j] = Front(s)[k] => j = k
    BY <1>1, <1>4
  <1>8. ToSet(Front(s)) = {s[j] : j \in 1..(Len(s) - 1)}
    BY <1>4 DEF ToSet
  <1>9. ToSet(s) = {s[j] : j \in 1..Len(s)}
    BY <1>1 DEF ToSet
  <1>10. ToSet(Front(s)) = ToSet(s) \ {Last(s)}
    BY <1>1, <1>6, <1>8, <1>9
  <1> QED
    BY <1>1, <1>2, <1>5, <1>6, <1>7, <1>9, <1>10

\* The cache with one more handle.
LEMMA PushCache ==
  ASSUME NEW s \in Seq(Handle), NEW h \in Handle, h \notin ToSet(s),
         \A j, k \in DOMAIN s : s[j] = s[k] => j = k
  PROVE  /\ Append(s, h) \in Seq(Handle)
         /\ Len(Append(s, h)) = Len(s) + 1
         /\ \A j, k \in DOMAIN Append(s, h) : Append(s, h)[j] = Append(s, h)[k] => j = k
         /\ ToSet(Append(s, h)) = ToSet(s) \cup {h}
  <1>1. Len(s) \in Nat /\ DOMAIN s = 1..Len(s)
    BY LenProperties
  <1>2. /\ Append(s, h) \in Seq(Handle)
        /\ Len(Append(s, h)) = Len(s) + 1
        /\ \A j \in 1..Len(s) : Append(s, h)[j] = s[j]
        /\ Append(s, h)[Len(s) + 1] = h
    BY AppendProperties
  <1>3. DOMAIN Append(s, h) = 1..(Len(s) + 1)
    BY <1>2, LenProperties
  <1>4. ToSet(s) = {s[j] : j \in 1..Len(s)}
    BY <1>1 DEF ToSet
  <1>5. \A j \in 1..Len(s) : s[j] # h
    BY <1>4
  <1>6. \A j, k \in DOMAIN Append(s, h) : Append(s, h)[j] = Append(s, h)[k] => j = k
    BY <1>1, <1>2, <1>3, <1>5
  <1>7. ToSet(Append(s, h)) = {Append(s, h)[j] : j \in 1..(Len(s) + 1)}
    BY <1>3 DEF ToSet
  <1>8. ToSet(Append(s, h)) = ToSet(s) \cup {h}
    BY <1>1, <1>2, <1>4, <1>7
  <1> QED
    BY <1>2, <1>6, <1>8

LEMMA EmptyCache == ToSet(<<>>) = {} /\ <<>> \in Seq(Handle) /\ Len(<<>>) = 0
  BY EmptySeq DEF ToSet

\* A thread that gets a handle, and one that gives its own up.
LEMMA HeldTaken ==
  ASSUME TypeHandles, NEW t \in Thread, NEW h \in Handle, handle[t] = None,
         handle' = [handle EXCEPT ![t] = h]
  PROVE  held' = held \cup {h}
  BY Constants DEF TypeHandles, held

LEMMA HeldGiven ==
  ASSUME TypeHandles, OneOwner, NEW t \in Thread, handle[t] # None,
         handle' = [handle EXCEPT ![t] = None]
  PROVE  held' = held \ {handle[t]}
  BY Constants DEF TypeHandles, OneOwner, held
\* A step that moves no handle.
LEMMA SameHandles ==
  ASSUME OneOwner, NoLeak,
         active' = active, cache' = cache, live' = live, handle' = handle
  PROVE  OneOwner' /\ NoLeak'
  <1>1. held' = held
    BY DEF held
  <1>2. ToSet(cache') = ToSet(cache)
    OBVIOUS
  <1>3. OneOwner'
    BY <1>1, <1>2 DEF OneOwner
  <1>4. NoLeak'
    BY <1>1, <1>2 DEF NoLeak
  <1> QED
    BY <1>3, <1>4

----------------------------------------------------------------------------
LEMMA InitIInv == Init => IInv
  <1> SUFFICES ASSUME Init PROVE IInv
    OBVIOUS
  <1> USE Constants, EmptyCache
  <1>1. TypePc
    BY DEF Init, TypePc, Holding
  <1>2. HandleInv
    <2>1. TypeHandles
      BY DEF Init, TypeHandles
    <2>2. held = {}
      BY DEF Init, held
    <2>3. Holders /\ active \in BOOLEAN
      BY DEF Init, Holders, Holding, Locking
    <2>4. OneOwner
      BY DEF Init, OneOwner
    <2>5. NoLeak
      BY <2>2 DEF Init, NoLeak
    <2>6. OwnRequest /\ ResetHandle
      BY DEF Init, OwnRequest, ResetHandle
    <2> QED
      BY <2>1, <2>3, <2>4, <2>5, <2>6 DEF HandleInv
  <1>3. LockInv
    <2>1. TypeLocks
      BY DEF Init, TypeLocks
    <2> QED
      BY <2>1 DEF Init, LockInv, Locking
  <1> QED
    BY <1>1, <1>2, <1>3 DEF IInv

LEMMA PcStep ==
  ASSUME TypePc, NEW t \in Thread, NEW from, NEW to \in {"idle", "create"} \cup Holding,
         Goto(t, from, to)
  PROVE  /\ TypePc'
         /\ pc[t] = from
         /\ pc'[t] = to
         /\ \A u \in Thread \ {t} : pc'[u] = pc[u]
  BY DEF TypePc, Goto

\* A step between places without a lock
LEMMA HandlesKeepLocks ==
  ASSUME TypePc, LockInv, NEW t \in Thread, UNCHANGED <<locks, locking>>,
         pc[t] \notin Locking, pc'[t] \notin Locking,
         \A u \in Thread \ {t} : pc'[u] = pc[u]
  PROVE  LockInv'
  <1> USE Constants
  <1>1. /\ readers' = readers
        /\ writer' = writer
        /\ owner' = owner
        /\ locking' = locking
    BY DEF locks
  <1>2. TypeLocks'
    BY <1>1 DEF LockInv, TypeLocks
  <1>3. \A d \in Datum : \A u \in readers[d] : u \in Thread /\ u # t
    BY DEF LockInv, TypeLocks, Locking
  <1>4. \A d \in Datum : owner[d] # None => owner[d] \in Thread /\ owner[d] # t
    BY DEF LockInv, TypeLocks, Locking
  <1>5. (\A d \in Datum : \A u \in readers[d] : pc[u] = "locked" /\ locking[u] = d)'
    BY <1>1, <1>3 DEF LockInv
  <1>6. (\A d \in Datum :
           writer[d] # None => locking[writer[d]] = d /\ pc[writer[d]] \in Locking)'
    BY <1>1 DEF LockInv, TypeLocks
  <1>7. (\A d \in Datum : writer[d] = None \/ readers[d] = {})'
    BY <1>1 DEF LockInv
  <1>8. (\A d \in Datum : owner[d] # None => owner[d] = writer[d] /\ pc[owner[d]] = "locked")'
    BY <1>1, <1>4 DEF LockInv
  <1>9. (\A u \in Thread :
           pc[u] \in Locking =>
             /\ locking[u] \in Datum
             /\ IF u \in readers[locking[u]] THEN pc[u] = "locked"
                                             ELSE writer[locking[u]] = u
             /\ pc[u] = "locked" /\ u \notin readers[locking[u]] => owner[locking[u]] = u)'
    BY <1>1 DEF LockInv
  <1> QED
    BY <1>2, <1>5, <1>6, <1>7, <1>8, <1>9 DEF LockInv

\* A step of a thread that performs its transfer, with or without a lock
LEMMA LocksKeepHandles ==
  ASSUME TypePc, HandleInv, NEW t \in Thread, UNCHANGED handles,
         pc[t] \in {"perform"} \cup Locking, pc'[t] \in {"perform"} \cup Locking,
         \A u \in Thread \ {t} : pc'[u] = pc[u]
  PROVE  HandleInv'
  <1> USE Constants
  <1>1. /\ active' = active
        /\ cache' = cache
        /\ live' = live
        /\ handle' = handle
        /\ callback_arg' = callback_arg
    BY DEF handles
  <1>2. TypeHandles' /\ active' \in BOOLEAN
    BY <1>1 DEF HandleInv, TypeHandles
  <1>3. Holders'
    BY <1>1 DEF HandleInv, Holders, Holding, Locking
  <1>4. OneOwner'
    BY <1>1 DEF HandleInv, OneOwner, held
  <1>5. NoLeak'
    BY <1>1 DEF HandleInv, NoLeak, held
  <1>6. OwnRequest'
    BY <1>1 DEF HandleInv, OwnRequest, Locking
  <1>7. ResetHandle'
    BY <1>1 DEF HandleInv, ResetHandle, Locking
  <1> QED
    BY <1>2, <1>3, <1>4, <1>5, <1>6, <1>7 DEF HandleInv

----------------------------------------------------------------------------
\* The handles

LEMMA TakeCachedStep == ASSUME IInv, NEW t \in Thread, TakeCached(t) PROVE IInv'
  <1> USE Constants DEF IInv
  <1> DEFINE h == Last(cache)
  <1>1. TypePc' /\ pc[t] = "idle" /\ pc'[t] = "configure" /\ \A u \in Thread \ {t} : pc'[u] = pc[u]
    BY PcStep DEF TakeCached, Holding
  <1>2. LockInv'
    BY <1>1, HandlesKeepLocks DEF TakeCached, Locking
  <1>3. /\ active /\ cache # <<>>
        /\ handle' = [handle EXCEPT ![t] = h]
        /\ cache' = Front(cache)
        /\ active' = active /\ live' = live /\ callback_arg' = callback_arg
    BY DEF TakeCached, popped
  <1>4. handle[t] = None
    BY <1>1 DEF HandleInv, Holders, Holding, Locking
  <1>5. /\ cache' \in Seq(Handle)
        /\ Len(cache') = Len(cache) - 1
        /\ \A j, k \in DOMAIN cache' : cache'[j] = cache'[k] => j = k
        /\ h \in Handle
        /\ ToSet(cache') = ToSet(cache) \ {h}
        /\ h \in ToSet(cache)
    BY <1>3, PopCache DEF HandleInv, TypeHandles, OneOwner
  <1>6. held' = held \cup {h}
    BY <1>3, <1>4, <1>5, HeldTaken DEF HandleInv
  <1> HIDE DEF h
  <1>7. TypeHandles'
    BY <1>3, <1>5, LenProperties DEF HandleInv, TypeHandles
  <1>8. Holders'
    BY <1>1, <1>3, <1>5 DEF HandleInv, TypeHandles, Holders, Holding, Locking
  <1>9. \A u \in Thread : handle[u] # h
    BY <1>5 DEF HandleInv, OneOwner, held
  <1>10. OneOwner'
    BY <1>3, <1>5, <1>6, <1>9 DEF HandleInv, TypeHandles, OneOwner
  <1>11. NoLeak'
    BY <1>3, <1>5, <1>6 DEF HandleInv, NoLeak
  <1>12. OwnRequest'
    BY <1>1, <1>3, <1>5 DEF HandleInv, TypeHandles, OwnRequest
  <1>13. ResetHandle'
    BY <1>1, <1>3 DEF HandleInv, TypeHandles, ResetHandle
  <1> QED
    BY <1>1, <1>2, <1>3, <1>7, <1>8, <1>10, <1>11, <1>12, <1>13 DEF HandleInv

\* Leaving for the allocation of a handle, and coming back without one
LEMMA NoHandleStep ==
  ASSUME IInv, NEW t \in Thread, CacheEmpty(t) \/ CreateFails(t)
  PROVE  IInv'
  <1> USE Constants DEF IInv
  <1>1. /\ TypePc'
        /\ pc[t] \in {"idle", "create"}
        /\ pc'[t] \in {"idle", "create"}
        /\ pc[t] = "create" => pc'[t] = "idle"
        /\ \A u \in Thread \ {t} : pc'[u] = pc[u]
    BY PcStep DEF CacheEmpty, CreateFails
  <1>2. LockInv'
    BY <1>1, HandlesKeepLocks DEF CacheEmpty, CreateFails, Locking
  <1>3. /\ active' = active /\ cache' = cache /\ live' = live
        /\ handle' = handle /\ callback_arg' = callback_arg
        /\ active \/ pc[t] = "create"
    BY <1>1 DEF CacheEmpty, CreateFails, handles, Goto
  <1>4. TypeHandles' /\ OneOwner' /\ NoLeak'
    <2>1. TypeHandles'
      BY <1>3 DEF HandleInv, TypeHandles
    <2> QED
      BY <1>3, <2>1, SameHandles DEF HandleInv
  <1>5. Holders'
    BY <1>1, <1>3 DEF HandleInv, Holders, Holding, Locking
  <1>6. OwnRequest' /\ ResetHandle'
    BY <1>1, <1>3 DEF HandleInv, OwnRequest, ResetHandle
  <1> QED
    BY <1>1, <1>2, <1>3, <1>4, <1>5, <1>6 DEF HandleInv

LEMMA CreateStep == ASSUME IInv, NEW t \in Thread, Create(t) PROVE IInv'
  <1> USE Constants DEF IInv
  <1>1. TypePc' /\ pc[t] = "create" /\ pc'[t] = "configure" /\ \A u \in Thread \ {t} : pc'[u] = pc[u]
    BY PcStep DEF Create, Holding
  <1>2. LockInv'
    BY <1>1, HandlesKeepLocks DEF Create, Locking
  <1>3. PICK h \in Handle \ live :
           /\ handle' = [handle EXCEPT ![t] = h]
           /\ live' = live \cup {h}
           /\ callback_arg' = [callback_arg EXCEPT ![h] = None]
    BY DEF Create
  <1>4. active' = active /\ cache' = cache
    BY DEF Create
  <1>5. handle[t] = None /\ active
    BY <1>1 DEF HandleInv, Holders, Holding, Locking
  <1>6. held' = held \cup {h}
    BY <1>3, <1>5, HeldTaken DEF HandleInv
  <1>7. h \notin held /\ h \notin ToSet(cache)
    BY <1>3 DEF HandleInv, NoLeak
  <1>8. \A u \in Thread : handle[u] # h
    BY <1>7 DEF held
  <1>9. TypeHandles'
    BY <1>3, <1>4 DEF HandleInv, TypeHandles
  <1>10. Holders'
    BY <1>1, <1>3, <1>4 DEF HandleInv, TypeHandles, Holders, Holding, Locking
  <1>11. OneOwner'
    BY <1>3, <1>4, <1>6, <1>7, <1>8 DEF HandleInv, TypeHandles, OneOwner
  <1>12. NoLeak'
    BY <1>3, <1>4, <1>5, <1>6 DEF HandleInv, NoLeak
  <1>13. \A g \in Handle \ {h} : callback_arg'[g] = callback_arg[g]
    BY <1>3 DEF HandleInv, TypeHandles
  <1>14. \A u \in Thread \ {t} : handle'[u] = handle[u]
    BY <1>3 DEF HandleInv, TypeHandles
  <1>15. \A u \in Thread : handle[u] \in Handle \cup {None}
    BY DEF HandleInv, TypeHandles
  <1>16. OwnRequest'
    <2>1. \A g \in ToSet(cache) : g \in live /\ g \in Handle
      BY DEF HandleInv, NoLeak, TypeHandles
    <2>2. \A g \in ToSet(cache)' : callback_arg'[g] = None
      BY <1>4, <1>7, <1>13, <2>1 DEF HandleInv, OwnRequest
    <2>3. \A u \in Thread :
             pc'[u] \in {"perform", "own", "locked", "unlock"} => callback_arg'[handle'[u]] = u
      <3>1. SUFFICES ASSUME NEW u \in Thread, pc'[u] \in {"perform", "own", "locked", "unlock"}
                     PROVE  callback_arg'[handle'[u]] = u
        OBVIOUS
      <3>2. u # t /\ pc'[u] = pc[u]
        BY <1>1, <3>1
      <3>3. handle[u] \in Handle
        BY <1>15, <3>1, <3>2 DEF HandleInv, Holders, Holding, Locking
      <3> QED
        BY <1>8, <1>13, <1>14, <3>1, <3>2, <3>3 DEF HandleInv, OwnRequest
    <2> QED
      BY <2>2, <2>3 DEF OwnRequest
  <1>17. ResetHandle'
    <2>1. SUFFICES ASSUME NEW u \in Thread, pc'[u] = "release"
                   PROVE  callback_arg'[handle'[u]] = None
      BY DEF ResetHandle
    <2>2. u # t /\ pc[u] = "release"
      BY <1>1, <2>1
    <2>3. handle[u] \in Handle
      BY <1>15, <2>2 DEF HandleInv, Holders, Holding
    <2> QED
      BY <1>8, <1>13, <1>14, <2>2, <2>3 DEF HandleInv, ResetHandle
  <1> QED
    BY <1>1, <1>2, <1>4, <1>9, <1>10, <1>11, <1>12, <1>16, <1>17 DEF HandleInv

\* The callbacks of the thread's handle get an argument
LEMMA ArgumentStep ==
  ASSUME IInv, NEW t \in Thread, Configure(t) \/ Reset(t)
  PROVE  IInv'
  <1> USE Constants DEF IInv
  <1>1. /\ TypePc'
        /\ \/ pc[t] = "configure" /\ pc'[t] = "perform"
           \/ pc[t] = "perform" /\ pc'[t] = "release"
        /\ \A u \in Thread \ {t} : pc'[u] = pc[u]
    BY PcStep DEF Configure, Reset, Holding
  <1>2. LockInv'
    BY <1>1, HandlesKeepLocks DEF Configure, Reset, Locking
  <1>3. active' = active /\ cache' = cache /\ live' = live /\ handle' = handle
    BY DEF Configure, Reset
  <1>4. handle[t] \in Handle
    BY <1>1 DEF HandleInv, TypeHandles, Holders, Holding
  <1>5. callback_arg' = [callback_arg EXCEPT
          ![handle[t]] = IF pc'[t] = "perform" THEN t ELSE None]
    BY <1>1 DEF Configure, Reset, after_reset, Goto
  <1>6. TypeHandles' /\ OneOwner' /\ NoLeak'
    <2>1. TypeHandles'
      BY <1>3, <1>4, <1>5 DEF HandleInv, TypeHandles
    <2> QED
      BY <1>3, <2>1, SameHandles DEF HandleInv
  <1>7. Holders'
    BY <1>1, <1>3 DEF HandleInv, Holders, Holding, Locking
  <1>8. callback_arg'[handle[t]] = IF pc'[t] = "perform" THEN t ELSE None
    BY <1>4, <1>5 DEF HandleInv, TypeHandles
  <1>9. \A g \in Handle \ {handle[t]} : callback_arg'[g] = callback_arg[g]
    BY <1>5 DEF HandleInv, TypeHandles
  <1>10. \A u \in Thread \ {t} : handle[u] # None => handle[u] \in Handle \ {handle[t]}
    BY <1>4 DEF HandleInv, TypeHandles, OneOwner
  <1>11. \A g \in ToSet(cache) : g \in Handle \ {handle[t]}
    BY <1>4 DEF HandleInv, TypeHandles, NoLeak, OneOwner, held
  <1>12. OwnRequest'
    <2>1. \A g \in ToSet(cache)' : callback_arg'[g] = None
      BY <1>3, <1>9, <1>11 DEF HandleInv, OwnRequest
    <2>2. \A u \in Thread :
             pc'[u] \in {"perform", "own", "locked", "unlock"} => callback_arg'[handle'[u]] = u
      BY <1>1, <1>3, <1>8, <1>9, <1>10 DEF HandleInv, OwnRequest, Holders, Holding, Locking
    <2> QED
      BY <2>1, <2>2 DEF OwnRequest
  <1>13. ResetHandle'
    BY <1>1, <1>3, <1>8, <1>9, <1>10 DEF HandleInv, ResetHandle, Holders, Holding
  <1> QED
    BY <1>1, <1>2, <1>3, <1>6, <1>7, <1>12, <1>13 DEF HandleInv

\* A thread's handle is cleaned up, or put in the cache
LEMMA GiveUpStep ==
  ASSUME IInv, NEW t \in Thread, ConfigureFails(t) \/ Release(t)
  PROVE  IInv'
  <1> USE Constants DEF IInv
  <1> DEFINE h == handle[t]
  <1>1. /\ TypePc'
        /\ pc[t] \in {"configure", "release"}
        /\ pc'[t] = "idle"
        /\ \A u \in Thread \ {t} : pc'[u] = pc[u]
    BY PcStep DEF ConfigureFails, Release, Holding
  <1>2. LockInv'
    BY <1>1, HandlesKeepLocks DEF ConfigureFails, Release, Locking
  <1>3. /\ active' = active
        /\ callback_arg' = callback_arg
        /\ handle' = [handle EXCEPT ![t] = None]
    BY DEF ConfigureFails, Release
  <1>4. h \in Handle /\ handle[t] # None
    BY <1>1 DEF HandleInv, TypeHandles, Holders, Holding
  <1>5. \/ live' = live \ {h} /\ cache' = cache
        \/ live' = live /\ cache' = Append(cache, h) /\ Len(cache) < CacheSize /\ pc[t] = "release"
    BY DEF ConfigureFails, Release, room, cleaned, Goto
  <1>6. held' = held \ {h}
    BY <1>3, <1>4, HeldGiven DEF HandleInv
  <1>7. h \in held /\ h \notin ToSet(cache) /\ h \in live
    BY <1>4 DEF HandleInv, OneOwner, NoLeak, held
  <1>8. active
    BY <1>1 DEF HandleInv, Holders
  <1>9. /\ handle'[t] = None
        /\ \A u \in Thread \ {t} : handle'[u] = handle[u]
    BY <1>3 DEF HandleInv, TypeHandles
  <1>10. Holders'
    BY <1>1, <1>3, <1>8, <1>9 DEF HandleInv, Holders, Holding, Locking
  <1>11. handle' \in [Thread -> Handle \cup {None}]
    BY <1>3 DEF HandleInv, TypeHandles
  <1>12. ResetHandle'
    BY <1>1, <1>3, <1>9 DEF HandleInv, ResetHandle
  <1>13. \A u \in Thread :
           pc'[u] \in {"perform", "own", "locked", "unlock"} => callback_arg'[handle'[u]] = u
    BY <1>1, <1>3, <1>9 DEF HandleInv, OwnRequest
  <1>14. \A u, v \in Thread : handle'[u] = handle'[v] /\ handle'[u] # None => u = v
    BY <1>9 DEF HandleInv, OneOwner
  <1> HIDE DEF h
  <1>15. CASE live' = live \ {h} /\ cache' = cache
    <2>1. TypeHandles'
      BY <1>3, <1>11, <1>15 DEF HandleInv, TypeHandles
    <2>2. ToSet(cache') = ToSet(cache)
      BY <1>15
    <2>3. OneOwner'
      BY <1>6, <1>14, <1>15, <2>2 DEF HandleInv, OneOwner
    <2>4. NoLeak'
      BY <1>3, <1>6, <1>7, <1>8, <1>15, <2>2 DEF HandleInv, NoLeak
    <2>5. OwnRequest'
      BY <1>3, <1>13, <2>2 DEF HandleInv, OwnRequest
    <2> QED
      BY <1>1, <1>2, <1>3, <1>10, <1>12, <2>1, <2>3, <2>4, <2>5 DEF HandleInv
  <1>16. CASE live' = live /\ cache' = Append(cache, h) /\ Len(cache) < CacheSize /\ pc[t] = "release"
    <2>1. /\ cache' \in Seq(Handle)
          /\ Len(cache') = Len(cache) + 1
          /\ \A j, k \in DOMAIN cache' : cache'[j] = cache'[k] => j = k
          /\ ToSet(cache') = ToSet(cache) \cup {h}
      BY <1>4, <1>7, <1>16, PushCache DEF HandleInv, TypeHandles, OneOwner
    <2>2. TypeHandles'
      BY <1>3, <1>11, <1>16, <2>1, LenProperties DEF HandleInv, TypeHandles
    <2>3. OneOwner'
      BY <1>6, <1>14, <2>1 DEF HandleInv, OneOwner
    <2>4. NoLeak'
      BY <1>3, <1>6, <1>7, <1>8, <1>16, <2>1 DEF HandleInv, NoLeak
    <2>5. callback_arg[h] = None
      BY <1>16 DEF HandleInv, ResetHandle, h
    <2>6. OwnRequest'
      BY <1>3, <1>13, <2>1, <2>5 DEF HandleInv, OwnRequest
    <2> QED
      BY <1>1, <1>2, <1>3, <1>10, <1>12, <2>2, <2>3, <2>4, <2>6 DEF HandleInv
  <1> QED
    BY <1>5, <1>15, <1>16

LEMMA ModuleStep == ASSUME IInv, Activate \/ Deactivate PROVE IInv'
  <1> USE Constants, EmptyCache DEF IInv
  <1>1. /\ pc' = pc /\ handle' = handle /\ callback_arg' = callback_arg
        /\ UNCHANGED <<locks, locking>>
        /\ cache' = <<>>
        /\ active' \in BOOLEAN
        /\ \A t \in Thread : pc[t] = "idle"
    BY DEF Activate, Deactivate, HandleInv, Holders
  <1>2. TypePc'
    BY <1>1 DEF TypePc
  <1>3. LockInv'
    BY <1>1 DEF LockInv, TypeLocks, locks
  <1>4. held = {}
    BY <1>1 DEF HandleInv, Holders, Holding, Locking, held
  <1>5. held' = {}
    BY <1>1, <1>4 DEF held
  <1>6. live' = {}
    <2>1. CASE Activate
      BY <2>1 DEF Activate, HandleInv, NoLeak
    <2>2. CASE Deactivate
      BY <1>4, <2>2 DEF Deactivate, HandleInv, NoLeak
    <2> QED
      BY <2>1, <2>2
  <1>7. TypeHandles'
    BY <1>1, <1>6 DEF HandleInv, TypeHandles
  <1>8. Holders' /\ ResetHandle'
    BY <1>1 DEF HandleInv, Holders, ResetHandle
  <1>9. OneOwner'
    BY <1>1, <1>5 DEF HandleInv, OneOwner
  <1>10. NoLeak'
    BY <1>1, <1>5, <1>6 DEF NoLeak
  <1>11. OwnRequest'
    BY <1>1 DEF HandleInv, OwnRequest
  <1> QED
    BY <1>1, <1>2, <1>3, <1>7, <1>8, <1>9, <1>10, <1>11 DEF HandleInv

----------------------------------------------------------------------------
\* The locks

\* The last two conjuncts of LockInv
OwnersInv ==
  \A d \in Datum : owner[d] # None => owner[d] = writer[d] /\ pc[owner[d]] = "locked"

Locker(t) ==
  pc[t] \in Locking =>
    /\ locking[t] \in Datum
    /\ IF t \in readers[locking[t]] THEN pc[t] = "locked" ELSE writer[locking[t]] = t
    /\ pc[t] = "locked" /\ t \notin readers[locking[t]] => owner[locking[t]] = t

LEMMA Lockers == LockInv => OwnersInv /\ \A t \in Thread : Locker(t)
  BY DEF LockInv, OwnersInv, Locker

LEMMA ReadLockStep ==
  ASSUME IInv, NEW t \in Thread, NEW d \in Datum, ReadLock(t, d)
  PROVE  IInv'
  <1> USE Constants DEF IInv
  <1>1. TypePc' /\ pc[t] = "perform" /\ pc'[t] = "locked" /\ \A u \in Thread \ {t} : pc'[u] = pc[u]
    BY PcStep DEF ReadLock, Holding, Locking
  <1>2. HandleInv'
    BY <1>1, LocksKeepHandles DEF ReadLock, Locking
  <1>3. /\ writer[d] = None
        /\ readers' = [readers EXCEPT ![d] = @ \cup {t}]
        /\ locking' = [locking EXCEPT ![t] = d]
        /\ writer' = writer
        /\ owner' = owner
    BY DEF ReadLock
  <1>4. TypeLocks'
    BY <1>3 DEF LockInv, TypeLocks
  <1>5. /\ readers'[d] = readers[d] \cup {t}
        /\ \A e \in Datum \ {d} : readers'[e] = readers[e]
        /\ locking'[t] = d
        /\ \A u \in Thread \ {t} : locking'[u] = locking[u]
    BY <1>3 DEF LockInv, TypeLocks
  <1>6. \A e \in Datum : t \notin readers[e] /\ readers[e] \subseteq Thread
    BY <1>1 DEF LockInv, TypeLocks
  <1>7. \A e \in Datum : writer[e] \in Thread => writer[e] # t
    BY <1>1 DEF LockInv, Locking
  <1>8. (\A e \in Datum : \A u \in readers[e] : pc[u] = "locked" /\ locking[u] = e)'
    BY <1>1, <1>5, <1>6 DEF LockInv
  <1>9. (\A e \in Datum :
            writer[e] # None => locking[writer[e]] = e /\ pc[writer[e]] \in Locking)'
    <2>1. SUFFICES ASSUME NEW e \in Datum, writer[e] # None
                   PROVE  locking'[writer[e]] = e /\ pc'[writer[e]] \in Locking
      BY <1>3
    <2>2. writer[e] \in Thread \ {t}
      BY <1>7, <2>1 DEF LockInv, TypeLocks
    <2> QED
      BY <1>1, <1>5, <2>1, <2>2 DEF LockInv
  <1>10. (\A e \in Datum : writer[e] = None \/ readers[e] = {})'
    BY <1>3, <1>5 DEF LockInv
  <1>11. OwnersInv'
    BY <1>1, <1>3 DEF LockInv, TypeLocks, OwnersInv
  <1>12. \A u \in Thread : Locker(u)'
    <2>1. SUFFICES ASSUME NEW u \in Thread, pc'[u] \in Locking PROVE Locker(u)'
      BY DEF Locker
    <2>2. CASE u = t
      BY <1>1, <1>5, <2>2 DEF Locker
    <2>3. CASE u # t
      <3>1. locking'[u] = locking[u] /\ locking[u] \in Datum /\ pc'[u] = pc[u]
        BY <1>1, <1>5, <2>1, <2>3, Lockers DEF Locker
      <3>2. u \in readers'[locking[u]] <=> u \in readers[locking[u]]
        BY <1>5, <2>3, <3>1
      <3> QED
        BY <1>3, <2>1, <3>1, <3>2, Lockers DEF Locker
    <2> QED
      BY <2>2, <2>3
  <1> QED
    BY <1>1, <1>2, <1>4, <1>8, <1>9, <1>10, <1>11, <1>12 DEF LockInv, OwnersInv, Locker

LEMMA WriteLockStep ==
  ASSUME IInv, NEW t \in Thread, NEW d \in Datum, WriteLock(t, d)
  PROVE  IInv'
  <1> USE Constants DEF IInv
  <1>1. TypePc' /\ pc[t] = "perform" /\ pc'[t] = "own" /\ \A u \in Thread \ {t} : pc'[u] = pc[u]
    BY PcStep DEF WriteLock, Holding, Locking
  <1>2. HandleInv'
    BY <1>1, LocksKeepHandles DEF WriteLock, Locking
  <1>3. /\ writer[d] = None
        /\ readers[d] = {}
        /\ writer' = [writer EXCEPT ![d] = t]
        /\ locking' = [locking EXCEPT ![t] = d]
        /\ readers' = readers
        /\ owner' = owner
    BY DEF WriteLock
  <1>4. TypeLocks'
    BY <1>3 DEF LockInv, TypeLocks
  <1>5. /\ writer'[d] = t
        /\ \A e \in Datum \ {d} : writer'[e] = writer[e]
        /\ locking'[t] = d
        /\ \A u \in Thread \ {t} : locking'[u] = locking[u]
    BY <1>3 DEF LockInv, TypeLocks
  <1>6. \A e \in Datum : t \notin readers[e] /\ readers[e] \subseteq Thread
    BY <1>1 DEF LockInv, TypeLocks
  <1>7. \A e \in Datum : writer[e] # None => writer[e] \in Thread \ {t}
    BY <1>1 DEF LockInv, TypeLocks, Locking
  <1>8. (\A e \in Datum : \A u \in readers[e] : pc[u] = "locked" /\ locking[u] = e)'
    BY <1>1, <1>3, <1>5, <1>6 DEF LockInv
  <1>9. (\A e \in Datum :
            writer[e] # None => locking[writer[e]] = e /\ pc[writer[e]] \in Locking)'
    <2>1. SUFFICES ASSUME NEW e \in Datum, e # d, writer[e] # None
                   PROVE  locking'[writer[e]] = e /\ pc'[writer[e]] \in Locking
      BY <1>1, <1>5 DEF Locking
    <2> QED
      BY <1>1, <1>5, <1>7, <2>1 DEF LockInv
  <1>10. (\A e \in Datum : writer[e] = None \/ readers[e] = {})'
    BY <1>3, <1>5 DEF LockInv
  <1>11. OwnersInv'
    <2>1. SUFFICES ASSUME NEW e \in Datum, owner[e] # None
                   PROVE  owner[e] = writer'[e] /\ pc'[owner[e]] = "locked"
      BY <1>3 DEF OwnersInv
    <2>2. owner[e] = writer[e] /\ pc[owner[e]] = "locked" /\ e # d
      BY <1>3, <2>1, Lockers DEF OwnersInv
    <2> QED
      BY <1>1, <1>5, <1>7, <2>1, <2>2
  <1>12. \A u \in Thread : Locker(u)'
    <2>1. SUFFICES ASSUME NEW u \in Thread, pc'[u] \in Locking PROVE Locker(u)'
      BY DEF Locker
    <2>2. CASE u = t
      BY <1>1, <1>3, <1>5, <2>2 DEF Locker
    <2>3. CASE u # t
      <3>1. locking'[u] = locking[u] /\ locking[u] \in Datum /\ pc'[u] = pc[u]
        BY <1>1, <1>5, <2>1, <2>3, Lockers DEF Locker
      <3>2. locking[u] # d
        BY <1>3, <2>1, <3>1, Lockers DEF Locker
      <3> QED
        BY <1>3, <1>5, <2>1, <3>1, <3>2, Lockers DEF Locker
    <2> QED
      BY <2>2, <2>3
  <1> QED
    BY <1>1, <1>2, <1>4, <1>8, <1>9, <1>10, <1>11, <1>12 DEF LockInv, OwnersInv, Locker

\* The writer of a lock becomes its owner
LEMMA OwnStep == ASSUME IInv, NEW t \in Thread, Own(t) PROVE IInv'
  <1> USE Constants DEF IInv
  <1> DEFINE d == locking[t]
  <1>1. TypePc' /\ pc[t] = "own" /\ pc'[t] = "locked" /\ \A u \in Thread \ {t} : pc'[u] = pc[u]
    BY PcStep DEF Own, Holding, Locking
  <1>2. HandleInv'
    BY <1>1, LocksKeepHandles DEF Own, Locking
  <1>3. d \in Datum /\ writer[d] = t /\ t \notin readers[d]
    BY <1>1, Lockers DEF Locker, Locking
  <1>4. /\ owner' = [owner EXCEPT ![d] = t]
        /\ readers' = readers
        /\ writer' = writer
        /\ locking' = locking
    BY DEF Own, owner_of
  <1> HIDE DEF d
  <1>5. TypeLocks'
    BY <1>4 DEF LockInv, TypeLocks
  <1>6. /\ owner'[d] = t
        /\ \A e \in Datum \ {d} : owner'[e] = owner[e]
    BY <1>3, <1>4 DEF LockInv, TypeLocks
  <1>7. (\A e \in Datum : \A u \in readers[e] : pc[u] = "locked" /\ locking[u] = e)'
    BY <1>1, <1>4 DEF LockInv, TypeLocks
  <1>8. (\A e \in Datum :
            writer[e] # None => locking[writer[e]] = e /\ pc[writer[e]] \in Locking)'
    BY <1>1, <1>4 DEF LockInv, TypeLocks, Locking
  <1>9. (\A e \in Datum : writer[e] = None \/ readers[e] = {})'
    BY <1>4 DEF LockInv
  <1>10. OwnersInv'
    BY <1>1, <1>3, <1>4, <1>6, Lockers DEF OwnersInv, LockInv, TypeLocks
  <1>11. \A u \in Thread : Locker(u)'
    <2>1. SUFFICES ASSUME NEW u \in Thread, pc'[u] \in Locking PROVE Locker(u)'
      BY DEF Locker
    <2>2. CASE u = t
      BY <1>1, <1>3, <1>4, <1>6, <2>2 DEF Locker, d
    <2>3. CASE u # t
      <3>1. locking[u] \in Datum /\ pc'[u] = pc[u]
        BY <1>1, <2>1, <2>3, Lockers DEF Locker
      <3>2. locking[u] = d => u \in readers[d]
        BY <1>3, <2>1, <2>3, <3>1, Lockers DEF Locker
      <3> QED
        BY <1>4, <1>6, <2>1, <3>1, <3>2, Lockers DEF Locker
    <2> QED
      BY <2>2, <2>3
  <1> QED
    BY <1>1, <1>2, <1>5, <1>7, <1>8, <1>9, <1>10, <1>11 DEF LockInv, OwnersInv, Locker

LEMMA ReadUnlockStep == ASSUME IInv, NEW t \in Thread, ReadUnlock(t) PROVE IInv'
  <1> USE Constants DEF IInv
  <1> DEFINE d == locking[t]
  <1>1. TypePc' /\ pc[t] = "locked" /\ pc'[t] = "perform" /\ \A u \in Thread \ {t} : pc'[u] = pc[u]
    BY PcStep DEF ReadUnlock, Holding, Locking
  <1>2. HandleInv'
    BY <1>1, LocksKeepHandles DEF ReadUnlock, Locking
  <1>3. d \in Datum /\ owner[d] # t /\ t \in readers[d] /\ writer[d] = None
    BY <1>1, Lockers DEF ReadUnlock, mine, owner_of, LockInv, Locker, Locking
  <1>4. /\ readers' = [readers EXCEPT ![d] = @ \ {t}]
        /\ locking' = [locking EXCEPT ![t] = None]
        /\ owner' = owner
        /\ writer' = writer
    BY DEF ReadUnlock
  <1>5. TypeLocks'
    BY <1>3, <1>4 DEF LockInv, TypeLocks
  <1>6. /\ readers'[d] = readers[d] \ {t}
        /\ \A e \in Datum \ {d} : readers'[e] = readers[e]
        /\ \A u \in Thread \ {t} : locking'[u] = locking[u]
    BY <1>3, <1>4 DEF LockInv, TypeLocks
  <1>7. \A e \in Datum \ {d} : t \notin readers[e] /\ writer[e] # t /\ owner[e] # t
    BY <1>3 DEF LockInv, TypeLocks, d
  <1> HIDE DEF d
  <1>8. (\A e \in Datum : \A u \in readers[e] : pc[u] = "locked" /\ locking[u] = e)'
    BY <1>1, <1>3, <1>6, <1>7 DEF LockInv, TypeLocks
  <1>9. (\A e \in Datum :
            writer[e] # None => locking[writer[e]] = e /\ pc[writer[e]] \in Locking)'
    <2>1. SUFFICES ASSUME NEW e \in Datum, writer[e] # None
                   PROVE  locking'[writer[e]] = e /\ pc'[writer[e]] \in Locking
      BY <1>4
    <2>2. writer[e] \in Thread \ {t}
      BY <1>3, <1>7, <2>1 DEF LockInv, TypeLocks
    <2> QED
      BY <1>1, <1>6, <2>1, <2>2 DEF LockInv
  <1>10. (\A e \in Datum : writer[e] = None \/ readers[e] = {})'
    BY <1>3, <1>4, <1>6 DEF LockInv
  <1>11. OwnersInv'
    BY <1>1, <1>3, <1>4, <1>7, Lockers DEF OwnersInv, LockInv, TypeLocks
  <1>12. \A u \in Thread : Locker(u)'
    <2>1. SUFFICES ASSUME NEW u \in Thread, pc'[u] \in Locking PROVE Locker(u)'
      BY DEF Locker
    <2>2. u # t
      BY <1>1, <2>1 DEF Locking
    <2>3. locking'[u] = locking[u] /\ locking[u] \in Datum /\ pc'[u] = pc[u]
      BY <1>1, <1>6, <2>1, <2>2, Lockers DEF Locker
    <2>4. u \in readers'[locking[u]] <=> u \in readers[locking[u]]
      BY <1>6, <2>2, <2>3
    <2> QED
      BY <1>4, <2>1, <2>3, <2>4, Lockers DEF Locker
  <1> QED
    BY <1>1, <1>2, <1>5, <1>8, <1>9, <1>10, <1>11, <1>12 DEF LockInv, OwnersInv, Locker

\* Both steps of a writer's unlock: no more the owner, then no more the writer
LEMMA WriteUnlockStep == ASSUME IInv, NEW t \in Thread, WriteUnlock(t) PROVE IInv'
  <1> USE Constants DEF IInv
  <1> DEFINE d == locking[t]
  <1>1. CASE /\ Goto(t, "locked", "unlock")
             /\ mine(t)
             /\ Disown(d)
             /\ UNCHANGED locking
    <2>1. TypePc' /\ pc[t] = "locked" /\ pc'[t] = "unlock" /\ \A u \in Thread \ {t} : pc'[u] = pc[u]
      BY <1>1, PcStep DEF Holding, Locking
    <2>2. HandleInv'
      BY <2>1, LocksKeepHandles DEF WriteUnlock, Locking
    <2>3. d \in Datum /\ owner[d] = t /\ writer[d] = t /\ t \notin readers[d]
      BY <1>1, <2>1, Lockers DEF mine, owner_of, LockInv, Locker, OwnersInv, Locking
    <2>4. /\ owner' = [owner EXCEPT ![d] = None]
          /\ readers' = readers
          /\ writer' = writer
          /\ locking' = locking
      BY <1>1 DEF Disown, owner_of, WriteUnlock
    <2>5. TypeLocks'
      BY <2>3, <2>4 DEF LockInv, TypeLocks
    <2>6. /\ owner'[d] = None
          /\ \A e \in Datum \ {d} : owner'[e] = owner[e]
      BY <2>3, <2>4 DEF LockInv, TypeLocks
    <2>7. \A e \in Datum \ {d} : t \notin readers[e] /\ owner[e] # t
      BY <2>3 DEF LockInv, TypeLocks, d
    <2> HIDE DEF d
    <2>8. (\A e \in Datum : \A u \in readers[e] : pc[u] = "locked" /\ locking[u] = e)'
      BY <2>1, <2>3, <2>4, <2>7 DEF LockInv, TypeLocks
    <2>9. (\A e \in Datum :
              writer[e] # None => locking[writer[e]] = e /\ pc[writer[e]] \in Locking)'
      BY <2>1, <2>4 DEF LockInv, TypeLocks, Locking
    <2>10. (\A e \in Datum : writer[e] = None \/ readers[e] = {})'
      BY <2>4 DEF LockInv
    <2>11. OwnersInv'
      <3>1. SUFFICES ASSUME NEW e \in Datum \ {d}, owner[e] # None
                     PROVE  owner[e] = writer[e] /\ pc'[owner[e]] = "locked"
        BY <2>4, <2>6 DEF OwnersInv
      <3>2. owner[e] \in Thread \ {t}
        BY <2>7, <3>1 DEF LockInv, TypeLocks
      <3> QED
        BY <2>1, <3>1, <3>2, Lockers DEF OwnersInv
    <2>12. \A u \in Thread : Locker(u)'
      <3>1. SUFFICES ASSUME NEW u \in Thread, pc'[u] \in Locking PROVE Locker(u)'
        BY DEF Locker
      <3>2. CASE u = t
        BY <2>1, <2>3, <2>4, <3>2 DEF Locker, d
      <3>3. CASE u # t
        <4>1. locking[u] \in Datum /\ pc'[u] = pc[u]
          BY <2>1, <3>1, <3>3, Lockers DEF Locker
        <4>2. locking[u] = d => u \in readers[d]
          BY <2>3, <3>1, <3>3, <4>1, Lockers DEF Locker
        <4> QED
          BY <2>4, <2>6, <3>1, <4>1, <4>2, Lockers DEF Locker
      <3> QED
        BY <3>2, <3>3
    <2> QED
      BY <2>1, <2>2, <2>5, <2>8, <2>9, <2>10, <2>11, <2>12 DEF LockInv, OwnersInv, Locker
  <1>2. CASE /\ Goto(t, "unlock", "perform")
             /\ Unlock(d)
             /\ locking' = [locking EXCEPT ![t] = None]
    <2>1. TypePc' /\ pc[t] = "unlock" /\ pc'[t] = "perform" /\ \A u \in Thread \ {t} : pc'[u] = pc[u]
      BY <1>2, PcStep DEF Holding, Locking
    <2>2. HandleInv'
      BY <2>1, LocksKeepHandles DEF WriteUnlock, Locking
    <2>3. d \in Datum /\ writer[d] = t /\ t \notin readers[d]
      BY <2>1, Lockers DEF Locker, Locking
    <2>4. /\ writer' = [writer EXCEPT ![d] = None]
          /\ locking' = [locking EXCEPT ![t] = None]
          /\ readers' = readers
          /\ owner' = owner
      BY <1>2 DEF Unlock, WriteUnlock
    <2>5. TypeLocks'
      BY <2>3, <2>4 DEF LockInv, TypeLocks
    <2>6. /\ writer'[d] = None
          /\ \A e \in Datum \ {d} : writer'[e] = writer[e]
          /\ \A u \in Thread \ {t} : locking'[u] = locking[u]
      BY <2>3, <2>4 DEF LockInv, TypeLocks
    <2>7. \A e \in Datum \ {d} : writer[e] # t
      BY <2>3 DEF LockInv, TypeLocks, d
    <2>8. \A e \in Datum : t \notin readers[e] /\ owner[e] # t
      BY <2>1 DEF LockInv
    <2> HIDE DEF d
    <2>9. (\A e \in Datum : \A u \in readers[e] : pc[u] = "locked" /\ locking[u] = e)'
      BY <2>1, <2>4, <2>6, <2>8 DEF LockInv, TypeLocks
    <2>10. (\A e \in Datum :
              writer[e] # None => locking[writer[e]] = e /\ pc[writer[e]] \in Locking)'
      <3>1. SUFFICES ASSUME NEW e \in Datum \ {d}, writer[e] # None
                     PROVE  locking'[writer[e]] = e /\ pc'[writer[e]] \in Locking
        BY <2>6
      <3>2. writer[e] \in Thread \ {t}
        BY <2>7, <3>1 DEF LockInv, TypeLocks
      <3> QED
        BY <2>1, <2>6, <3>1, <3>2 DEF LockInv
    <2>11. (\A e \in Datum : writer[e] = None \/ readers[e] = {})'
      BY <2>4, <2>6 DEF LockInv
    <2>12. OwnersInv'
      <3>1. SUFFICES ASSUME NEW e \in Datum, owner[e] # None
                     PROVE  owner[e] = writer'[e] /\ pc'[owner[e]] = "locked"
        BY <2>4 DEF OwnersInv
      <3>2. owner[e] \in Thread \ {t} /\ owner[e] = writer[e] /\ pc[owner[e]] = "locked"
        BY <2>8, <3>1, Lockers DEF OwnersInv, LockInv, TypeLocks
      <3> QED
        BY <2>1, <2>3, <2>6, <3>1, <3>2
    <2>13. \A u \in Thread : Locker(u)'
      <3>1. SUFFICES ASSUME NEW u \in Thread, pc'[u] \in Locking PROVE Locker(u)'
        BY DEF Locker
      <3>2. u # t
        BY <2>1, <3>1 DEF Locking
      <3>3. locking'[u] = locking[u] /\ locking[u] \in Datum /\ pc'[u] = pc[u]
        BY <2>1, <2>6, <3>1, <3>2, Lockers DEF Locker
      <3>4. locking[u] = d => u \in readers[d]
        BY <2>3, <3>1, <3>2, <3>3, Lockers DEF Locker
      <3> QED
        BY <2>4, <2>6, <3>1, <3>3, <3>4, Lockers DEF Locker
    <2> QED
      BY <2>1, <2>2, <2>5, <2>9, <2>10, <2>11, <2>12, <2>13 DEF LockInv, OwnersInv, Locker
  <1> QED
    BY <1>1, <1>2 DEF WriteUnlock, disown_first

----------------------------------------------------------------------------
LEMMA NextIInv == IInv /\ [Next]_vars => IInv'
  <1> SUFFICES ASSUME IInv, [Next]_vars PROVE IInv'
    OBVIOUS
  <1>1. CASE \E t \in Thread : Request(t)
    <2>1. PICK t \in Thread : Request(t)
      BY <1>1
    <2> QED
      BY <2>1, TakeCachedStep, NoHandleStep, CreateStep, ArgumentStep, GiveUpStep DEF Request
  <1>2. CASE \E t \in Thread : Share(t)
    <2>1. PICK t \in Thread : Share(t)
      BY <1>2
    <2> QED
      BY <2>1, ReadLockStep, WriteLockStep, OwnStep, ReadUnlockStep, WriteUnlockStep DEF Share
  <1>3. CASE Activate \/ Deactivate
    BY <1>3, ModuleStep
  <1>4. CASE UNCHANGED vars
    <2>1. /\ UNCHANGED <<active, cache, live, handle, callback_arg>>
          /\ UNCHANGED <<pc, readers, writer, owner, locking>>
      BY <1>4 DEF vars, handles, locks
    <2>2. TypePc'
      BY <2>1 DEF IInv, TypePc
    <2>3. HandleInv'
      <3>1. OneOwner' /\ NoLeak'
        BY <2>1, SameHandles DEF IInv, HandleInv
      <3> QED
        BY <2>1, <3>1 DEF IInv, HandleInv, TypeHandles, Holders, OwnRequest, ResetHandle
    <2>4. LockInv'
      BY <2>1 DEF IInv, LockInv, TypeLocks
    <2> QED
      BY <2>2, <2>3, <2>4 DEF IInv
  <1> QED
    BY <1>1, <1>2, <1>3, <1>4 DEF Next

\* The inductive invariant holds of every run of the cache and the locks.
THEOREM Invariant == Spec => []IInv
  BY InitIInv, NextIInv, PTL DEF Spec

\* The cache never outgrows its array (handle_release.c:37), and all has its type.
THEOREM TypesHold == Spec => []TypeOK
  <1>1. IInv => TypeOK
    BY DEF IInv, TypePc, HandleInv, TypeHandles, LockInv, TypeLocks, TypeOK, Holding, Locking
  <1> QED
    BY <1>1, Invariant, PTL

\* No handle is ever given to two requests, or given and cached (handle_get.c).
THEOREM OneOwnerHolds == Spec => []OneOwner
  <1>1. IInv => OneOwner
    BY DEF IInv, HandleInv
  <1> QED
    BY <1>1, Invariant, PTL

\* Every handle is in use, cached or cleaned up (handle_release.c).
THEOREM NoLeakHolds == Spec => []NoLeak
  <1>1. IInv => NoLeak
    BY DEF IInv, HandleInv
  <1> QED
    BY <1>1, Invariant, PTL

\* The callbacks of a transfer always get its own request (handle_get.c:137-163).
THEOREM OwnRequestHolds == Spec => []OwnRequest
  <1>1. IInv => OwnRequest
    BY DEF IInv, HandleInv
  <1> QED
    BY <1>1, Invariant, PTL

\* A share lock is always released the way it was taken (module.c:305).
THEOREM UnlockMatchesHolds == Spec => []UnlockMatches
  <1>1. IInv => UnlockMatches
    BY Constants DEF IInv, LockInv, UnlockMatches, mine, owner_of, Locking
  <1> QED
    BY <1>1, Invariant, PTL
=============================================================================

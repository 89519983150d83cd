---------------------------- MODULE SharedHandles ---------------------------
(***************************************************************************)
(* What the requests of all threads share: the cache of libcurl handles    *)
(* (handle_get.c, handle_release.c) with the module's activation and       *)
(* deactivation, and the locks of the CURLSH object that lets the handles  *)
(* share cookies, DNS entries and TLS sessions (module.c).                 *)
(*                                                                         *)
(* A thread runs one request at a time: it gets a handle, performs, and    *)
(* releases the handle.  While it performs, libcurl takes and releases the *)
(* locks of the shared data, one at a time.  A section of code under the   *)
(* cache's mutex is one action.                                            *)
(***************************************************************************)
EXTENDS Naturals, FiniteSets, Sequences, SequencesExt

CONSTANTS
  Thread,      \* threads with a request
  Handle,      \* identities of libcurl handles
  Datum,       \* data under a lock of its own: share, cookies, DNS, TLS sessions
  None,        \* no handle, no owner
  CacheSize    \* GLOBUS_I_DSI_REST_HANDLE_CACHE_SIZE

ASSUME SharedHandlesAssumption ==
  /\ None \notin Thread \cup Handle
  /\ CacheSize \in Nat

VARIABLES
  active,      \* is the module activated?
  cache,       \* globus_i_dsi_rest_handle_cache, up to its index
  live,        \* handles of curl_easy_init without a curl_easy_cleanup yet
  pc,          \* Thread -> where its request is
  handle,      \* Thread -> the request's handle
  callback_arg,\* Handle -> the thread whose request the callbacks get
  readers,     \* Datum -> threads with the read lock
  writer,      \* Datum -> the thread with the write lock
  owner,       \* Datum -> globus_l_dsi_rest_write_lock_owners
  locking      \* Thread -> the datum it locks or unlocks

handles == <<active, cache, live, handle, callback_arg>>
locks == <<readers, writer, owner>>
vars == <<handles, pc, locks, locking>>

Init ==
  /\ active = TRUE
  /\ cache = <<>>
  /\ live = {}
  /\ pc = [t \in Thread |-> "idle"]
  /\ handle = [t \in Thread |-> None]
  /\ callback_arg = [h \in Handle |-> None]
  /\ readers = [d \in Datum |-> {}]
  /\ writer = [d \in Datum |-> None]
  /\ owner = [d \in Datum |-> None]
  /\ locking = [t \in Thread |-> None]

Goto(t, from, to) == pc[t] = from /\ pc' = [pc EXCEPT ![t] = to]

----------------------------------------------------------------------------
\* globus_i_dsi_rest_handle_get

Mutant_PeekHandle == cache

\* The cache without the handle it gave
popped == Front(cache)

TakeCached(t) ==
  /\ active
  /\ Goto(t, "idle", "configure")
  /\ cache # <<>>
  /\ handle' = [handle EXCEPT ![t] = Last(cache)]
  /\ cache' = popped
  /\ UNCHANGED <<active, live, callback_arg, locks, locking>>

CacheEmpty(t) ==
  /\ active
  /\ Goto(t, "idle", "create")
  /\ cache = <<>>
  /\ UNCHANGED <<handles, locks, locking>>

\* curl_easy_init
Create(t) ==
  /\ Goto(t, "create", "configure")
  /\ \E h \in Handle \ live :
       /\ handle' = [handle EXCEPT ![t] = h]
       /\ live' = live \cup {h}
       /\ callback_arg' = [callback_arg EXCEPT ![h] = None]
  /\ UNCHANGED <<active, cache, locks, locking>>

CreateFails(t) ==
  /\ Goto(t, "create", "idle")
  /\ UNCHANGED <<handles, locks, locking>>

\* curl_easy_setopt, for all the options
Configure(t) ==
  /\ Goto(t, "configure", "perform")
  /\ callback_arg' = [callback_arg EXCEPT ![handle[t]] = t]
  /\ UNCHANGED <<active, cache, live, handle, locks, locking>>

\* An option is refused: the handle is not used, nor kept
ConfigureFails(t) ==
  /\ Goto(t, "configure", "idle")
  /\ live' = live \ {handle[t]}
  /\ handle' = [handle EXCEPT ![t] = None]
  /\ UNCHANGED <<active, cache, callback_arg, locks, locking>>

----------------------------------------------------------------------------
\* globus_i_dsi_rest_handle_release

Mutant_NoReset(t) == callback_arg

\* curl_easy_reset
after_reset(t) == [callback_arg EXCEPT ![handle[t]] = None]

Reset(t) ==
  /\ Goto(t, "perform", "release")
  /\ callback_arg' = after_reset(t)
  /\ UNCHANGED <<active, cache, live, handle, locks, locking>>

Mutant_OneMore == Len(cache) <= CacheSize

room == Len(cache) < CacheSize

Mutant_DropHandle(t) == live

\* The handles left when the cache has no room for this one
cleaned(t) == live \ {handle[t]}

Release(t) ==
  /\ Goto(t, "release", "idle")
  /\ IF room
     THEN cache' = Append(cache, handle[t]) /\ UNCHANGED live
     ELSE live' = cleaned(t) /\ UNCHANGED cache
  /\ handle' = [handle EXCEPT ![t] = None]
  /\ UNCHANGED <<active, callback_arg, locks, locking>>

----------------------------------------------------------------------------
\* The module.  It is deactivated when no request is left.

Deactivate ==
  /\ active
  /\ \A t \in Thread : pc[t] = "idle"
  /\ active' = FALSE
  /\ live' = live \ ToSet(cache)
  /\ cache' = <<>>
  /\ UNCHANGED <<pc, handle, callback_arg, locks, locking>>

Activate ==
  /\ ~active
  /\ active' = TRUE
  /\ cache' = <<>>
  /\ UNCHANGED <<pc, live, handle, callback_arg, locks, locking>>

----------------------------------------------------------------------------
\* globus_l_dsi_rest_share_lock

\* CURL_LOCK_ACCESS_SHARED: globus_rw_mutex_readlock
ReadLock(t, d) ==
  /\ Goto(t, "perform", "locked")
  /\ writer[d] = None
  /\ readers' = [readers EXCEPT ![d] = @ \cup {t}]
  /\ locking' = [locking EXCEPT ![t] = d]
  /\ UNCHANGED <<handles, writer, owner>>

\* CURL_LOCK_ACCESS_SINGLE: globus_rw_mutex_writelock
WriteLock(t, d) ==
  /\ Goto(t, "perform", "own")
  /\ writer[d] = None
  /\ readers[d] = {}
  /\ writer' = [writer EXCEPT ![d] = t]
  /\ locking' = [locking EXCEPT ![t] = d]
  /\ UNCHANGED <<handles, readers, owner>>

Mutant_OneOwner(d) == CHOOSE e \in Datum : TRUE

\* Each lock has an owner of its own
owner_of(d) == d

Own(t) ==
  /\ Goto(t, "own", "locked")
  /\ owner' = [owner EXCEPT ![owner_of(locking[t])] = t]
  /\ UNCHANGED <<handles, readers, writer, locking>>

----------------------------------------------------------------------------
\* globus_l_dsi_rest_share_unlock

\* Does the owner say the lock is to be released by its writer?
mine(t) == owner[owner_of(locking[t])] = t

ReadUnlock(t) ==
  /\ Goto(t, "locked", "perform")
  /\ ~mine(t)
  /\ readers' = [readers EXCEPT ![locking[t]] = @ \ {t}]
  /\ locking' = [locking EXCEPT ![t] = None]
  /\ UNCHANGED <<handles, writer, owner>>

Mutant_UnlockFirst == FALSE

\* The owner is cleared before the lock is released
disown_first == TRUE

Disown(d) == owner' = [owner EXCEPT ![owner_of(d)] = None] /\ UNCHANGED writer
Unlock(d) == writer' = [writer EXCEPT ![d] = None] /\ UNCHANGED owner

WriteUnlock(t) ==
  /\ \/ /\ Goto(t, "locked", "unlock")
        /\ mine(t)
        /\ IF disown_first THEN Disown(locking[t]) ELSE Unlock(locking[t])
        /\ UNCHANGED locking
     \/ /\ Goto(t, "unlock", "perform")
        /\ IF disown_first THEN Unlock(locking[t]) ELSE Disown(locking[t])
        /\ locking' = [locking EXCEPT ![t] = None]
  /\ UNCHANGED <<handles, readers>>

----------------------------------------------------------------------------
Request(t) ==
  \/ TakeCached(t) \/ CacheEmpty(t) \/ Create(t) \/ CreateFails(t)
  \/ Configure(t) \/ ConfigureFails(t)
  \/ Reset(t) \/ Release(t)

Share(t) ==
  \/ \E d \in Datum : ReadLock(t, d) \/ WriteLock(t, d)
  \/ Own(t) \/ ReadUnlock(t) \/ WriteUnlock(t)

Next == (\E t \in Thread : Request(t) \/ Share(t)) \/ Activate \/ Deactivate

Spec == Init /\ [][Next]_vars

----------------------------------------------------------------------------
\* The cache fits its array, and the requests and the locks have their types.
TypeOK ==
  /\ active \in BOOLEAN
  /\ cache \in Seq(Handle)
  /\ Len(cache) <= CacheSize
  /\ live \subseteq Handle
  /\ pc \in [Thread -> {"idle", "create", "configure", "perform", "release", "own",
                        "locked", "unlock"}]
  /\ handle \in [Thread -> Handle \cup {None}]
  /\ callback_arg \in [Handle -> Thread \cup {None}]
  /\ readers \in [Datum -> SUBSET Thread]
  /\ writer \in [Datum -> Thread \cup {None}]
  /\ owner \in [Datum -> Thread \cup {None}]
  /\ locking \in [Thread -> Datum \cup {None}]

held == {handle[t] : t \in Thread} \ {None}

\* A handle is in one place: used by one request, or once in the cache.
OneOwner ==
  /\ \A j, k \in DOMAIN cache : cache[j] = cache[k] => j = k
  /\ ToSet(cache) \cap held = {}
  /\ \A t, u \in Thread : handle[t] = handle[u] /\ handle[t] # None => t = u

\* Every handle libcurl has given is in use or in the cache; nothing is left of them
\* when the module is inactive.
NoLeak ==
  /\ live = held \cup ToSet(cache)
  /\ ~active => live = {}

\* The callbacks of a transfer get its own request, and a cached handle remembers no
\* request, which is freed by then.
OwnRequest ==
  /\ \A t \in Thread :
       pc[t] \in {"perform", "own", "locked", "unlock"} => callback_arg[handle[t]] = t
  /\ \A h \in ToSet(cache) : callback_arg[h] = None

\* A lock is released the way it was taken.
UnlockMatches ==
  \A t \in Thread :
    pc[t] = "locked" => IF mine(t) THEN writer[locking[t]] = t
                                   ELSE t \in readers[locking[t]]
=============================================================================

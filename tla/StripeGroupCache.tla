-------------------------- MODULE StripeGroupCache --------------------------
(***************************************************************************)
(* dwio/nimble/tablet/TabletReader: stripe groups shared between the       *)
(* threads that read stripes of one file (ReferenceCountedCache,           *)
(* getStripeGroup, loadStripeGroup, firstStripeGroup_).                    *)
(*                                                                         *)
(* The cache maps a group to a weak pointer under a lock of its own.  A    *)
(* thread that misses reads the group from the file while it holds that    *)
(* lock; the object lives as long as some thread holds a StripeIdentifier  *)
(* of it, and dies in the middle of anyone else's lookup.                  *)
(***************************************************************************)
EXTENDS Integers, FiniteSets

CONSTANTS
    Threads,  \* threads that read stripes
    Groups,   \* stripe groups a file may have
    MaxGets   \* bound: calls of getStripeIdentifier per thread

ASSUME CacheAssumption ==
    /\ IsFiniteSet(Groups)
    /\ MaxGets \in Nat

NoThread == "none"

ASSUME NoThreadAssumption == NoThread \notin Threads

VARIABLES
    place,    \* where each thread is inside get
    key,      \* the group each thread asks for
    element,  \* the group each thread has just built, {} otherwise
    held,     \* the objects <<group, build>> each thread holds
    entries,  \* groups with an entry in cache_
    weak,     \* build the entry's weak pointer refers to, 0 for none
    lock,     \* holder of the entry's lock
    first,    \* firstStripeGroup_
    builds,   \* number of objects built per group
    gets,     \* calls made by each thread
    groups    \* the stripe groups of the file

cacheVars == <<entries, weak, lock, first, builds>>
getVars == <<place, key, element, held, cacheVars, gets, groups>>

(* Objects with a reference count above zero.                              *)
Live == first \cup UNION {held[t] \cup element[t] : t \in Threads}

-----------------------------------------------------------------------------
(* get                                                                     *)

Goto(t, from, to) == place[t] = from /\ place' = [place EXCEPT ![t] = to]

GetStripeIdentifier(t, g) ==
    /\ Goto(t, "idle", "entry")
    /\ gets[t] < MaxGets
    /\ gets' = [gets EXCEPT ![t] = @ + 1]
    /\ key' = [key EXCEPT ![t] = g]
    /\ UNCHANGED <<element, held, cacheVars, groups>>

(* getCacheEntry: emplace does nothing when the entry exists.              *)
GetCacheEntry(t) ==
    /\ Goto(t, "entry", "lock")
    /\ entries' = entries \cup {key[t]}
    /\ UNCHANGED <<key, element, held, weak, lock, first, builds, gets, groups>>

(* Mutant: the entry is used without its lock.                             *)
LockEntry_NoLock(t) ==
    /\ Goto(t, "lock", "lookup")
    /\ UNCHANGED <<key, element, held, cacheVars, gets, groups>>

LockEntry(t) ==
    /\ Goto(t, "lock", "lookup")
    /\ lock[key[t]] = NoThread
    /\ lock' = [lock EXCEPT ![key[t]] = t]
    /\ UNCHANGED <<key, element, held, entries, weak, first, builds, gets, groups>>

(* weak_ptr::lock() on an object that is alive: a reference and the unlock *)
(* when get returns.                                                       *)
Hit(t) ==
    /\ Goto(t, "lookup", "idle")
    /\ <<key[t], weak[key[t]]>> \in Live
    /\ held' = [held EXCEPT ![t] = @ \cup {<<key[t], weak[key[t]]>>}]
    /\ lock' = [lock EXCEPT ![key[t]] = NoThread]
    /\ UNCHANGED <<key, element, entries, weak, first, builds, gets, groups>>

(* Mutant: the weak pointer is not looked at.                              *)
Miss_Always(t) ==
    /\ Goto(t, "lookup", "build")
    /\ UNCHANGED <<key, element, held, cacheVars, gets, groups>>

Miss(t) ==
    /\ Goto(t, "lookup", "build")
    /\ <<key[t], weak[key[t]]>> \notin Live
    /\ UNCHANGED <<key, element, held, cacheVars, gets, groups>>

(* loadStripeGroup: read the group, drop firstStripeGroup_, make a new     *)
(* object.                                                                 *)
LoadStripeGroup(t) ==
    /\ Goto(t, "build", "publish")
    /\ builds' = [builds EXCEPT ![key[t]] = @ + 1]
    /\ element' = [element EXCEPT ![t] = {<<key[t], builds[key[t]] + 1>>}]
    /\ first' = {}
    /\ UNCHANGED <<key, held, entries, weak, lock, gets, groups>>

(* Mutant: the exception of a failed read leaves the entry locked.         *)
ReadFails_StaysLocked(t) ==
    /\ Goto(t, "build", "idle")
    /\ UNCHANGED <<key, element, held, cacheVars, gets, groups>>

(* The read throws: the lock is released and the caller sees the error.    *)
ReadFails(t) ==
    /\ Goto(t, "build", "idle")
    /\ lock' = [lock EXCEPT ![key[t]] = NoThread]
    /\ UNCHANGED <<key, element, held, entries, weak, first, builds, gets, groups>>

(* Mutant: the new object is returned but not entered.                     *)
Publish_Forgotten(t) ==
    /\ Goto(t, "publish", "idle")
    /\ held' = [held EXCEPT ![t] = @ \cup element[t]]
    /\ element' = [element EXCEPT ![t] = {}]
    /\ lock' = [lock EXCEPT ![key[t]] = NoThread]
    /\ UNCHANGED <<key, entries, weak, first, builds, gets, groups>>

(* Enter the new object, unlock, return it.                                *)
Publish(t) ==
    /\ Goto(t, "publish", "idle")
    /\ weak' = [weak EXCEPT ![key[t]] = builds[key[t]]]
    /\ held' = [held EXCEPT ![t] = @ \cup element[t]]
    /\ element' = [element EXCEPT ![t] = {}]
    /\ lock' = [lock EXCEPT ![key[t]] = NoThread]
    /\ UNCHANGED <<key, entries, first, builds, gets, groups>>

(* A thread destroys its last StripeIdentifier of a group (NimbleUnit:     *)
(* unload), which it does between calls.                                   *)
Release(t) ==
    /\ place[t] = "idle"
    /\ \E o \in held[t] : held' = [held EXCEPT ![t] = @ \ {o}]
    /\ UNCHANGED <<place, key, element, cacheVars, gets, groups>>

-----------------------------------------------------------------------------
(* The constructor has put the only group of the file into the cache and   *)
(* into firstStripeGroup_ when the initial read covered it.                *)
CacheInit ==
    /\ place = [t \in Threads |-> "idle"]
    /\ groups \in SUBSET Groups
    /\ \E g \in groups : key = [t \in Threads |-> g]
    /\ element = [t \in Threads |-> {}]
    /\ held = [t \in Threads |-> {}]
    /\ \E eager \in SUBSET groups :
         /\ eager # {} => Cardinality(groups) = 1
         /\ first = {<<g, 1>> : g \in eager}
         /\ entries = eager
         /\ weak = [g \in Groups |-> IF g \in eager THEN 1 ELSE 0]
         /\ builds = weak
    /\ lock = [g \in Groups |-> NoThread]
    /\ gets = [t \in Threads |-> 0]

Step(t) ==
    \/ GetCacheEntry(t)
    \/ LockEntry(t)
    \/ Hit(t)
    \/ Miss(t)
    \/ LoadStripeGroup(t)
    \/ ReadFails(t)
    \/ Publish(t)

CacheNext ==
    \E t \in Threads :
        \/ \E g \in groups : GetStripeIdentifier(t, g)
        \/ Step(t)
        \/ Release(t)

(* A thread inside get keeps running: it is scheduled, and a read of the   *)
(* file returns or throws.                                                 *)
CacheSpec ==
    /\ CacheInit /\ [][CacheNext]_getVars
    /\ \A t \in Threads : WF_getVars(Step(t))

-----------------------------------------------------------------------------
(* Properties                                                              *)

Objects == Groups \X (Nat \ {0})

(* Type invariant.                                                         *)
CacheTypeOK ==
    /\ place \in [Threads -> {"idle", "entry", "lock", "lookup", "build",
                           "publish"}]
    /\ groups \in SUBSET Groups
    /\ key \in [Threads -> groups]
    /\ element \in [Threads -> SUBSET Objects]
    /\ held \in [Threads -> SUBSET Objects]
    /\ entries \in SUBSET Groups
    /\ weak \in [Groups -> Nat]
    /\ lock \in [Groups -> Threads \cup {NoThread}]
    /\ first \in SUBSET Objects
    /\ builds \in [Groups -> Nat]
    /\ gets \in [Threads -> Nat]

(* Threads that hold a group at the same time hold the same object, even   *)
(* when its last holder let go while another was looking it up.            *)
OneLiveObject == \A o, p \in Live : o[1] = p[1] => o = p

(* A group is read from the file only while nobody holds it: as long as    *)
(* one reader keeps its stripe identifier, no other reader pays for the    *)
(* metadata again.                                                         *)
NoReadWhileHeld ==
    [][\A g \in Groups : builds'[g] # builds[g] =>
            \A o \in Live : o[1] # g]_getVars

(* The only group of a file, if the initial read covered it, is never read *)
(* again: loadStripeGroup's reset of firstStripeGroup_ never strikes.      *)
EagerGroupStays == [][first # {} => UNCHANGED <<first, builds>>]_getVars

Atomic == INSTANCE SharedObjects
            WITH Threads <- Threads, Keys <- Groups, first <- first,
                 builds <- builds, held <- [t \in Threads |->
                                             held[t] \cup element[t]]

(* The map lock, the entry lock and the weak pointer together make get     *)
(* atomic.                                                                 *)
ImplementsSharedObjects == Atomic!Spec

(* Every call returns, also when reads of the file fail: an exception      *)
(* leaves no entry locked.                                                 *)
GetReturns == \A t \in Threads : place[t] # "idle" ~> place[t] = "idle"
=============================================================================

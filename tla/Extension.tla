----------------------------- MODULE Extension -----------------------------
(***************************************************************************)
(* The library of the Explorer extension as a COM server (dllmain.cpp and  *)
(* the IUnknown and IClassFactory parts of ContextMenuHandler.cpp): its    *)
(* objects, their reference counts, and the count that keeps it loaded.    *)
(*                                                                         *)
(* Threads call it at any time, on pointers the clients have.  A step ends *)
(* with an interlocked operation.  A pointer is a variable of a client, or *)
(* of a call in progress; the memory of a deleted object is used again.    *)
(***************************************************************************)
EXTENDS Integers, FiniteSets

CONSTANTS
  Threads,
  Objects,   \* the places in memory for objects
  Pointers,
  NoObject,
  NoPointer,
  MaxLocks   \* how many locks of LockServer the clients hold

ASSUME ExtensionAssumption ==
  /\ IsFiniteSet(Objects) /\ IsFiniteSet(Pointers)
  /\ NoObject \notin Objects /\ NoPointer \notin Pointers
  /\ MaxLocks \in Nat

VARIABLES
  loaded,      \* the library is in the process
  dllRefCount, \* g_dllRefCount
  locks,       \* the locks the clients hold
  kind,        \* what is in each place
  refCount,    \* m_refCount
  pointer,     \* what each pointer points to
  call         \* the call each thread is in

vars == <<loaded, dllRefCount, locks, kind, refCount, pointer, call>>

-----------------------------------------------------------------------------
(* Data *)

Kinds == {"none", "factory", "handler"}
Steps == {"idle", "count", "query", "release", "uncount", "delete"}

\* `own' is the local pointer of a call, `via' the factory it was called on.
Idle == [step |-> "idle", obj |-> NoObject, own |-> NoPointer, via |-> NoPointer]

InUse(p) == \E t \in Threads : call[t].own = p \/ call[t].via = p
PointersTo(o) == {p \in Pointers : pointer[p] = o}

\* Handlers that CreateInstance has counted and Release has not uncounted.
At(step) == {call[t].obj : t \in {u \in Threads : call[u].step = step}}
Counted == {o \in Objects : kind[o] = "handler"} \ (At("count") \union At("delete"))

Enter(t, step, o, p, via) ==
  call' = [call EXCEPT ![t] = [step |-> step, obj |-> o, own |-> p, via |-> via]]
Goto(t, step) == call' = [call EXCEPT ![t].step = step]
Return(t) == call' = [call EXCEPT ![t] = Idle]

-----------------------------------------------------------------------------
Init ==
  /\ loaded = FALSE
  /\ dllRefCount = 0
  /\ locks = 0
  /\ kind = [o \in Objects |-> "none"]
  /\ refCount = [o \in Objects |-> 0]
  /\ pointer = [p \in Pointers |-> NoObject]
  /\ call = [t \in Threads |-> Idle]

\* LoadLibrary, into a process that has nothing of an earlier time.
Load ==
  /\ ~loaded
  /\ \A t \in Threads : call[t] = Idle
  /\ \A o \in Objects : kind[o] = "none"
  /\ loaded' = TRUE
  /\ UNCHANGED <<dllRefCount, locks, kind, refCount, pointer, call>>

\* COM asks and, if the answer is S_OK, frees the library.  Both are one step: it is COM, not
\* this code, that lets no call into the library in between.  The count could not keep out
\* one that a client makes then on a factory it still has.
DllCanUnloadNow ==
  /\ loaded /\ dllRefCount = 0
  /\ loaded' = FALSE
  /\ UNCHANGED <<dllRefCount, locks, kind, refCount, pointer, call>>

\* `new': the member m_refCount starts at 1.
New(o, p, what) ==
  /\ kind[o] = "none" /\ pointer[p] = NoObject
  /\ kind' = [kind EXCEPT ![o] = what]
  /\ refCount' = [refCount EXCEPT ![o] = 1]
  /\ pointer' = [pointer EXCEPT ![p] = o]

\* For another class, or without memory, it returns at once.
DllGetClassObject(t, o, p) ==
  /\ loaded /\ call[t] = Idle
  /\ New(o, p, "factory")
  /\ Enter(t, "query", o, p, NoPointer)
  /\ UNCHANGED <<loaded, dllRefCount, locks>>

CreateInstance(t, f, o, p) ==
  /\ loaded /\ call[t] = Idle
  /\ ~InUse(f) /\ pointer[f] \in Objects /\ kind[pointer[f]] = "factory"
  /\ New(o, p, "handler")
  /\ Enter(t, "count", o, p, f)
  /\ UNCHANGED <<loaded, dllRefCount, locks>>

\* InterlockedIncrement(&g_dllRefCount) in CreateInstance.
Count(t) ==
  /\ loaded /\ call[t].step = "count"
  /\ dllRefCount' = dllRefCount + 1
  /\ Goto(t, "query")
  /\ UNCHANGED <<loaded, locks, kind, refCount, pointer>>

\* Mutant: the pointer that is returned is not counted.
AddRef_Missing(o, p) ==
  /\ pointer[p] = NoObject
  /\ pointer' = [pointer EXCEPT ![p] = o]
  /\ UNCHANGED refCount

AddRef(o, p) ==
  /\ pointer[p] = NoObject
  /\ pointer' = [pointer EXCEPT ![p] = o]
  /\ refCount' = [refCount EXCEPT ![o] = @ + 1]

\* The interface is one of the object's, or it is not: then nothing is returned.
QueryInterface(t) ==
  /\ loaded /\ call[t].step = "query"
  /\ (\E p \in Pointers : AddRef(call[t].obj, p)) \/ UNCHANGED <<refCount, pointer>>
  /\ Goto(t, "release")
  /\ UNCHANGED <<loaded, dllRefCount, locks, kind>>

\* Mutant: the handler is counted out at each of its releases.
Release_Uncounts(t, o, p) ==
  /\ refCount' = [refCount EXCEPT ![o] = @ - 1]
  /\ pointer' = [pointer EXCEPT ![p] = NoObject]
  /\ IF kind[o] = "handler" THEN Enter(t, "uncount", o, NoPointer, NoPointer)
     ELSE IF refCount[o] = 1 THEN Enter(t, "delete", o, NoPointer, NoPointer)
     ELSE Return(t)

\* InterlockedDecrement(&m_refCount); who brings it to 0 deletes the object, and
\* counts a handler out before.
Release(t, o, p) ==
  /\ refCount' = [refCount EXCEPT ![o] = @ - 1]
  /\ pointer' = [pointer EXCEPT ![p] = NoObject]
  /\ IF refCount[o] > 1 THEN Return(t)
     ELSE Enter(t, IF kind[o] = "handler" THEN "uncount" ELSE "delete", o, NoPointer, NoPointer)

\* The release of the local pointer, at the end of the two functions that create.
ReleaseOwn(t) ==
  /\ loaded /\ call[t].step = "release"
  /\ Release(t, call[t].obj, call[t].own)
  /\ UNCHANGED <<loaded, dllRefCount, locks, kind>>

\* A client's calls of AddRef, QueryInterface and Release.
ClientAddRef(t, p, q) ==
  /\ loaded /\ call[t] = Idle
  /\ ~InUse(p) /\ pointer[p] \in Objects
  /\ AddRef(pointer[p], q)
  /\ UNCHANGED <<loaded, dllRefCount, locks, kind, call>>

ClientRelease(t, p) ==
  /\ loaded /\ call[t] = Idle
  /\ ~InUse(p) /\ pointer[p] \in Objects
  /\ Release(t, pointer[p], p)
  /\ UNCHANGED <<loaded, dllRefCount, locks, kind>>

\* InterlockedDecrement(&g_dllRefCount) in ContextMenuHandler::Release.
Uncount(t) ==
  /\ loaded /\ call[t].step = "uncount"
  /\ dllRefCount' = dllRefCount - 1
  /\ Goto(t, "delete")
  /\ UNCHANGED <<loaded, locks, kind, refCount, pointer>>

\* `delete this'.
Delete(t) ==
  /\ loaded /\ call[t].step = "delete"
  /\ kind' = [kind EXCEPT ![call[t].obj] = "none"]
  /\ Return(t)
  /\ UNCHANGED <<loaded, dllRefCount, locks, refCount, pointer>>

\* Mutant: both ways count up.
LockServer_Increment(fLock) ==
  /\ dllRefCount' = dllRefCount + 1
  /\ locks' = IF fLock THEN locks + 1 ELSE locks - 1

\* A client unlocks what it has locked.
LockServer(fLock) ==
  IF fLock
  THEN dllRefCount' = dllRefCount + 1 /\ locks' = locks + 1
  ELSE dllRefCount' = dllRefCount - 1 /\ locks' = locks - 1

ClientLocks(t, f, fLock) ==
  /\ loaded /\ call[t] = Idle
  /\ ~InUse(f) /\ pointer[f] \in Objects /\ kind[pointer[f]] = "factory"
  /\ IF fLock THEN locks < MaxLocks ELSE locks > 0
  /\ LockServer(fLock)
  /\ UNCHANGED <<loaded, kind, refCount, pointer, call>>

ThreadStep(t) ==
  \/ \E o \in Objects, p \in Pointers : DllGetClassObject(t, o, p)
  \/ \E f, p \in Pointers, o \in Objects : CreateInstance(t, f, o, p)
  \/ Count(t) \/ QueryInterface(t) \/ ReleaseOwn(t) \/ Uncount(t) \/ Delete(t)
  \/ \E p, q \in Pointers : ClientAddRef(t, p, q)
  \/ \E p \in Pointers : ClientRelease(t, p)
  \/ \E f \in Pointers, fLock \in BOOLEAN : ClientLocks(t, f, fLock)

Next == Load \/ DllCanUnloadNow \/ \E t \in Threads : ThreadStep(t)

Spec == Init /\ [][Next]_vars

-----------------------------------------------------------------------------
(* Properties *)

\* The types.
TypeOK ==
  /\ loaded \in BOOLEAN
  /\ dllRefCount \in Int
  /\ locks \in Nat
  /\ kind \in [Objects -> Kinds]
  /\ refCount \in [Objects -> Int]
  /\ pointer \in [Pointers -> Objects \union {NoObject}]
  /\ call \in [Threads -> [step : Steps, obj : Objects \union {NoObject},
                           own : Pointers \union {NoPointer},
                           via : Pointers \union {NoPointer}]]

\* An object has as many references as there are pointers to it.  Without one it is
\* being deleted, by one thread: it neither stays in memory nor is deleted twice.
DeletedOnce ==
  \A o \in Objects :
    /\ refCount[o] = Cardinality(PointersTo(o))
    /\ kind[o] = "none" => refCount[o] = 0
    /\ kind[o] # "none" /\ refCount[o] = 0 =>
         \E t \in Threads : \A u \in Threads :
           call[u].obj = o /\ call[u].step \in {"uncount", "delete"} <=> u = t

\* The count of the library is that of its locks and of its handlers: it goes back to
\* zero when they do, so that the library is not kept for ever.
CountIsRight == dllRefCount = locks + Cardinality(Counted)

\* The library is never freed while a client has a pointer to a handler.  (One that
\* CreateInstance has just made is not counted yet, nor is any factory, and between the
\* answer of DllCanUnloadNow and the freeing it is COM that keeps calls out.)
HandlersKeepLibrary ==
  dllRefCount = 0 \/ ~loaded =>
    \A p \in Pointers :
      pointer[p] \in Objects /\ kind[pointer[p]] = "handler" =>
        \E t \in Threads : call[t].step = "count" /\ call[t].own = p
=============================================================================

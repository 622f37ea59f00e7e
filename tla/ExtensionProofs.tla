-------------------------- MODULE ExtensionProofs --------------------------
(***************************************************************************)
(* What Extension promises, for any number of threads, and any finite      *)
(* number of objects and pointers; then what a registration leaves, for    *)
(* any number of failing calls, and after any earlier registrations that   *)
(* have failed or were ended halfway.                                      *)
(***************************************************************************)
EXTENDS MCExtension, Sequences, FiniteSetTheorems, TLAPS

Active == {"count", "query", "release"}
Deleting == {"uncount", "delete"}

RefsAreCounted == \A o \in Objects : refCount[o] = Cardinality(PointersTo(o))
DeadHaveNoRefs == \A o \in Objects : kind[o] = "none" => refCount[o] = 0

\* An object without a reference is being deleted, by one thread.
OneDeletes ==
  \A o \in Objects :
    kind[o] # "none" /\ refCount[o] = 0 =>
      \E t \in Threads : \A u \in Threads :
        call[u].obj = o /\ call[u].step \in Deleting <=> u = t

\* What a call holds at each of its steps.  A handler that is not counted yet has no
\* other pointer than the local one.
Shape(t) ==
  /\ call[t].step = "idle" => call[t] = Idle
  /\ call[t].step \in Active =>
       /\ call[t].obj \in Objects /\ call[t].own \in Pointers
       /\ pointer[call[t].own] = call[t].obj
  /\ call[t].step = "count" =>
       kind[call[t].obj] = "handler" /\ PointersTo(call[t].obj) = {call[t].own}
  /\ call[t].step \in Deleting =>
       /\ call[t].obj \in Objects /\ call[t].own = NoPointer
       /\ kind[call[t].obj] # "none" /\ refCount[call[t].obj] = 0
  /\ call[t].step = "uncount" => kind[call[t].obj] = "handler"

CallShape == \A t \in Threads : Shape(t)

\* No two threads are creating the same object.
CreatedOnce ==
  \A t, u \in Threads :
    t # u /\ call[t].step \in Active /\ call[u].step \in Active => call[t].obj # call[u].obj

UnloadedIsUncounted == ~loaded => dllRefCount = 0

RefInv == RefsAreCounted /\ DeadHaveNoRefs
CallInv == CallShape /\ CreatedOnce /\ OneDeletes

IInv == TypeOK /\ RefInv /\ CallInv /\ UnloadedIsUncounted /\ CountIsRight

-----------------------------------------------------------------------------
(* Pointers and their number *)

\* The pointers to an object are finitely many, and there is none exactly when their
\* number is zero.
LEMMA PointersAreFinite ==
  ASSUME NEW o
  PROVE  /\ IsFiniteSet(PointersTo(o))
         /\ Cardinality(PointersTo(o)) \in Nat
         /\ Cardinality(PointersTo(o)) = 0 <=> PointersTo(o) = {}
<1>1. PointersTo(o) \in SUBSET Pointers
  BY DEF PointersTo
<1>2. IsFiniteSet(PointersTo(o))
  BY <1>1, FS_Subset, ExtensionAssumption
<1> QED
  BY <1>2, FS_CardinalityType, FS_EmptySet

\* An object with a pointer to it is there, and is not being deleted.
LEMMA PointedIsLive ==
  ASSUME TypeOK, RefInv, CallShape, NEW p \in Pointers, pointer[p] \in Objects
  PROVE  /\ refCount[pointer[p]] > 0 /\ kind[pointer[p]] # "none"
         /\ \A t \in Threads : call[t].step \in Deleting => call[t].obj # pointer[p]
<1>1. p \in PointersTo(pointer[p])
  BY DEF PointersTo
<1>2. refCount[pointer[p]] > 0
  BY <1>1, PointersAreFinite DEF RefInv, RefsAreCounted
<1> QED
  BY <1>2 DEF RefInv, DeadHaveNoRefs, CallShape, Shape

\* A pointer that is set adds one to the references of its object.
LEMMA SetPointer ==
  ASSUME TypeOK, NEW o \in Objects, NEW p \in Pointers, pointer[p] = NoObject,
         pointer' = [pointer EXCEPT ![p] = o]
  PROVE  /\ PointersTo(o)' = PointersTo(o) \union {p}
         /\ Cardinality(PointersTo(o)') = Cardinality(PointersTo(o)) + 1
         /\ \A q \in Objects : q # o => PointersTo(q)' = PointersTo(q)
<1>1. PointersTo(o)' = PointersTo(o) \union {p}
  BY DEF PointersTo, TypeOK
<1>2. p \notin PointersTo(o)
  BY ExtensionAssumption DEF PointersTo
<1>3. Cardinality(PointersTo(o) \union {p}) = Cardinality(PointersTo(o)) + 1
  BY <1>2, PointersAreFinite, FS_AddElement
<1>4. \A q \in Objects : q # o => PointersTo(q)' = PointersTo(q)
  BY ExtensionAssumption DEF PointersTo, TypeOK
<1> QED
  BY <1>1, <1>3, <1>4

\* A pointer that is cleared takes one away.
LEMMA ClearPointer ==
  ASSUME TypeOK, NEW o \in Objects, NEW p \in Pointers, pointer[p] = o,
         pointer' = [pointer EXCEPT ![p] = NoObject]
  PROVE  /\ PointersTo(o)' = PointersTo(o) \ {p}
         /\ Cardinality(PointersTo(o)') = Cardinality(PointersTo(o)) - 1
         /\ \A q \in Objects : q # o => PointersTo(q)' = PointersTo(q)
<1>1. PointersTo(o)' = PointersTo(o) \ {p}
  BY ExtensionAssumption DEF PointersTo, TypeOK
<1>2. p \in PointersTo(o)
  BY DEF PointersTo
<1>3. Cardinality(PointersTo(o) \ {p}) = Cardinality(PointersTo(o)) - 1
  BY <1>2, PointersAreFinite, FS_RemoveElement
<1>4. \A q \in Objects : q # o => PointersTo(q)' = PointersTo(q)
  BY ExtensionAssumption DEF PointersTo, TypeOK
<1> QED
  BY <1>1, <1>3, <1>4

-----------------------------------------------------------------------------
(* The types *)

LEMMA ReleaseType ==
  ASSUME TypeOK, NEW t \in Threads, NEW o \in Objects, NEW p, Release(t, o, p)
  PROVE  /\ refCount' \in [Objects -> Int]
         /\ pointer' \in [Pointers -> Objects \union {NoObject}]
         /\ call' \in [Threads -> [step : Steps, obj : Objects \union {NoObject},
                                   own : Pointers \union {NoPointer},
                                   via : Pointers \union {NoPointer}]]
<1>1. refCount' \in [Objects -> Int]
  BY DEF Release, TypeOK
<1>2. pointer' \in [Pointers -> Objects \union {NoObject}]
  BY DEF Release, TypeOK
<1>3. CASE call' = [call EXCEPT ![t] = Idle]
  BY <1>1, <1>2, <1>3 DEF Idle, TypeOK, Steps
<1>4. ASSUME NEW step \in Steps, Enter(t, step, o, NoPointer, NoPointer)
      PROVE  call' \in [Threads -> [step : Steps, obj : Objects \union {NoObject},
                                    own : Pointers \union {NoPointer},
                                    via : Pointers \union {NoPointer}]]
  BY <1>4 DEF Enter, TypeOK
<1>5. "uncount" \in Steps /\ "delete" \in Steps
  BY DEF Steps
<1> QED
  BY <1>1, <1>2, <1>3, <1>4, <1>5 DEF Release, Return

LEMMA TypeStep ==
  ASSUME TypeOK, CallShape, [Next]_vars
  PROVE  TypeOK'
<1> USE DEF TypeOK
<1>1. CASE Load
  BY <1>1 DEF Load
<1>2. CASE DllCanUnloadNow
  BY <1>2 DEF DllCanUnloadNow
<1>3. ASSUME NEW t \in Threads, NEW o \in Objects, NEW p \in Pointers, DllGetClassObject(t, o, p)
      PROVE  TypeOK'
  BY <1>3 DEF DllGetClassObject, New, Enter, Kinds, Steps
<1>4. ASSUME NEW t \in Threads, NEW f \in Pointers, NEW o \in Objects, NEW p \in Pointers,
             CreateInstance(t, f, o, p)
      PROVE  TypeOK'
  BY <1>4 DEF CreateInstance, New, Enter, Kinds, Steps
<1>5. ASSUME NEW t \in Threads, Count(t)
      PROVE  TypeOK'
  BY <1>5 DEF Count, Goto, Steps
<1>6. ASSUME NEW t \in Threads, QueryInterface(t)
      PROVE  TypeOK'
  BY <1>6 DEF QueryInterface, AddRef, Goto, Steps
<1>7. ASSUME NEW t \in Threads, ReleaseOwn(t)
      PROVE  TypeOK'
  BY <1>7, ReleaseType DEF ReleaseOwn, CallShape, Shape, Active
<1>8. ASSUME NEW t \in Threads, Uncount(t)
      PROVE  TypeOK'
  BY <1>8 DEF Uncount, Goto, Steps
<1>9. ASSUME NEW t \in Threads, Delete(t)
      PROVE  TypeOK'
  BY <1>9 DEF Delete, Return, Idle, Kinds, Steps
<1>10. ASSUME NEW t \in Threads, NEW p \in Pointers, NEW q \in Pointers, ClientAddRef(t, p, q)
       PROVE  TypeOK'
  BY <1>10 DEF ClientAddRef, AddRef
<1>11. ASSUME NEW t \in Threads, NEW p \in Pointers, ClientRelease(t, p)
       PROVE  TypeOK'
  BY <1>11, ReleaseType DEF ClientRelease
<1>12. ASSUME NEW t \in Threads, NEW f \in Pointers, NEW fLock \in BOOLEAN,
              ClientLocks(t, f, fLock)
       PROVE  TypeOK'
  BY <1>12 DEF ClientLocks, LockServer
<1>13. CASE UNCHANGED vars
  BY <1>13 DEF vars
<1> QED
  BY <1>1, <1>2, <1>3, <1>4, <1>5, <1>6, <1>7, <1>8, <1>9, <1>10, <1>11, <1>12, <1>13
     DEF Next, ThreadStep

-----------------------------------------------------------------------------
(* The handlers that are counted *)

LEMMA CountedIsFinite ==
  IsFiniteSet(Counted) /\ (Cardinality(Counted) = 0 <=> Counted = {}) /\ Cardinality(Counted) \in Nat
<1>1. Counted \in SUBSET Objects
  BY DEF Counted
<1>2. IsFiniteSet(Counted)
  BY <1>1, FS_Subset, ExtensionAssumption
<1> QED
  BY <1>2, FS_CardinalityType, FS_EmptySet

-----------------------------------------------------------------------------
(* The steps *)

\* `new' points to its object with one pointer, and to no other.
LEMMA NewObject ==
  ASSUME TypeOK, RefInv, CallShape, NEW o \in Objects, NEW p \in Pointers, NEW what \in Kinds,
         what # "none", New(o, p, what)
  PROVE  /\ RefInv'
         /\ PointersTo(o)' = {p}
         /\ \A q \in Objects : q # o => PointersTo(q)' = PointersTo(q)
         /\ \A t \in Threads : call[t].step \in Active \union Deleting => call[t].obj # o
<1>1. PointersTo(o) = {} /\ refCount[o] = 0
  BY PointersAreFinite DEF New, RefInv, RefsAreCounted, DeadHaveNoRefs
<1>2. pointer[p] = NoObject /\ pointer' = [pointer EXCEPT ![p] = o]
  BY DEF New
<1>3. /\ PointersTo(o)' = PointersTo(o) \union {p}
      /\ Cardinality(PointersTo(o)') = Cardinality(PointersTo(o)) + 1
      /\ \A q \in Objects : q # o => PointersTo(q)' = PointersTo(q)
  BY <1>2, SetPointer
<1>4. PointersTo(o)' = {p}
  BY <1>1, <1>3
<1>5. RefsAreCounted'
  <2> SUFFICES ASSUME NEW q \in Objects
               PROVE  refCount'[q] = Cardinality(PointersTo(q)')
    BY DEF RefsAreCounted
  <2>1. CASE q = o
    BY <2>1, <1>1, <1>3, FS_EmptySet DEF New, TypeOK
  <2>2. CASE q # o
    BY <2>2, <1>3 DEF New, TypeOK, RefInv, RefsAreCounted
  <2> QED
    BY <2>1, <2>2
<1>6. DeadHaveNoRefs'
  BY <1>1 DEF New, TypeOK, RefInv, DeadHaveNoRefs
<1>7. ASSUME NEW t \in Threads, call[t].step \in Active \union Deleting
      PROVE  call[t].obj # o
  <2>1. CASE call[t].step \in Active
    BY <2>1, PointedIsLive DEF CallShape, Shape, New
  <2>2. CASE call[t].step \in Deleting
    BY <2>2 DEF CallShape, Shape, New
  <2> QED
    BY <1>7, <2>1, <2>2
<1> QED
  BY <1>3, <1>4, <1>5, <1>6, <1>7 DEF RefInv

\* A second pointer.
LEMMA SecondPointer ==
  ASSUME TypeOK, RefInv, NEW o \in Objects, NEW p \in Pointers, refCount[o] > 0,
         AddRef(o, p), UNCHANGED kind
  PROVE  /\ RefInv'
         /\ refCount' = [refCount EXCEPT ![o] = @ + 1]
         /\ \A q \in Objects : q # o => PointersTo(q)' = PointersTo(q)
<1>1. pointer[p] = NoObject /\ pointer' = [pointer EXCEPT ![p] = o]
  BY DEF AddRef
<1>2. /\ Cardinality(PointersTo(o)') = Cardinality(PointersTo(o)) + 1
      /\ \A q \in Objects : q # o => PointersTo(q)' = PointersTo(q)
  BY <1>1, SetPointer
<1>3. refCount' = [refCount EXCEPT ![o] = @ + 1]
  BY DEF AddRef
<1>4. RefsAreCounted'
  <2> SUFFICES ASSUME NEW q \in Objects
               PROVE  refCount'[q] = Cardinality(PointersTo(q)')
    BY DEF RefsAreCounted
  <2>1. CASE q = o
    BY <2>1, <1>2, <1>3 DEF TypeOK, RefInv, RefsAreCounted
  <2>2. CASE q # o
    BY <2>2, <1>2, <1>3 DEF TypeOK, RefInv, RefsAreCounted
  <2> QED
    BY <2>1, <2>2
<1>5. DeadHaveNoRefs'
  BY <1>3 DEF TypeOK, RefInv, DeadHaveNoRefs
<1> QED
  BY <1>2, <1>3, <1>4, <1>5 DEF RefInv

\* A pointer less.
LEMMA OnePointerLess ==
  ASSUME TypeOK, RefInv, CallShape, NEW t \in Threads, NEW o \in Objects, NEW p \in Pointers,
         pointer[p] = o, Release(t, o, p), UNCHANGED kind
  PROVE  /\ RefInv'
         /\ refCount' = [refCount EXCEPT ![o] = @ - 1]
         /\ refCount[o] > 0 /\ kind[o] # "none"
         /\ PointersTo(o)' = PointersTo(o) \ {p}
         /\ \A q \in Objects : q # o => PointersTo(q)' = PointersTo(q)
<1>1. pointer' = [pointer EXCEPT ![p] = NoObject] /\ refCount' = [refCount EXCEPT ![o] = @ - 1]
  BY DEF Release
<1>2. /\ PointersTo(o)' = PointersTo(o) \ {p}
      /\ Cardinality(PointersTo(o)') = Cardinality(PointersTo(o)) - 1
      /\ \A q \in Objects : q # o => PointersTo(q)' = PointersTo(q)
  BY <1>1, ClearPointer
<1>3. refCount[o] > 0 /\ kind[o] # "none"
  BY PointedIsLive
<1>4. RefsAreCounted'
  <2> SUFFICES ASSUME NEW q \in Objects
               PROVE  refCount'[q] = Cardinality(PointersTo(q)')
    BY DEF RefsAreCounted
  <2>1. CASE q = o
    BY <2>1, <1>1, <1>2 DEF TypeOK, RefInv, RefsAreCounted
  <2>2. CASE q # o
    BY <2>2, <1>1, <1>2 DEF TypeOK, RefInv, RefsAreCounted
  <2> QED
    BY <2>1, <2>2
<1>5. DeadHaveNoRefs'
  BY <1>1, <1>3 DEF TypeOK, RefInv, DeadHaveNoRefs
<1> QED
  BY <1>1, <1>2, <1>3, <1>4, <1>5 DEF RefInv

\* Nothing changes for the threads that delete, and no object comes to need one.
LEMMA SameDeleters ==
  ASSUME OneDeletes,
         \A u \in Threads :
           /\ call'[u].step \in Deleting <=> call[u].step \in Deleting
           /\ call[u].step \in Deleting => call'[u].obj = call[u].obj,
         \A o \in Objects : kind'[o] # "none" /\ refCount'[o] = 0 =>
                              kind[o] # "none" /\ refCount[o] = 0
  PROVE  OneDeletes'
<1> SUFFICES ASSUME NEW o \in Objects, kind'[o] # "none", refCount'[o] = 0
             PROVE  \E t \in Threads : \A u \in Threads :
                      call'[u].obj = o /\ call'[u].step \in Deleting <=> u = t
  BY DEF OneDeletes, Deleting
<1>1. PICK t \in Threads : \A u \in Threads :
        call[u].obj = o /\ call[u].step \in Deleting <=> u = t
  BY DEF OneDeletes
<1>2. \A u \in Threads : call'[u].obj = o /\ call'[u].step \in Deleting <=> u = t
  BY <1>1
<1> QED
  BY <1>2

\* Nothing changes for the handlers that are counted.
LEMMA SameCounted ==
  ASSUME CountIsRight, UNCHANGED <<dllRefCount, locks>>,
         \A o \in Objects : o \in Counted' <=> o \in Counted
  PROVE  CountIsRight'
<1>1. Counted' = Counted
  BY DEF Counted
<1> QED
  BY <1>1 DEF CountIsRight

-----------------------------------------------------------------------------
(* The steps *)

LEMMA DllGetClassObjectStep ==
  ASSUME IInv, NEW t \in Threads, NEW o \in Objects, NEW p \in Pointers,
         DllGetClassObject(t, o, p)
  PROVE  RefInv' /\ CallInv' /\ UnloadedIsUncounted' /\ CountIsRight'
<1> USE DEF IInv, CallInv
<1>1. /\ New(o, p, "factory") /\ call[t] = Idle
      /\ loaded' = loaded /\ dllRefCount' = dllRefCount /\ locks' = locks
      /\ call' = [call EXCEPT ![t] = [step |-> "query", obj |-> o, own |-> p, via |-> NoPointer]]
  BY DEF DllGetClassObject, Enter
<1>2. /\ RefInv'
      /\ PointersTo(o)' = {p}
      /\ \A q \in Objects : q # o => PointersTo(q)' = PointersTo(q)
      /\ \A u \in Threads : call[u].step \in Active \union Deleting => call[u].obj # o
  BY <1>1, NewObject DEF Kinds
<1>3. /\ kind[o] = "none" /\ pointer[p] = NoObject
      /\ kind' = [kind EXCEPT ![o] = "factory"]
      /\ refCount' = [refCount EXCEPT ![o] = 1]
      /\ pointer' = [pointer EXCEPT ![p] = o]
  BY <1>1 DEF New
<1>4. \A u \in Threads : u # t => call'[u] = call[u]
  BY <1>1 DEF TypeOK
<1>5. call'[t] = [step |-> "query", obj |-> o, own |-> p, via |-> NoPointer]
  BY <1>1 DEF TypeOK
<1>6. call[t].step = "idle"
  BY <1>1 DEF Idle
<1>7. CallShape'
  <2> SUFFICES ASSUME NEW u \in Threads
               PROVE  Shape(u)'
    BY DEF CallShape
  <2>1. CASE u = t
    BY <2>1, <1>3, <1>5 DEF Shape, Active, Deleting, TypeOK
  <2>2. CASE u # t
    <3>1. Shape(u) /\ call'[u] = call[u]
      BY <2>2, <1>4 DEF CallShape
    <3>2. call[u].step \in Active => call[u].own # p
      BY <3>1, <1>3, ExtensionAssumption DEF Shape
    <3> QED
      BY <3>1, <3>2, <1>2, <1>3 DEF Shape, TypeOK, Active, Deleting, Idle
  <2> QED
    BY <2>1, <2>2
<1>8. CreatedOnce'
  BY <1>2, <1>4, <1>5 DEF CreatedOnce, Active
<1>9. OneDeletes'
  <2>1. \A u \in Threads :
           /\ call'[u].step \in Deleting <=> call[u].step \in Deleting
           /\ call[u].step \in Deleting => call'[u].obj = call[u].obj
    BY <1>4, <1>5, <1>6 DEF Deleting
  <2>2. \A q \in Objects : kind'[q] # "none" /\ refCount'[q] = 0 =>
                              kind[q] # "none" /\ refCount[q] = 0
    BY <1>3 DEF TypeOK
  <2> QED
    BY <2>1, <2>2, SameDeleters
<1>10. CountIsRight'
  <2>1. \A q \in Objects : q \in Counted' <=> q \in Counted
    BY <1>2, <1>3, <1>4, <1>5, <1>6 DEF Counted, At, TypeOK, Active, Deleting
  <2> QED
    BY <1>1, <2>1, SameCounted
<1> QED
  BY <1>1, <1>2, <1>7, <1>8, <1>9, <1>10 DEF UnloadedIsUncounted

LEMMA CreateInstanceStep ==
  ASSUME IInv, NEW t \in Threads, NEW f \in Pointers, NEW o \in Objects, NEW p \in Pointers,
         CreateInstance(t, f, o, p)
  PROVE  RefInv' /\ CallInv' /\ UnloadedIsUncounted' /\ CountIsRight'
<1> USE DEF IInv, CallInv
<1>1. /\ New(o, p, "handler") /\ call[t] = Idle
      /\ loaded' = loaded /\ dllRefCount' = dllRefCount /\ locks' = locks
      /\ call' = [call EXCEPT ![t] = [step |-> "count", obj |-> o, own |-> p, via |-> f]]
  BY DEF CreateInstance, Enter
<1>2. /\ RefInv'
      /\ PointersTo(o)' = {p}
      /\ \A q \in Objects : q # o => PointersTo(q)' = PointersTo(q)
      /\ \A u \in Threads : call[u].step \in Active \union Deleting => call[u].obj # o
  BY <1>1, NewObject DEF Kinds
<1>3. /\ kind[o] = "none" /\ pointer[p] = NoObject
      /\ kind' = [kind EXCEPT ![o] = "handler"]
      /\ refCount' = [refCount EXCEPT ![o] = 1]
      /\ pointer' = [pointer EXCEPT ![p] = o]
  BY <1>1 DEF New
<1>4. \A u \in Threads : u # t => call'[u] = call[u]
  BY <1>1 DEF TypeOK
<1>5. call'[t] = [step |-> "count", obj |-> o, own |-> p, via |-> f]
  BY <1>1 DEF TypeOK
<1>6. call[t].step = "idle"
  BY <1>1 DEF Idle
<1>7. CallShape'
  <2> SUFFICES ASSUME NEW u \in Threads
               PROVE  Shape(u)'
    BY DEF CallShape
  <2>1. CASE u = t
    BY <2>1, <1>2, <1>3, <1>5 DEF Shape, Active, Deleting, TypeOK
  <2>2. CASE u # t
    <3>1. Shape(u) /\ call'[u] = call[u]
      BY <2>2, <1>4 DEF CallShape
    <3>2. call[u].step \in Active => call[u].own # p
      BY <3>1, <1>3, ExtensionAssumption DEF Shape
    <3> QED
      BY <3>1, <3>2, <1>2, <1>3 DEF Shape, TypeOK, Active, Deleting, Idle
  <2> QED
    BY <2>1, <2>2
<1>8. CreatedOnce'
  BY <1>2, <1>4, <1>5 DEF CreatedOnce, Active
<1>9. OneDeletes'
  <2>1. \A u \in Threads :
           /\ call'[u].step \in Deleting <=> call[u].step \in Deleting
           /\ call[u].step \in Deleting => call'[u].obj = call[u].obj
    BY <1>4, <1>5, <1>6 DEF Deleting
  <2>2. \A q \in Objects : kind'[q] # "none" /\ refCount'[q] = 0 =>
                              kind[q] # "none" /\ refCount[q] = 0
    BY <1>3 DEF TypeOK
  <2> QED
    BY <2>1, <2>2, SameDeleters
<1>10. CountIsRight'
  <2>1. \A q \in Objects : q \in Counted' <=> q \in Counted
    BY <1>2, <1>3, <1>4, <1>5, <1>6 DEF Counted, At, TypeOK, Active, Deleting
  <2> QED
    BY <1>1, <2>1, SameCounted
<1> QED
  BY <1>1, <1>2, <1>7, <1>8, <1>9, <1>10 DEF UnloadedIsUncounted

LEMMA CountStep ==
  ASSUME IInv, NEW t \in Threads, Count(t)
  PROVE  RefInv' /\ CallInv' /\ UnloadedIsUncounted' /\ CountIsRight'
<1> USE DEF IInv, CallInv
<1> DEFINE o == call[t].obj
<1>1. /\ loaded /\ loaded' = loaded /\ call[t].step = "count"
      /\ dllRefCount' = dllRefCount + 1
      /\ call' = [call EXCEPT ![t].step = "query"]
      /\ UNCHANGED <<locks, kind, refCount, pointer>>
  BY DEF Count, Goto
<1>2. \A u \in Threads : u # t => call'[u] = call[u]
  BY <1>1 DEF TypeOK
<1>3. /\ call'[t].step = "query" /\ call'[t].obj = o
      /\ call'[t].own = call[t].own
  BY <1>1 DEF TypeOK
<1>4. /\ o \in Objects /\ call[t].own \in Pointers
      /\ pointer[call[t].own] = o /\ kind[o] = "handler"
  BY <1>1 DEF CallShape, Shape, Active
<1>5. \A q : PointersTo(q)' = PointersTo(q)
  BY <1>1 DEF PointersTo
<1>6. RefInv'
  BY <1>1, <1>5 DEF RefInv, RefsAreCounted, DeadHaveNoRefs
<1>7. CallShape'
  <2> SUFFICES ASSUME NEW u \in Threads
               PROVE  Shape(u)'
    BY DEF CallShape
  <2>1. CASE u = t
    BY <2>1, <1>1, <1>3, <1>4 DEF Shape, Active, Deleting
  <2>2. CASE u # t
    BY <2>2, <1>1, <1>2, <1>5 DEF CallShape, Shape, Idle
  <2> QED
    BY <2>1, <2>2
<1>8. CreatedOnce'
  BY <1>1, <1>2, <1>3 DEF CreatedOnce, Active
<1>9. OneDeletes'
  BY <1>1, <1>2, <1>3, SameDeleters DEF Deleting
<1>10. CountIsRight'
  <2>1. \A u \in Threads : call[u].step \in Deleting => call[u].obj # o
    BY <1>4, PointedIsLive
  <2>2. \A u \in Threads : u # t /\ call[u].step = "count" => call[u].obj # o
    BY <1>1 DEF CreatedOnce, Active
  <2>3. o \notin Counted
    BY <1>1 DEF Counted, At
  <2>4. Counted' = Counted \union {o}
    BY <2>1, <2>2, <1>1, <1>2, <1>3, <1>4 DEF Counted, At, Deleting
  <2>5. Cardinality(Counted') = Cardinality(Counted) + 1
    BY <2>3, <2>4, CountedIsFinite, FS_AddElement
  <2> QED
    BY <1>1, <2>5, CountedIsFinite DEF CountIsRight, TypeOK
<1> QED
  BY <1>1, <1>6, <1>7, <1>8, <1>9, <1>10 DEF UnloadedIsUncounted

\* What AddRef leaves: o is the object of no thread that has not counted it yet.
LEMMA AddRefStep ==
  ASSUME IInv, NEW o \in Objects, NEW q \in Pointers, refCount[o] > 0, AddRef(o, q),
         UNCHANGED kind,
         \A u \in Threads : call[u].step = "count" => call[u].obj # o
  PROVE  /\ RefInv'
         /\ \A u \in Threads : call'[u] = call[u] => Shape(u)'
         /\ \A p \in Pointers : pointer[p] \in Objects => pointer'[p] = pointer[p]
         /\ \A p \in Objects : refCount'[p] = 0 => refCount[p] = 0
<1> USE DEF IInv, CallInv
<1>1. /\ RefInv'
      /\ refCount' = [refCount EXCEPT ![o] = @ + 1]
      /\ \A p \in Objects : p # o => PointersTo(p)' = PointersTo(p)
  BY SecondPointer
<1>2. pointer[q] = NoObject /\ pointer' = [pointer EXCEPT ![q] = o]
  BY DEF AddRef
<1>3. \A p \in Pointers : pointer[p] \in Objects => pointer'[p] = pointer[p]
  BY <1>2, ExtensionAssumption DEF TypeOK
<1>4. \A p \in Objects : refCount'[p] = 0 => refCount[p] = 0
  BY <1>1 DEF TypeOK
<1>5. ASSUME NEW u \in Threads, call'[u] = call[u]
      PROVE  Shape(u)'
  <2>1. Shape(u) /\ kind' = kind
    BY DEF CallShape
  <2>2. call[u].step = "count" => PointersTo(call[u].obj)' = PointersTo(call[u].obj)
    BY <1>1, <1>5, <2>1 DEF Shape, Active
  <2>3. call[u].step \in Deleting => refCount'[call[u].obj] = refCount[call[u].obj]
    BY <1>1, <2>1 DEF Shape, TypeOK
  <2> QED
    <3>1. call[u].step \in Active => pointer'[call[u].own] = pointer[call[u].own]
      BY <1>3, <2>1 DEF Shape
    <3> QED
      BY <1>5, <2>1, <2>2, <2>3, <3>1 DEF Shape, Idle
<1> QED
  BY <1>1, <1>3, <1>4, <1>5

LEMMA QueryInterfaceStep ==
  ASSUME IInv, NEW t \in Threads, QueryInterface(t)
  PROVE  RefInv' /\ CallInv' /\ UnloadedIsUncounted' /\ CountIsRight'
<1> USE DEF IInv, CallInv
<1> DEFINE o == call[t].obj
<1>1. /\ loaded /\ UNCHANGED <<loaded, dllRefCount, locks, kind>>
      /\ call[t].step = "query"
      /\ call' = [call EXCEPT ![t].step = "release"]
  BY DEF QueryInterface, Goto
<1>2. \A u \in Threads : u # t => call'[u] = call[u]
  BY <1>1 DEF TypeOK
<1>3. /\ call'[t].step = "release" /\ call'[t].obj = o /\ call'[t].own = call[t].own
  BY <1>1 DEF TypeOK
<1>4. /\ o \in Objects /\ call[t].own \in Pointers /\ pointer[call[t].own] = o
  BY <1>1 DEF CallShape, Shape, Active
<1>5. /\ RefInv'
      /\ \A u \in Threads : u # t => Shape(u)'
      /\ pointer'[call[t].own] = o
      /\ \A q \in Objects : refCount'[q] = 0 => refCount[q] = 0
  <2>1. CASE UNCHANGED <<refCount, pointer>>
    <3>1. \A q : PointersTo(q)' = PointersTo(q)
      BY <2>1 DEF PointersTo
    <3>2. RefInv'
      BY <1>1, <2>1, <3>1 DEF RefInv, RefsAreCounted, DeadHaveNoRefs
    <3>3. ASSUME NEW u \in Threads, u # t
          PROVE  Shape(u)'
      BY <1>1, <1>2, <2>1, <3>1, <3>3 DEF CallShape, Shape, Idle
    <3> QED
      BY <1>4, <2>1, <3>2, <3>3
  <2>2. CASE \E q \in Pointers : AddRef(o, q)
    <3>1. PICK q \in Pointers : AddRef(o, q)
      BY <2>2
    <3>2. refCount[o] > 0
      BY <1>4, PointedIsLive
    <3>3. \A u \in Threads : call[u].step = "count" => call[u].obj # o
      BY <1>1 DEF CreatedOnce, Active
    <3> QED
      BY <1>1, <1>2, <1>4, <3>1, <3>2, <3>3, AddRefStep
  <2> QED
    BY <2>1, <2>2 DEF QueryInterface
<1>6. CallShape'
  <2>1. Shape(t)'
    BY <1>3, <1>4, <1>5 DEF Shape, Active, Deleting
  <2> QED
    BY <1>5, <2>1 DEF CallShape
<1>7. CreatedOnce'
  BY <1>1, <1>2, <1>3 DEF CreatedOnce, Active
<1>8. OneDeletes'
  <2>1. \A u \in Threads :
           /\ call'[u].step \in Deleting <=> call[u].step \in Deleting
           /\ call[u].step \in Deleting => call'[u].obj = call[u].obj
    BY <1>1, <1>2, <1>3 DEF Deleting
  <2>2. \A q \in Objects : kind'[q] # "none" /\ refCount'[q] = 0 =>
                              kind[q] # "none" /\ refCount[q] = 0
    BY <1>1, <1>5
  <2> QED
    BY <2>1, <2>2, SameDeleters
<1>9. CountIsRight'
  <2>1. \A q \in Objects : q \in Counted' <=> q \in Counted
    BY <1>1, <1>2, <1>3 DEF Counted, At
  <2> QED
    BY <1>1, <2>1, SameCounted
<1> QED
  BY <1>1, <1>5, <1>6, <1>7, <1>8, <1>9 DEF UnloadedIsUncounted

LEMMA ClientAddRefStep ==
  ASSUME IInv, NEW t \in Threads, NEW p \in Pointers, NEW q \in Pointers, ClientAddRef(t, p, q)
  PROVE  RefInv' /\ CallInv' /\ UnloadedIsUncounted' /\ CountIsRight'
<1> USE DEF IInv, CallInv
<1> DEFINE o == pointer[p]
<1>1. /\ loaded /\ o \in Objects /\ ~InUse(p) /\ AddRef(o, q)
      /\ UNCHANGED <<loaded, dllRefCount, locks, kind, call>>
  BY DEF ClientAddRef
<1>2. refCount[o] > 0
  BY <1>1, PointedIsLive
<1>3. \A u \in Threads : call[u].step = "count" => call[u].obj # o
  BY <1>1 DEF CallShape, Shape, InUse, PointersTo
<1>4. /\ RefInv'
      /\ \A u \in Threads : Shape(u)'
      /\ \A x \in Objects : refCount'[x] = 0 => refCount[x] = 0
  BY <1>1, <1>2, <1>3, AddRefStep
<1>5. CreatedOnce'
  BY <1>1 DEF CreatedOnce
<1>6. OneDeletes'
  BY <1>1, <1>4, SameDeleters
<1>7. CountIsRight'
  <2>1. Counted' = Counted
    BY <1>1 DEF Counted, At
  <2> QED
    BY <1>1, <2>1 DEF CountIsRight
<1> QED
  BY <1>1, <1>4, <1>5, <1>6, <1>7 DEF CallShape, UnloadedIsUncounted

\* A release of a pointer that no other call holds, by a thread that is idle or gives
\* its own pointer back.
LEMMA ReleaseStep ==
  ASSUME IInv, NEW t \in Threads, NEW o \in Objects, NEW p \in Pointers, pointer[p] = o,
         call[t].step \in {"idle", "release"},
         \A u \in Threads : u # t => call[u].own # p,
         loaded, Release(t, o, p), UNCHANGED <<loaded, dllRefCount, locks, kind>>
  PROVE  RefInv' /\ CallInv' /\ UnloadedIsUncounted' /\ CountIsRight'
<1> USE DEF IInv, CallInv
<1>1. /\ RefInv'
      /\ refCount' = [refCount EXCEPT ![o] = @ - 1]
      /\ refCount[o] > 0 /\ kind[o] # "none"
      /\ \A q \in Objects : q # o => PointersTo(q)' = PointersTo(q)
  BY OnePointerLess
<1>2. pointer' = [pointer EXCEPT ![p] = NoObject]
  BY DEF Release
<1>3. \A u \in Threads : u # t => call'[u] = call[u]
  BY DEF Release, Return, Enter, TypeOK
<1>4. \/ refCount[o] > 1 /\ call'[t] = Idle
      \/ /\ refCount[o] = 1 /\ call'[t].obj = o /\ call'[t].own = NoPointer
         /\ call'[t].step = IF kind[o] = "handler" THEN "uncount" ELSE "delete"
  BY <1>1 DEF Release, Return, Enter, TypeOK
<1>5. \A u \in Threads : call[u].step \in Deleting => call[u].obj # o
  BY PointedIsLive
<1>6. CallShape'
  <2> SUFFICES ASSUME NEW u \in Threads
               PROVE  Shape(u)'
    BY DEF CallShape
  <2>1. CASE u = t
    BY <2>1, <1>1, <1>4 DEF Shape, Active, Deleting, Idle, TypeOK
  <2>2. CASE u # t
    <3>1. Shape(u) /\ call'[u] = call[u]
      BY <2>2, <1>3 DEF CallShape
    <3>2. call[u].step \in Active => pointer'[call[u].own] = pointer[call[u].own]
      BY <2>2, <3>1, <1>2 DEF Shape, TypeOK
    <3>3. call[u].step = "count" => call[u].obj # o
      BY <2>2, <3>1 DEF Shape, PointersTo
    <3>4. call[u].step = "count" => PointersTo(call[u].obj)' = PointersTo(call[u].obj)
      BY <1>1, <3>1, <3>3 DEF Shape, Active
    <3>5. call[u].step \in Deleting => refCount'[call[u].obj] = refCount[call[u].obj]
      BY <1>1, <1>5, <3>1 DEF Shape, TypeOK
    <3> QED
      BY <3>1, <3>2, <3>4, <3>5 DEF Shape, Idle
  <2> QED
    BY <2>1, <2>2
<1>7. CreatedOnce'
  BY <1>3, <1>4 DEF CreatedOnce, Active, Idle
<1>8. OneDeletes'
  <2> SUFFICES ASSUME NEW q \in Objects, kind'[q] # "none", refCount'[q] = 0
               PROVE  \E v \in Threads : \A u \in Threads :
                        call'[u].obj = q /\ call'[u].step \in Deleting <=> u = v
    BY DEF OneDeletes
  <2>1. CASE q = o
    <3>1. call'[t].obj = o /\ call'[t].step \in Deleting
      BY <2>1, <1>1, <1>4 DEF Deleting, TypeOK
    <3>2. \A u \in Threads : call'[u].obj = q /\ call'[u].step \in Deleting <=> u = t
      BY <2>1, <3>1, <1>3, <1>5
    <3> QED
      BY <3>2
  <2>2. CASE q # o
    <3>1. PICK v \in Threads : \A u \in Threads :
            call[u].obj = q /\ call[u].step \in Deleting <=> u = v
      BY <2>2, <1>1 DEF OneDeletes, TypeOK
    <3>2. ~(call'[t].obj = q /\ call'[t].step \in Deleting)
      BY <2>2, <1>4 DEF Idle, Deleting
    <3>3. v # t
      BY <3>1 DEF Deleting
    <3>4. \A u \in Threads : call'[u].obj = q /\ call'[u].step \in Deleting <=> u = v
      BY <3>1, <3>2, <3>3, <1>3
    <3> QED
      BY <3>4
  <2> QED
    BY <2>1, <2>2
<1>9. CountIsRight'
  <2>1. \A q \in Objects : q \in Counted' <=> q \in Counted
    BY <1>3, <1>4 DEF Counted, At, Idle
  <2> QED
    BY <2>1, SameCounted
<1> QED
  BY <1>1, <1>6, <1>7, <1>8, <1>9 DEF UnloadedIsUncounted

LEMMA UncountStep ==
  ASSUME IInv, NEW t \in Threads, Uncount(t)
  PROVE  RefInv' /\ CallInv' /\ UnloadedIsUncounted' /\ CountIsRight'
<1> USE DEF IInv, CallInv
<1> DEFINE o == call[t].obj
<1>1. /\ loaded /\ loaded' = loaded /\ call[t].step = "uncount"
      /\ dllRefCount' = dllRefCount - 1
      /\ call' = [call EXCEPT ![t].step = "delete"]
      /\ UNCHANGED <<locks, kind, refCount, pointer>>
  BY DEF Uncount, Goto
<1>2. \A u \in Threads : u # t => call'[u] = call[u]
  BY <1>1 DEF TypeOK
<1>3. /\ call'[t].step = "delete" /\ call'[t].obj = o /\ call'[t].own = call[t].own
  BY <1>1 DEF TypeOK
<1>4. /\ o \in Objects /\ call[t].own = NoPointer
      /\ kind[o] = "handler" /\ refCount[o] = 0
  BY <1>1 DEF CallShape, Shape, Deleting
<1>5. \A q : PointersTo(q)' = PointersTo(q)
  BY <1>1 DEF PointersTo
<1>6. RefInv'
  BY <1>1, <1>5 DEF RefInv, RefsAreCounted, DeadHaveNoRefs
<1>7. CallShape'
  <2> SUFFICES ASSUME NEW u \in Threads
               PROVE  Shape(u)'
    BY DEF CallShape
  <2>1. CASE u = t
    BY <2>1, <1>1, <1>3, <1>4 DEF Shape, Active, Deleting
  <2>2. CASE u # t
    BY <2>2, <1>1, <1>2, <1>5 DEF CallShape, Shape, Idle
  <2> QED
    BY <2>1, <2>2
<1>8. CreatedOnce'
  BY <1>1, <1>2, <1>3 DEF CreatedOnce, Active
<1>9. OneDeletes'
  BY <1>1, <1>2, <1>3, SameDeleters DEF Deleting
<1>10. CountIsRight'
  <2>1. \A u \in Threads : call[u].step = "count" => call[u].obj # o
    BY <1>4, PointedIsLive DEF CallShape, Shape, Active
  <2>2. \A u \in Threads : u # t /\ call[u].step = "delete" => call[u].obj # o
    BY <1>1, <1>4 DEF OneDeletes, Deleting
  <2>3. o \in Counted
    BY <2>1, <2>2, <1>1, <1>4 DEF Counted, At
  <2>4. Counted' = Counted \ {o}
    BY <1>1, <1>2, <1>3, <1>4 DEF Counted, At
  <2>5. Cardinality(Counted') = Cardinality(Counted) - 1
    BY <2>3, <2>4, CountedIsFinite, FS_RemoveElement
  <2> QED
    BY <1>1, <2>5, CountedIsFinite DEF CountIsRight, TypeOK
<1> QED
  BY <1>1, <1>6, <1>7, <1>8, <1>9, <1>10 DEF UnloadedIsUncounted

LEMMA DeleteStep ==
  ASSUME IInv, NEW t \in Threads, Delete(t)
  PROVE  RefInv' /\ CallInv' /\ UnloadedIsUncounted' /\ CountIsRight'
<1> USE DEF IInv, CallInv
<1> DEFINE o == call[t].obj
<1>1. /\ loaded /\ call[t].step = "delete"
      /\ kind' = [kind EXCEPT ![o] = "none"]
      /\ call' = [call EXCEPT ![t] = Idle]
      /\ UNCHANGED <<loaded, dllRefCount, locks, refCount, pointer>>
  BY DEF Delete, Return
<1>2. \A u \in Threads : u # t => call'[u] = call[u]
  BY <1>1 DEF TypeOK
<1>3. call'[t] = Idle
  BY <1>1 DEF TypeOK
<1>4. o \in Objects /\ kind[o] # "none" /\ refCount[o] = 0
  BY <1>1 DEF CallShape, Shape, Deleting
<1>5. \A q : PointersTo(q)' = PointersTo(q)
  BY <1>1 DEF PointersTo
<1>6. RefInv'
  BY <1>1, <1>4, <1>5 DEF RefInv, RefsAreCounted, DeadHaveNoRefs, TypeOK
<1>7. \A u \in Threads : call[u].step = "count" => call[u].obj # o
  BY <1>4, PointedIsLive DEF CallShape, Shape, Active
<1>8. \A u \in Threads : u # t /\ call[u].step \in Deleting => call[u].obj # o
  BY <1>1, <1>4 DEF OneDeletes, Deleting
<1>9. CallShape'
  <2> SUFFICES ASSUME NEW u \in Threads
               PROVE  Shape(u)'
    BY DEF CallShape
  <2>1. CASE u = t
    BY <2>1, <1>3 DEF Shape, Active, Deleting, Idle
  <2>2. CASE u # t
    <3>1. Shape(u) /\ call'[u] = call[u]
      BY <2>2, <1>2 DEF CallShape
    <3>2. call[u].step \in {"count", "uncount", "delete"} => kind'[call[u].obj] = kind[call[u].obj]
      BY <2>2, <3>1, <1>1, <1>7, <1>8 DEF Shape, Active, Deleting, TypeOK
    <3> QED
      BY <3>1, <3>2, <1>1, <1>5 DEF Shape, Idle, Deleting
  <2> QED
    BY <2>1, <2>2
<1>10. CreatedOnce'
  BY <1>2, <1>3 DEF CreatedOnce, Active, Idle
<1>11. OneDeletes'
  <2> SUFFICES ASSUME NEW q \in Objects, kind'[q] # "none", refCount'[q] = 0
               PROVE  \E v \in Threads : \A u \in Threads :
                        call'[u].obj = q /\ call'[u].step \in Deleting <=> u = v
    BY DEF OneDeletes
  <2>1. q # o /\ kind[q] # "none" /\ refCount[q] = 0
    BY <1>1, <1>4 DEF TypeOK
  <2>2. PICK v \in Threads : \A u \in Threads :
          call[u].obj = q /\ call[u].step \in Deleting <=> u = v
    BY <2>1 DEF OneDeletes
  <2>3. v # t
    BY <2>1, <2>2
  <2>4. \A u \in Threads : call'[u].obj = q /\ call'[u].step \in Deleting <=> u = v
    BY <2>2, <2>3, <1>2, <1>3 DEF Idle, Deleting
  <2> QED
    BY <2>4
<1>12. CountIsRight'
  <2>1. o \notin Counted /\ o \notin Counted'
    BY <1>1, <1>4 DEF Counted, At, TypeOK
  <2>2. \A q \in Objects : q # o => (q \in Counted' <=> q \in Counted)
    BY <1>1, <1>2, <1>3 DEF Counted, At, TypeOK, Idle
  <2> QED
    BY <1>1, <2>1, <2>2, SameCounted
<1> QED
  BY <1>1, <1>6, <1>9, <1>10, <1>11, <1>12 DEF UnloadedIsUncounted

\* Steps that touch neither an object nor a pointer.
LEMMA ObjectsStay ==
  ASSUME IInv, UNCHANGED <<kind, refCount, pointer, call>>
  PROVE  RefInv' /\ CallInv' /\ Counted' = Counted
<1>1. \A q : PointersTo(q)' = PointersTo(q)
  BY DEF PointersTo
<1>2. RefInv'
  BY <1>1 DEF IInv, RefInv, RefsAreCounted, DeadHaveNoRefs
<1>3. CallShape'
  BY <1>1 DEF IInv, CallInv, CallShape, Shape, Idle
<1>4. CreatedOnce' /\ OneDeletes'
  BY DEF IInv, CallInv, CreatedOnce, OneDeletes
<1>5. Counted' = Counted
  BY DEF Counted, At
<1> QED
  BY <1>2, <1>3, <1>4, <1>5 DEF CallInv

-----------------------------------------------------------------------------
(* The invariant *)

LEMMA Initially ==
  ASSUME Init
  PROVE  IInv
<1>1. TypeOK
  <2>1. Idle \in [step : Steps, obj : Objects \union {NoObject},
                  own : Pointers \union {NoPointer}, via : Pointers \union {NoPointer}]
    BY DEF Idle, Steps
  <2>2. kind \in [Objects -> Kinds] /\ refCount \in [Objects -> Int]
    BY DEF Init, Kinds
  <2>3. /\ call \in [Threads -> [step : Steps, obj : Objects \union {NoObject},
                                 own : Pointers \union {NoPointer},
                                 via : Pointers \union {NoPointer}]]
        /\ pointer \in [Pointers -> Objects \union {NoObject}]
    BY <2>1 DEF Init
  <2>4. loaded \in BOOLEAN /\ dllRefCount \in Int /\ locks \in Nat
    <3>1. dllRefCount \in Int /\ locks \in Nat
      BY DEF Init
    <3>2. loaded \in BOOLEAN
      BY Zenon DEF Init
    <3> QED
      BY <3>1, <3>2
  <2> QED
    BY <2>2, <2>3, <2>4, Zenon DEF TypeOK
<1>2. \A o \in Objects : PointersTo(o) = {}
  BY ExtensionAssumption DEF Init, PointersTo
<1>3. RefInv
  BY <1>2, FS_EmptySet DEF Init, RefInv, RefsAreCounted, DeadHaveNoRefs
<1>4. CallInv
  BY DEF Init, CallInv, CallShape, Shape, CreatedOnce, OneDeletes, Idle, Active, Deleting
<1>5. Counted = {}
  BY DEF Init, Counted
<1>6. CountIsRight
  BY <1>5, FS_EmptySet DEF Init, CountIsRight
<1> QED
  BY <1>1, <1>3, <1>4, <1>6 DEF Init, IInv, UnloadedIsUncounted

LEMMA Step ==
  ASSUME IInv, [Next]_vars
  PROVE  IInv'
<1>1. TypeOK'
  BY TypeStep DEF IInv, CallInv
<1> SUFFICES RefInv' /\ CallInv' /\ UnloadedIsUncounted' /\ CountIsRight'
  BY <1>1 DEF IInv
<1>2. CASE Load
  BY <1>2, ObjectsStay DEF Load, IInv, CountIsRight, UnloadedIsUncounted
<1>3. CASE DllCanUnloadNow
  BY <1>3, ObjectsStay DEF DllCanUnloadNow, IInv, CountIsRight, UnloadedIsUncounted
<1>4. ASSUME NEW t \in Threads, ReleaseOwn(t)
      PROVE  RefInv' /\ CallInv' /\ UnloadedIsUncounted' /\ CountIsRight'
  <2>1. /\ call[t].obj \in Objects /\ call[t].own \in Pointers
        /\ pointer[call[t].own] = call[t].obj /\ call[t].step = "release"
    BY <1>4 DEF ReleaseOwn, IInv, CallInv, CallShape, Shape, Active
  <2>2. \A u \in Threads : u # t => call[u].own # call[t].own
    <3> SUFFICES ASSUME NEW u \in Threads, u # t, call[u].own = call[t].own
                 PROVE  FALSE
      OBVIOUS
    <3>1. call[u].step \in Active
      BY <2>1, ExtensionAssumption
         DEF IInv, CallInv, CallShape, Shape, Idle, Active, Deleting, TypeOK, Steps
    <3> QED
      BY <2>1, <3>1 DEF IInv, CallInv, CallShape, Shape, CreatedOnce, Active
  <2> QED
    BY <1>4, <2>1, <2>2, ReleaseStep DEF ReleaseOwn
<1>5. ASSUME NEW t \in Threads, NEW p \in Pointers, ClientRelease(t, p)
      PROVE  RefInv' /\ CallInv' /\ UnloadedIsUncounted' /\ CountIsRight'
  BY <1>5, ReleaseStep DEF ClientRelease, InUse, Idle
<1>6. ASSUME NEW t \in Threads, NEW f \in Pointers, NEW fLock \in BOOLEAN,
             ClientLocks(t, f, fLock)
      PROVE  RefInv' /\ CallInv' /\ UnloadedIsUncounted' /\ CountIsRight'
  <2>1. loaded /\ UNCHANGED <<loaded, kind, refCount, pointer, call>>
    BY <1>6 DEF ClientLocks
  <2>2. \/ dllRefCount' = dllRefCount + 1 /\ locks' = locks + 1
        \/ dllRefCount' = dllRefCount - 1 /\ locks' = locks - 1
    BY <1>6 DEF ClientLocks, LockServer
  <2>3. RefInv' /\ CallInv' /\ Counted' = Counted
    BY <2>1, ObjectsStay
  <2>4. Cardinality(Counted') = Cardinality(Counted) /\ Cardinality(Counted) \in Nat
    BY <2>3, CountedIsFinite
  <2>5. dllRefCount = locks + Cardinality(Counted) /\ dllRefCount \in Int /\ locks \in Nat
    BY DEF IInv, TypeOK, CountIsRight
  <2>6. dllRefCount' = locks' + Cardinality(Counted')
    BY <2>2, <2>4, <2>5
  <2> QED
    BY <2>1, <2>3, <2>6 DEF CountIsRight, UnloadedIsUncounted
<1>7. CASE UNCHANGED vars
  BY <1>7, ObjectsStay DEF vars, IInv, CountIsRight, UnloadedIsUncounted
<1> QED
  BY <1>2, <1>3, <1>4, <1>5, <1>6, <1>7, DllGetClassObjectStep, CreateInstanceStep, CountStep,
     QueryInterfaceStep, ClientAddRefStep, UncountStep, DeleteStep
     DEF Next, ThreadStep

LEMMA Invariance == Spec => []IInv
BY Initially, Step, PTL DEF Spec

-----------------------------------------------------------------------------
(* The theorems *)

\* The variables have their types: the members of the objects, and the calls.
THEOREM TypeCorrect == Spec => []TypeOK
BY Invariance, PTL DEF IInv

\* References are counted, and who takes the last one away deletes the object, alone.
THEOREM ObjectsDeletedOnce == Spec => []DeletedOnce
<1>1. IInv => DeletedOnce
  BY DEF IInv, RefInv, RefsAreCounted, DeadHaveNoRefs, CallInv, OneDeletes, DeletedOnce, Deleting
<1> QED
  BY <1>1, Invariance, PTL

\* The count of the library is that of its locks and handlers.
THEOREM LibraryCountIsRight == Spec => []CountIsRight
BY Invariance, PTL DEF IInv

\* The library is never freed while a client has a pointer to a handler.
THEOREM LibraryStays == Spec => []HandlersKeepLibrary
<1>1. ASSUME IInv
      PROVE  HandlersKeepLibrary
  <2> SUFFICES ASSUME dllRefCount = 0 \/ ~loaded, NEW p \in Pointers,
                      pointer[p] \in Objects, kind[pointer[p]] = "handler"
               PROVE  \E t \in Threads : call[t].step = "count" /\ call[t].own = p
    BY DEF HandlersKeepLibrary
  <2>1. Counted = {}
    BY <1>1, CountedIsFinite DEF IInv, UnloadedIsUncounted, CountIsRight, TypeOK
  <2>2. pointer[p] \notin At("delete")
    BY <1>1, PointedIsLive DEF IInv, CallInv, At, Deleting
  <2>3. PICK t \in Threads : call[t].step = "count" /\ call[t].obj = pointer[p]
    BY <2>1, <2>2 DEF Counted, At
  <2>4. PointersTo(pointer[p]) = {call[t].own}
    BY <1>1, <2>3 DEF IInv, CallInv, CallShape, Shape
  <2>5. call[t].own = p
    BY <2>4 DEF PointersTo
  <2> QED
    BY <2>3, <2>5
<1> QED
  BY <1>1, Invariance, PTL

(***************************************************************************)
(* Registration                                                            *)
(***************************************************************************)

\* The record of a function that regsvr32 calls.
Calls == [function : {"none", "register", "unregister"}, done : Nat, failures : Nat]

\* How far the function has come that regsvr32 has called last.
CallTypeOK ==
  /\ regsvr32 \in Calls
  /\ regsvr32.done <= Registry!Calls[regsvr32.function]
  /\ registry \subseteq Registry!Complete

\* Without a failure, the entries of the calls that are done are there.
WrittenInv ==
  regsvr32.function = "register" /\ regsvr32.failures = 0 =>
    \A i \in 1 .. regsvr32.done :
      Registry!KeysOf(Registry!Written[i].key) \union {Registry!Written[i]} \subseteq registry

\* Without a failure, the keys of the calls that are done are empty.
DeletedInv ==
  regsvr32.function = "unregister" /\ regsvr32.failures = 0 =>
    \A i \in 1 .. regsvr32.done : \A e \in registry : e.key # Registry!Deleted[i]

RegistrationInv == CallTypeOK /\ WrittenInv /\ DeletedInv

\* The calls of the two functions.
LEMMA CallsAre ==
  /\ Len(Registry!Written) = 8 /\ Len(Registry!Deleted) = 6
  /\ Registry!Calls.none = 0 /\ Registry!Calls["none"] = 0
  /\ Registry!Calls["register"] = 8 /\ Registry!Calls["unregister"] = 6
  /\ DOMAIN Registry!Written = 1 .. 8
<1>1. Len(Registry!Written) = 8 /\ DOMAIN Registry!Written = 1 .. 8
  BY DEF Registry!Written
<1>2. Len(Registry!Deleted) = 6
  BY DEF Registry!Deleted
<1>. QED
  BY <1>1, <1>2 DEF Registry!Calls

\* An entry of the extension is under one of the keys that are deleted.
LEMMA CompleteKeys ==
  ASSUME NEW e \in Registry!Complete
  PROVE  \E i \in 1 .. 6 : e.key = Registry!Deleted[i]
<1>1. PICK i \in 1 .. 8 :
        e \in Registry!KeysOf(Registry!Written[i].key) \union {Registry!Written[i]}
  BY CallsAre DEF Registry!Complete
<1>2. i \in {1, 2, 3, 4, 5, 6, 7, 8}
  BY <1>1
<1>3. Registry!Written[i].key \in
        {"CLSID", "InProcServer32", "AppID", "Files", "Directories", "Approved"}
  BY <1>2 DEF Registry!Written, Registry!Entry
<1>4. e.key \in {"CLSID", "InProcServer32", "AppID", "Files", "Directories", "Approved"}
  BY <1>1, <1>3 DEF Registry!KeysOf, Registry!Key, Registry!Entry
<1>. QED
  BY <1>4 DEF Registry!Deleted

\* What a call that succeeds, or one that fails, makes of the record.
LEMMA CallCounts ==
  ASSUME NEW r \in Calls
  PROVE  /\ [r EXCEPT !.done = @ + 1] \in Calls
         /\ [r EXCEPT !.done = @ + 1, !.failures = @ + 1] \in Calls
         /\ [r EXCEPT !.done = @ + 1].function = r.function
         /\ [r EXCEPT !.done = @ + 1].done = r.done + 1
         /\ [r EXCEPT !.done = @ + 1].failures = r.failures
         /\ [r EXCEPT !.done = @ + 1, !.failures = @ + 1].function = r.function
         /\ [r EXCEPT !.done = @ + 1, !.failures = @ + 1].done = r.done + 1
         /\ [r EXCEPT !.done = @ + 1, !.failures = @ + 1].failures = r.failures + 1
<1>1. r.function \in {"none", "register", "unregister"} /\ r.done \in Nat /\ r.failures \in Nat
  BY DEF Calls
<1>2. [r EXCEPT !.done = @ + 1] = [function |-> r.function, done |-> r.done + 1,
                                   failures |-> r.failures]
  BY DEF Calls
<1>3. [r EXCEPT !.done = @ + 1, !.failures = @ + 1]
        = [function |-> r.function, done |-> r.done + 1, failures |-> r.failures + 1]
  <2> DEFINE one == [r EXCEPT !.done = @ + 1]
  <2>1. [r EXCEPT !.done = @ + 1, !.failures = @ + 1]
          = [one EXCEPT !.failures = r.failures + 1]
    BY Zenon DEF Calls
  <2>2. one = [function |-> r.function, done |-> r.done + 1, failures |-> r.failures]
    BY <1>2
  <2>. HIDE DEF one
  <2>3. [one EXCEPT !.failures = r.failures + 1]
          = [function |-> r.function, done |-> r.done + 1, failures |-> r.failures + 1]
    BY <2>2
  <2>. QED
    BY <2>1, <2>3, Zenon
<1>. QED
  BY <1>1, <1>2, <1>3 DEF Calls

\* What a call of DllRegisterServer writes belongs to the extension.
LEMMA WrittenIsOwn ==
  ASSUME NEW i \in 1 .. 8
  PROVE  Registry!KeysOf(Registry!Written[i].key) \union {Registry!Written[i]}
           \subseteq Registry!Complete
BY CallsAre DEF Registry!Complete

\* A call of DllRegisterServer writes its entry or counts a failure.
LEMMA RegisterStep ==
  ASSUME RegistrationInv, Registry!DllRegisterServer
  PROVE  RegistrationInv'
<1> DEFINE i == regsvr32.done + 1
           written == Registry!KeysOf(Registry!Written[i].key) \union {Registry!Written[i]}
<1>1. /\ regsvr32.function = "register" /\ regsvr32.done \in Nat /\ regsvr32.failures \in Nat
      /\ i \in 1 .. 8
  BY CallsAre DEF RegistrationInv, CallTypeOK, Calls, Registry!DllRegisterServer, Registry!Returned
<1>2. written \subseteq Registry!Complete
  BY <1>1, WrittenIsOwn
<1>3. /\ registry \subseteq registry' /\ registry' \subseteq registry \union written
      /\ \/ /\ regsvr32' = [regsvr32 EXCEPT !.done = @ + 1] /\ written \subseteq registry'
         \/ regsvr32' = [regsvr32 EXCEPT !.done = @ + 1, !.failures = @ + 1]
  BY <1>1 DEF Registry!DllRegisterServer, Registry!CallSucceeds, Registry!CallFails
<1>. HIDE DEF written
<1>4. /\ regsvr32'.function = "register" /\ regsvr32'.done = i
      /\ \/ regsvr32'.failures = regsvr32.failures /\ written \subseteq registry'
         \/ regsvr32'.failures = regsvr32.failures + 1
      /\ regsvr32' \in Calls
  BY <1>1, <1>3, CallCounts DEF RegistrationInv, CallTypeOK
<1>5. CallTypeOK'
  BY <1>1, <1>2, <1>3, <1>4, CallsAre DEF RegistrationInv, CallTypeOK
<1>6. WrittenInv'
  <2>. SUFFICES ASSUME regsvr32'.failures = 0, NEW j \in 1 .. i
                PROVE  Registry!KeysOf(Registry!Written[j].key) \union {Registry!Written[j]}
                         \subseteq registry'
    BY <1>4 DEF WrittenInv
  <2>1. regsvr32.failures = 0 /\ written \subseteq registry'
    BY <1>1, <1>4
  <2>2. CASE j = i
    BY <2>1, <2>2 DEF written
  <2>3. CASE j # i
    BY <1>1, <1>3, <2>1, <2>3 DEF RegistrationInv, WrittenInv
  <2>. QED
    BY <2>2, <2>3
<1>. QED
  BY <1>4, <1>5, <1>6 DEF RegistrationInv, DeletedInv

\* A call of DllUnregisterServer deletes its key or counts a failure.
LEMMA UnregisterStep ==
  ASSUME RegistrationInv, Registry!DllUnregisterServer
  PROVE  RegistrationInv'
<1> DEFINE i == regsvr32.done + 1
           key == Registry!Deleted[i]
<1>1. /\ regsvr32.function = "unregister" /\ regsvr32.done \in Nat /\ regsvr32.failures \in Nat
      /\ i \in 1 .. 6
  BY CallsAre DEF RegistrationInv, CallTypeOK, Calls, Registry!DllUnregisterServer, Registry!Returned
<1>2. /\ registry' \subseteq registry
      /\ \/ /\ regsvr32' = [regsvr32 EXCEPT !.done = @ + 1]
            /\ \/ \A e \in registry' : e.key # key
               \/ key = "CLSID" /\ Registry!Key("InProcServer32") \in registry
         \/ regsvr32' = [regsvr32 EXCEPT !.done = @ + 1, !.failures = @ + 1]
  BY <1>1 DEF Registry!DllUnregisterServer, Registry!CallSucceeds, Registry!CallFails
<1>. HIDE DEF key
<1>3. /\ regsvr32'.function = "unregister" /\ regsvr32'.done = i
      /\ \/ /\ regsvr32'.failures = regsvr32.failures
            /\ \/ \A e \in registry' : e.key # key
               \/ key = "CLSID" /\ Registry!Key("InProcServer32") \in registry
         \/ regsvr32'.failures = regsvr32.failures + 1
      /\ regsvr32' \in Calls
  BY <1>1, <1>2, CallCounts DEF RegistrationInv, CallTypeOK
<1>4. CallTypeOK'
  BY <1>1, <1>2, <1>3, CallsAre DEF RegistrationInv, CallTypeOK
<1>5. DeletedInv'
  <2>. SUFFICES ASSUME regsvr32'.failures = 0, NEW j \in 1 .. i, NEW e \in registry'
                PROVE  e.key # Registry!Deleted[j]
    BY <1>3 DEF DeletedInv
  <2>1. regsvr32.failures = 0 /\ regsvr32'.failures = regsvr32.failures
    BY <1>1, <1>3
  <2>2. \A k \in 1 .. regsvr32.done : \A d \in registry : d.key # Registry!Deleted[k]
    BY <1>1, <2>1 DEF RegistrationInv, DeletedInv
  <2>3. CASE j # i
    BY <1>1, <1>2, <2>2, <2>3
  <2>4. CASE j = i
    <3>1. key = "CLSID" => i = 4
      <4>1. i \in {1, 2, 3, 4, 5, 6}
        BY <1>1
      <4>. QED
        BY <4>1 DEF Registry!Deleted, key
    <3>2. key = "CLSID" => Registry!Key("InProcServer32") \notin registry
      <4>1. Registry!Key("InProcServer32").key = "InProcServer32"
        BY DEF Registry!Key, Registry!Entry
      <4>2. Registry!Deleted[3] = "InProcServer32"
        BY DEF Registry!Deleted
      <4>. QED
        BY <1>1, <2>2, <3>1, <4>1, <4>2
    <3>. QED
      BY <1>1, <1>3, <2>1, <2>4, <3>2 DEF key
  <2>. QED
    BY <2>3, <2>4
<1>. QED
  BY <1>3, <1>4, <1>5 DEF RegistrationInv, WrittenInv

\* So every step keeps the invariant: the other ones begin a function.
LEMMA RegistrationInvariance == MCSpec => []RegistrationInv
<1>1. MCInit => RegistrationInv
  BY CallsAre DEF MCInit, Registry!Init, RegistrationInv, CallTypeOK, Calls, WrittenInv, DeletedInv
<1>2. RegistrationInv /\ [MCNext]_<<vars, registry, regsvr32>> => RegistrationInv'
  <2>. SUFFICES ASSUME RegistrationInv, [MCNext]_<<vars, registry, regsvr32>> PROVE RegistrationInv'
    OBVIOUS
  <2>1. ASSUME NEW function \in {"register", "unregister"}, Registry!Run(function) PROVE RegistrationInv'
    BY <2>1, CallsAre DEF Registry!Run, RegistrationInv, CallTypeOK, Calls, WrittenInv, DeletedInv
  <2>2. CASE UNCHANGED <<registry, regsvr32>>
    BY <2>2 DEF RegistrationInv, CallTypeOK, WrittenInv, DeletedInv
  <2>. QED
    BY <2>1, <2>2, RegisterStep, UnregisterStep DEF MCNext, Registry!Next
<1>. QED
  BY <1>1, <1>2, PTL DEF MCSpec

\* After any earlier calls of regsvr32, however they have failed or were ended, a
\* registration in which no call fails leaves every entry of the extension, and such an
\* unregistration leaves none (DllRegisterServer and DllUnregisterServer in dllmain.cpp).
THEOREM RegistrationLeavesAllOrNothing == MCSpec => []RegistrationIsWhole
<1>1. RegistrationInv => RegistrationIsWhole
  <2>. SUFFICES ASSUME RegistrationInv, Registry!Returned, regsvr32.failures = 0
                PROVE  /\ regsvr32.function = "register" => registry = Registry!Complete
                       /\ regsvr32.function = "unregister" => registry = {}
    BY DEF RegistrationIsWhole, Registry!RegistrationIsWhole
  <2>1. CASE regsvr32.function = "register"
    <3>1. regsvr32.done = 8
      BY <2>1, CallsAre DEF Registry!Returned
    <3>2. Registry!Complete \subseteq registry
      BY <2>1, <3>1, CallsAre DEF RegistrationInv, WrittenInv, Registry!Complete
    <3>. QED
      BY <2>1, <3>2 DEF RegistrationInv, CallTypeOK
  <2>2. CASE regsvr32.function = "unregister"
    <3>1. regsvr32.done = 6
      BY <2>2, CallsAre DEF Registry!Returned
    <3>2. \A e \in registry : e \in Registry!Complete /\ \A i \in 1 .. 6 : e.key # Registry!Deleted[i]
      BY <2>2, <3>1 DEF RegistrationInv, CallTypeOK, DeletedInv
    <3>. QED
      BY <2>2, <3>2, CompleteKeys
  <2>. QED
    BY <2>1, <2>2
<1>. QED
  BY <1>1, RegistrationInvariance, PTL

=============================================================================

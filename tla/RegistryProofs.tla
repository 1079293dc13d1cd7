--------------------------- MODULE RegistryProofs ---------------------------
(***************************************************************************)
(* A registry finds every object under its own ref and implements the id   *)
(* allocator, for every number of slots and every set of objects.          *)
(***************************************************************************)
EXTENDS Registry, FiniteSetTheorems, TLAPS

-----------------------------------------------------------------------------
(* The inductive invariant *)

\* f lists the n slots of the free list, the head last.  The slots up to top
\* have been used: each holds an object or is on the list.  The others were
\* never touched.
FreeList(g, f, n, top) ==
  /\ \A i, j \in 1 .. n : f[i] = f[j] => i = j
  /\ g.head = IF n = 0 THEN Nil ELSE f[n]
  /\ \A i \in 1 .. n : g.slot[f[i]] = IF i = 1 THEN Nil ELSE f[i - 1]
  /\ \A i \in 1 .. n : f[i] <= top
  /\ \A q \in Slots : q <= top => g.slot[q] \in Objs \/ \E i \in 1 .. n : f[i] = q
  /\ \A q \in Slots : q > top => g.slot[q] = Nil

HasFreeList(g) ==
  \E n \in Nat : \E f \in [1 .. n -> Slots] : \E top \in 0 .. MaxRef : FreeList(g, f, n, top)

IndInv ==
  /\ TypeOK
  /\ HeldRefsFindTheirObject
  /\ HasFreeList(reg)
  /\ IsFiniteSet(out) /\ SizeExact

-----------------------------------------------------------------------------
(* The operations on a registry *)

\* ref() returns a slot that holds no object; if that is not the head of the
\* free list, every slot before it is in use.  It leaves a free list behind.
LEMMA RefLemma ==
  ASSUME NEW g \in Registry, HasFreeList(g), NEW obj \in Objs, NEW r \in NextRefs(g)
  PROVE  /\ r \in Slots
         /\ g.slot[r] \notin Objs
         /\ ref(g, obj, r) \in Registry
         /\ HasFreeList(ref(g, obj, r))
         /\ g.head # r => \A q \in 1 .. r - 1 : g.slot[q] \in Objs
<1>0. PICK n \in Nat :
        \E f \in [1 .. n -> Slots] : \E top \in 0 .. MaxRef : FreeList(g, f, n, top)
  BY DEF HasFreeList
<1>1. PICK f \in [1 .. n -> Slots], top \in 0 .. MaxRef : FreeList(g, f, n, top)
  BY <1>0
<1>2. r \in Slots /\ MaxRef \in Nat /\ Slots = 1 .. MaxRef
  BY DataAssumption DEF NextRefs, Slots
<1>3. Nil \notin Objs /\ Nil \notin Slots /\ Objs \cap Slots = {}
  BY DataAssumption DEF Slots
<1>4. PICK s \in [Slots -> Objs \cup Slots \cup {Nil}] : s = [g.slot EXCEPT ![r] = obj]
  BY <1>2 DEF Registry
<1>5. s[r] = obj /\ \A q \in Slots \ {r} : s[q] = g.slot[q]
  BY <1>2, <1>4 DEF Registry
<1>6. PICK h \in Slots \cup {Nil, obj} : h = IF g.head # Nil THEN g.slot[g.head] ELSE Nil
  <2>1. CASE g.head = Nil
    BY <2>1
  <2>2. CASE g.head # Nil
    <3>1. n # 0 /\ g.head = f[n] /\ g.slot[f[n]] = IF n = 1 THEN Nil ELSE f[n - 1]
      BY <1>1, <2>2 DEF FreeList
    <3>2. n # 1 => f[n - 1] \in Slots
      BY <3>1
    <3> QED BY <2>2, <3>1, <3>2
  <2> QED BY <2>1, <2>2
<1>7. ref(g, obj, r) = [slot |-> s, head |-> h, size |-> g.size + 1]
  BY <1>4, <1>6 DEF ref
<1>8. CASE g.head # Nil
  <2>1. n # 0 /\ g.head = f[n] /\ r = f[n]
    BY <1>1, <1>8 DEF FreeList, NextRefs
  <2>2. g.slot[r] = IF n = 1 THEN Nil ELSE f[n - 1]
    BY <1>1, <2>1 DEF FreeList
  <2>3. g.slot[r] \in Slots \cup {Nil} /\ g.slot[r] \notin Objs
    <3>1. n # 1 => f[n - 1] \in Slots
      BY <2>1
    <3> QED BY <1>3, <2>2, <3>1
  <2>4. h = g.slot[r] /\ h \in Slots \cup {Nil}
    BY <1>6, <1>8, <2>1, <2>3
  <2>5. ref(g, obj, r) \in Registry
    BY <1>7, <2>4 DEF Registry
  <2>6. PICK m \in Nat : m = n - 1
    BY <2>1
  <2>7. PICK e \in [1 .. m -> Slots] : \A i \in 1 .. m : e[i] = f[i]
    <3> DEFINE d == [i \in 1 .. m |-> f[i]]
    <3>1. d \in [1 .. m -> Slots] /\ \A i \in 1 .. m : d[i] = f[i]
      BY <2>6
    <3> QED BY <3>1
  <2>8. \A i \in 1 .. m : f[i] # r /\ e[i] = f[i] /\ i \in 1 .. n
    BY <1>1, <2>1, <2>6, <2>7 DEF FreeList
  <2> DEFINE k == [slot |-> s, head |-> h, size |-> g.size + 1]
  <2>9. FreeList(k, e, m, top)
    <3>1. \A i, j \in 1 .. m : e[i] = e[j] => i = j
      BY <1>1, <2>8 DEF FreeList
    <3>2. k.head = IF m = 0 THEN Nil ELSE e[m]
      BY <2>2, <2>4, <2>6, <2>8
    <3>3. \A i \in 1 .. m : k.slot[e[i]] = IF i = 1 THEN Nil ELSE e[i - 1]
      <4> SUFFICES ASSUME NEW i \in 1 .. m PROVE s[e[i]] = IF i = 1 THEN Nil ELSE e[i - 1]
        OBVIOUS
      <4>1. s[e[i]] = g.slot[f[i]]
        BY <1>5, <2>8
      <4>2. i # 1 => i - 1 \in 1 .. m
        OBVIOUS
      <4> QED BY <1>1, <2>8, <4>1, <4>2 DEF FreeList
    <3>4. \A i \in 1 .. m : e[i] <= top
      BY <1>1, <2>8 DEF FreeList
    <3>5. \A q \in Slots : q <= top => k.slot[q] \in Objs \/ \E i \in 1 .. m : e[i] = q
      <4> SUFFICES ASSUME NEW q \in Slots, q <= top, q # r
                   PROVE  s[q] \in Objs \/ \E i \in 1 .. m : e[i] = q
        BY <1>5
      <4>1. CASE g.slot[q] \in Objs
        BY <1>5, <4>1
      <4>2. CASE \E i \in 1 .. n : f[i] = q
        <5>1. PICK i \in 1 .. n : f[i] = q
          BY <4>2
        <5>2. i \in 1 .. m
          BY <2>1, <2>6, <5>1
        <5> QED BY <2>8, <5>1, <5>2
      <4> QED BY <1>1, <4>1, <4>2 DEF FreeList
    <3>6. \A q \in Slots : q > top => k.slot[q] = Nil
      <4>1. r <= top
        BY <1>1, <2>1 DEF FreeList
      <4> QED BY <1>1, <1>2, <1>5, <4>1, SMTT(30) DEF FreeList, Slots
    <3> HIDE DEF k
    <3> QED BY <3>1, <3>2, <3>3, <3>4, <3>5, <3>6 DEF FreeList
  <2>10. HasFreeList(k)
    <3> HIDE DEF k
    <3> QED BY <2>9 DEF HasFreeList
  <2> QED BY <1>2, <1>7, <2>1, <2>3, <2>5, <2>10
<1>9. CASE g.head = Nil
  <2>1. n = 0
    <3> SUFFICES ASSUME n # 0 PROVE FALSE
      OBVIOUS
    <3>1. g.head = f[n] /\ f[n] \in Slots
      BY <1>1 DEF FreeList
    <3> QED BY <1>3, <1>9, <3>1
  <2>2. PICK b \in Borders(g) : r = b + 1
    BY <1>9 DEF NextRefs
  <2>3. /\ b \in 0 .. MaxRef /\ b < MaxRef /\ g.slot[r] = Nil
        /\ b > 0 => g.slot[b] # Nil
    BY <1>2, <2>2 DEF Borders
  <2>4. \A q \in Slots : q <= top => g.slot[q] \in Objs
    BY <1>1, <2>1 DEF FreeList
  <2>5. \A q \in Slots : q > top => g.slot[q] = Nil
    BY <1>1 DEF FreeList
  <2>6. b = top
    <3>1. ~(r <= top)
      BY <1>2, <1>3, <2>3, <2>4
    <3>2. ~(b > top)
      BY <1>2, <2>3, <2>5
    <3> QED BY <1>2, <2>2, <2>3, <3>1, <3>2
  <2>7. g.slot[r] \notin Objs /\ \A q \in 1 .. r - 1 : g.slot[q] \in Objs
    BY <1>2, <1>3, <2>2, <2>3, <2>4, <2>6
  <2>8. h = Nil
    BY <1>6, <1>9
  <2>9. ref(g, obj, r) \in Registry
    BY <1>7, <2>8 DEF Registry
  <2> DEFINE k == [slot |-> s, head |-> h, size |-> g.size + 1]
  <2>10. PICK u \in 0 .. MaxRef : u = top + 1 /\ u = r
    BY <1>2, <2>2, <2>3, <2>6
  <2>11. FreeList(k, f, n, u)
    <3>1. k.head = Nil /\ k.slot = s
      BY <2>8
    <3>2. \A q \in Slots : q <= u => s[q] \in Objs
      BY <1>2, <1>5, <2>4, <2>10
    <3>3. \A q \in Slots : q > u => s[q] = Nil
      BY <1>2, <1>5, <2>5, <2>10
    <3> HIDE DEF k
    <3> QED BY <2>1, <3>1, <3>2, <3>3 DEF FreeList
  <2>12. HasFreeList(k)
    <3> HIDE DEF k
    <3> QED BY <2>11 DEF HasFreeList
  <2> QED BY <1>2, <1>7, <2>7, <2>9, <2>12
<1> QED BY <1>8, <1>9

\* unref(r) puts a slot that holds an object on the free list.
LEMMA UnrefLemma ==
  ASSUME NEW g \in Registry, HasFreeList(g), NEW r \in Slots, g.slot[r] \in Objs
  PROVE  /\ unref(g, r) \in Registry
         /\ HasFreeList(unref(g, r))
<1>0. PICK n \in Nat :
        \E f \in [1 .. n -> Slots] : \E top \in 0 .. MaxRef : FreeList(g, f, n, top)
  BY DEF HasFreeList
<1>1. PICK f \in [1 .. n -> Slots], top \in 0 .. MaxRef : FreeList(g, f, n, top)
  BY <1>0
<1>2. MaxRef \in Nat /\ Slots = 1 .. MaxRef
  BY DataAssumption DEF Slots
<1>3. Nil \notin Objs /\ Nil \notin Slots /\ Objs \cap Slots = {}
  BY DataAssumption DEF Slots
<1>4. PICK s \in [Slots -> Objs \cup Slots \cup {Nil}] : s = [g.slot EXCEPT ![r] = g.head]
  BY DEF Registry
<1>5. s[r] = g.head /\ \A q \in Slots \ {r} : s[q] = g.slot[q]
  BY <1>4 DEF Registry
<1> DEFINE k == [slot |-> s, head |-> r, size |-> g.size - 1]
<1>6. unref(g, r) = k
  BY <1>4 DEF unref
<1>7. k \in Registry
  BY DEF Registry
<1>8. \A i \in 1 .. n : f[i] # r
  <2> SUFFICES ASSUME NEW i \in 1 .. n, f[i] = r PROVE FALSE
    OBVIOUS
  <2>1. g.slot[r] = IF i = 1 THEN Nil ELSE f[i - 1]
    BY <1>1 DEF FreeList
  <2>2. i # 1 => f[i - 1] \in Slots
    OBVIOUS
  <2> QED BY <1>3, <2>1, <2>2
<1>9. PICK m \in Nat : m = n + 1
  OBVIOUS
<1>10. PICK e \in [1 .. m -> Slots] : e[m] = r /\ \A i \in 1 .. n : e[i] = f[i]
  <2> DEFINE d == [i \in 1 .. m |-> IF i = m THEN r ELSE f[i]]
  <2>1. d \in [1 .. m -> Slots] /\ d[m] = r /\ \A i \in 1 .. n : d[i] = f[i]
    BY <1>9
  <2> QED BY <2>1
<1>11. \A i \in 1 .. m : i = m \/ (i \in 1 .. n /\ e[i] = f[i])
  BY <1>9, <1>10
<1>12. r <= top
  BY <1>1, <1>2, <1>3 DEF FreeList
<1>13. FreeList(k, e, m, top)
  <2>1. \A i, j \in 1 .. m : e[i] = e[j] => i = j
    BY <1>1, <1>8, <1>10, <1>11 DEF FreeList
  <2>2. k.head = IF m = 0 THEN Nil ELSE e[m]
    BY <1>9, <1>10
  <2>3. \A i \in 1 .. m : k.slot[e[i]] = IF i = 1 THEN Nil ELSE e[i - 1]
    <3> SUFFICES ASSUME NEW i \in 1 .. m PROVE s[e[i]] = IF i = 1 THEN Nil ELSE e[i - 1]
      OBVIOUS
    <3>1. CASE i = m
      <4>1. s[e[i]] = IF n = 0 THEN Nil ELSE f[n]
        BY <1>1, <1>5, <1>10, <3>1 DEF FreeList
      <4>2. n # 0 => e[i - 1] = f[n]
        BY <1>9, <1>10, <3>1
      <4> QED BY <1>9, <3>1, <4>1, <4>2
    <3>2. CASE i # m
      <4>1. i \in 1 .. n /\ e[i] = f[i]
        BY <1>11, <3>2
      <4>2. s[e[i]] = g.slot[f[i]]
        BY <1>5, <1>8, <4>1
      <4>3. i # 1 => i - 1 \in 1 .. n
        BY <4>1
      <4> QED BY <1>1, <1>10, <4>1, <4>2, <4>3 DEF FreeList
    <3> QED BY <3>1, <3>2
  <2>4. \A i \in 1 .. m : e[i] <= top
    BY <1>1, <1>10, <1>11, <1>12 DEF FreeList
  <2>5. \A q \in Slots : q <= top => k.slot[q] \in Objs \/ \E i \in 1 .. m : e[i] = q
    <3> SUFFICES ASSUME NEW q \in Slots, q <= top
                 PROVE  s[q] \in Objs \/ \E i \in 1 .. m : e[i] = q
      OBVIOUS
    <3>1. CASE q = r
      BY <1>9, <1>10, <3>1
    <3>2. CASE q # r /\ g.slot[q] \in Objs
      BY <1>5, <3>2
    <3>3. CASE q # r /\ g.slot[q] \notin Objs
      <4>1. PICK i \in 1 .. n : f[i] = q
        BY <1>1, <3>3 DEF FreeList
      <4>2. i \in 1 .. m /\ e[i] = q
        BY <1>9, <1>10, <4>1
      <4> QED BY <4>2
    <3> QED BY <3>1, <3>2, <3>3
  <2>6. \A q \in Slots : q > top => k.slot[q] = Nil
    <3> SUFFICES ASSUME NEW q \in Slots, q > top PROVE s[q] = Nil
      OBVIOUS
    <3>1. q # r
      BY <1>2, <1>12
    <3> QED BY <1>1, <1>5, <3>1 DEF FreeList
  <2> HIDE DEF k
  <2> QED BY <2>1, <2>2, <2>3, <2>4, <2>5, <2>6 DEF FreeList
<1>14. HasFreeList(k)
  <2> HIDE DEF k
  <2> QED BY <1>13 DEF HasFreeList
<1> QED BY <1>6, <1>7, <1>14

-----------------------------------------------------------------------------
(* The steps *)

\* newRegistry is empty and has no free list.
LEMMA InitLemma == Init => IndInv
<1> SUFFICES ASSUME Init PROVE IndInv
  OBVIOUS
<1>1. reg.slot = [i \in Slots |-> Nil] /\ reg.head = Nil /\ reg.size = 0 /\ out = {}
  BY DEF Init, newRegistry
<1>2. TypeOK
  BY DEF Init, newRegistry, TypeOK, Registry
<1>3. HeldRefsFindTheirObject
  BY <1>1, DataAssumption DEF HeldRefsFindTheirObject
<1>4. HasFreeList(reg)
  <2> DEFINE f == [i \in 1 .. 0 |-> 1]
  <2>1. 0 \in Nat /\ 0 \in 0 .. MaxRef /\ f \in [1 .. 0 -> Slots]
    BY DataAssumption
  <2>2. FreeList(reg, f, 0, 0)
    BY <1>1, DataAssumption DEF FreeList, Slots
  <2> HIDE DEF f
  <2> QED BY <2>1, <2>2 DEF HasFreeList
<1>5. IsFiniteSet(out) /\ SizeExact
  BY <1>1, FS_EmptySet DEF SizeExact
<1> QED BY <1>2, <1>3, <1>4, <1>5 DEF IndInv

\* ref() keeps the invariant, gives its object a slot that held none and
\* changes no other; if the slot was not on the free list, all before it are
\* in use.
LEMMA RefStep ==
  ASSUME IndInv, NEW obj \in Objs, Ref(obj)
  PROVE  /\ IndInv'
         /\ \E r \in Slots :
              /\ reg.slot[r] \notin Objs
              /\ reg'.slot = [reg.slot EXCEPT ![r] = obj]
              /\ reg.head # r => \A q \in 1 .. r - 1 : reg.slot[q] \in Objs
<1>1. PICK r \in NextRefs(reg) : reg' = ref(reg, obj, r) /\ out' = out \cup {<<r, obj>>}
  BY DEF Ref
<1>2. /\ r \in Slots /\ reg.slot[r] \notin Objs /\ reg' \in Registry /\ HasFreeList(reg')
      /\ reg.head # r => \A q \in 1 .. r - 1 : reg.slot[q] \in Objs
  BY <1>1, RefLemma DEF IndInv, TypeOK
<1>3. reg'.slot = [reg.slot EXCEPT ![r] = obj] /\ reg'.size = reg.size + 1
  BY <1>1 DEF ref
<1>4. reg'.slot[r] = obj /\ \A q \in Slots \ {r} : reg'.slot[q] = reg.slot[q]
  BY <1>2, <1>3 DEF IndInv, TypeOK, Registry
<1>5. TypeOK'
  BY <1>1, <1>2 DEF IndInv, TypeOK
<1>6. \A o \in Objs : <<r, o>> \notin out
  BY <1>2 DEF IndInv, HeldRefsFindTheirObject
<1>7. HeldRefsFindTheirObject'
  <2> SUFFICES ASSUME NEW q \in Slots, NEW o \in Objs
               PROVE  reg'.slot[q] = o <=> <<q, o>> \in out'
    BY DEF HeldRefsFindTheirObject
  <2>1. CASE q = r
    BY <1>1, <1>4, <1>6, <2>1
  <2>2. CASE q # r
    BY <1>1, <1>4, <2>2 DEF IndInv, HeldRefsFindTheirObject
  <2> QED BY <2>1, <2>2
<1>8. IsFiniteSet(out') /\ SizeExact'
  <2>1. IsFiniteSet(out) /\ reg.size = Cardinality(out) /\ <<r, obj>> \notin out
    BY <1>6 DEF IndInv, SizeExact
  <2>2. IsFiniteSet(out') /\ Cardinality(out') = Cardinality(out) + 1
    BY <1>1, <2>1, FS_AddElement
  <2> QED BY <1>3, <2>1, <2>2 DEF SizeExact
<1>9. IndInv'
  BY <1>2, <1>5, <1>7, <1>8 DEF IndInv
<1> QED BY <1>2, <1>3, <1>9

\* unref() of a ref that is held keeps the invariant, and changes only the
\* slot of that ref, which then holds no object.
LEMMA UnrefStep ==
  ASSUME IndInv, NEW obj \in Objs, NEW r \in Slots, Unref(r, obj)
  PROVE  /\ IndInv'
         /\ reg.slot[r] = obj
         /\ reg'.slot[r] \notin Objs
         /\ \A q \in Slots \ {r} : reg'.slot[q] = reg.slot[q]
<1>1. <<r, obj>> \in out /\ reg' = unref(reg, r) /\ out' = out \ {<<r, obj>>}
  BY DEF Unref
<1>2. reg.slot[r] = obj
  BY <1>1 DEF IndInv, HeldRefsFindTheirObject
<1>3. reg' \in Registry /\ HasFreeList(reg')
  BY <1>1, <1>2, UnrefLemma DEF IndInv, TypeOK
<1>4. reg'.slot = [reg.slot EXCEPT ![r] = reg.head] /\ reg'.size = reg.size - 1
  BY <1>1 DEF unref
<1>5. reg'.slot[r] = reg.head /\ \A q \in Slots \ {r} : reg'.slot[q] = reg.slot[q]
  BY <1>4 DEF IndInv, TypeOK, Registry
<1>6. reg.head \notin Objs
  BY DataAssumption DEF IndInv, TypeOK, Registry, Slots
<1>7. TypeOK'
  BY <1>1, <1>3 DEF IndInv, TypeOK
<1>8. \A o \in Objs : <<r, o>> \in out => o = obj
  BY <1>2 DEF IndInv, HeldRefsFindTheirObject
<1>9. HeldRefsFindTheirObject'
  <2> SUFFICES ASSUME NEW q \in Slots, NEW o \in Objs
               PROVE  reg'.slot[q] = o <=> <<q, o>> \in out'
    BY DEF HeldRefsFindTheirObject
  <2>1. CASE q = r
    BY <1>1, <1>5, <1>6, <1>8, <2>1
  <2>2. CASE q # r
    BY <1>1, <1>5, <2>2 DEF IndInv, HeldRefsFindTheirObject
  <2> QED BY <2>1, <2>2
<1>10. IsFiniteSet(out') /\ SizeExact'
  <2>1. IsFiniteSet(out) /\ reg.size = Cardinality(out)
    BY DEF IndInv, SizeExact
  <2>2. IsFiniteSet(out') /\ Cardinality(out') = Cardinality(out) - 1
    BY <1>1, <2>1, FS_RemoveElement
  <2> QED BY <1>4, <2>1, <2>2 DEF SizeExact
<1>11. IndInv'
  BY <1>3, <1>7, <1>9, <1>10 DEF IndInv
<1> QED BY <1>2, <1>5, <1>6, <1>11

\* Every step of the registry keeps the invariant.
LEMMA StepLemma == IndInv /\ [Next]_vars => IndInv'
<1> SUFFICES ASSUME IndInv, [Next]_vars PROVE IndInv'
  OBVIOUS
<1>1. CASE UNCHANGED vars
  BY <1>1 DEF vars, IndInv, TypeOK, HeldRefsFindTheirObject, SizeExact
<1>2. CASE Next
  BY <1>2, RefStep, UnrefStep DEF Next
<1> QED BY <1>1, <1>2

-----------------------------------------------------------------------------
(* The theorems *)

\* The invariant holds in every reachable state.
THEOREM Inductive == Spec => []IndInv
BY InitLemma, StepLemma, PTL DEF Spec

\* A registry and the refs handed out are well typed: ref() returns a slot.
THEOREM RegistryTypes == Spec => []TypeOK
BY Inductive, PTL DEF IndInv

\* Every ref that is held finds the object it was handed out for, and no
\* other slot holds an object, whatever was registered and given back before.
THEOREM RefsFindObjects == Spec => []HeldRefsFindTheirObject
BY Inductive, PTL DEF IndInv

\* reg.size counts the refs that are held.
THEOREM SizeIsExact == Spec => []SizeExact
BY Inductive, PTL DEF IndInv

\* ref() adds a slot to the table only when every slot of it is in use.
THEOREM NoGrowthBeforeReuse == Spec => GrowsOnlyWhenFull
<1> DEFINE Reuses ==
      \A r \in Slots :
        (reg.slot[r] = Nil /\ reg'.slot[r] \in Objs /\ reg.head # r)
          => \A q \in 1 .. r - 1 : reg.slot[q] \in Objs
<1>1. IndInv /\ [Next]_vars => [Reuses]_vars
  <2> SUFFICES ASSUME IndInv, Next PROVE Reuses
    OBVIOUS
  <2>1. Nil \notin Objs
    BY DataAssumption
  <2> SUFFICES ASSUME NEW r \in Slots, reg.slot[r] = Nil, reg'.slot[r] \in Objs, reg.head # r
               PROVE  \A q \in 1 .. r - 1 : reg.slot[q] \in Objs
    OBVIOUS
  <2>2. ASSUME NEW obj \in Objs, Ref(obj) PROVE \A q \in 1 .. r - 1 : reg.slot[q] \in Objs
    <3>1. PICK p \in Slots :
            /\ reg.slot[p] \notin Objs
            /\ reg'.slot = [reg.slot EXCEPT ![p] = obj]
            /\ reg.head # p => \A q \in 1 .. p - 1 : reg.slot[q] \in Objs
      BY <2>2, RefStep
    <3>2. r # p => reg'.slot[r] = reg.slot[r]
      BY <3>1 DEF IndInv, TypeOK, Registry
    <3> QED BY <2>1, <3>1, <3>2
  <2>3. ASSUME NEW obj \in Objs, NEW p \in Slots, Unref(p, obj) PROVE FALSE
    BY <2>1, <2>3, UnrefStep
  <2> QED BY <2>2, <2>3 DEF Next
<1> QED BY <1>1, Inductive, PTL DEF Spec, GrowsOnlyWhenFull

\* The registry implements the abstract allocator: ref allocates an id that
\* is not in use, unref releases one that is.
THEOREM ImplementsAllocator == Spec => RefinesAllocator
<1> DEFINE used == {q \in Slots : reg.slot[q] \in Objs}
           ids == [r \in used |-> reg.slot[r]]
<1>1. Init => Allocator!Init
  <2> SUFFICES ASSUME Init PROVE ids = [i \in {} |-> {}]
    BY DEF Allocator!Init
  <2>1. used = {}
    BY DataAssumption DEF Init, newRegistry
  <2> QED BY <2>1
<1>2. IndInv /\ [Next]_vars => [Allocator!Next]_ids
  <2> SUFFICES ASSUME IndInv, [Next]_vars PROVE Allocator!Next \/ ids' = ids
    OBVIOUS
  <2>1. CASE UNCHANGED vars
    BY <2>1 DEF vars
  <2>2. ASSUME NEW obj \in Objs, Ref(obj) PROVE Allocator!Allocate(obj)
    <3>1. PICK p \in Slots :
            reg.slot[p] \notin Objs /\ reg'.slot = [reg.slot EXCEPT ![p] = obj]
      BY <2>2, RefStep
    <3>2. reg'.slot[p] = obj /\ \A q \in Slots \ {p} : reg'.slot[q] = reg.slot[q]
      BY <3>1 DEF IndInv, TypeOK, Registry
    <3>3. p \notin used /\ used' = used \cup {p}
      BY <3>1, <3>2
    <3>4. ids' = [j \in used \cup {p} |-> IF j = p THEN obj ELSE ids[j]]
      BY <3>2, <3>3
    <3>5. DOMAIN ids = used
      OBVIOUS
    <3> QED BY <3>1, <3>3, <3>4, <3>5 DEF Allocator!Allocate
  <2>3. ASSUME NEW obj \in Objs, NEW p \in Slots, Unref(p, obj) PROVE Allocator!Release(p)
    <3>1. /\ reg.slot[p] = obj /\ reg'.slot[p] \notin Objs
          /\ \A q \in Slots \ {p} : reg'.slot[q] = reg.slot[q]
      BY <2>3, UnrefStep
    <3>2. p \in used /\ used' = used \ {p}
      BY <3>1
    <3>3. ids' = [j \in used \ {p} |-> ids[j]]
      BY <3>1, <3>2
    <3>4. DOMAIN ids = used
      OBVIOUS
    <3> QED BY <3>2, <3>3, <3>4 DEF Allocator!Release
  <2> QED BY <2>1, <2>2, <2>3 DEF Next, Allocator!Next
<1> QED BY <1>1, <1>2, Inductive, PTL DEF Spec, RefinesAllocator, Allocator!Spec

=============================================================================

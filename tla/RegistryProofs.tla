---------------------------- MODULE RegistryProofs ----------------------------
(* Theorems about Registry, for any callers, publishers and patterns: the    *)
(* index first, which no step of the wildcard list touches, then the list,   *)
(* then what a publish that walks both has reached.                          *)
EXTENDS Registry, SequenceLemmas, TLAPS

Holding == {"addWild", "subscribed", "find", "remove"}

\* r is in the snapshot of the entry its pattern is indexed at.
In(r) == index[r.pattern] # NoEntry /\ r \in state[index[r.pattern]]

Types ==
    /\ index \in [Patterns -> Entries \cup {NoEntry}]
    /\ state \in [Entries -> SUBSET Ref]
    /\ dead \in [Entries -> BOOLEAN]
    /\ created \in 0..MaxEntries
    /\ callerPc \in [Callers -> CallerPcs]
    /\ subN \in [Callers -> 0..MaxSubs]
    /\ ref \in [Callers -> Ref \cup {NoRef}]
    /\ entry \in [Callers -> Entries \cup {NoEntry}]
    /\ live \subseteq Ref

\* An indexed entry was created, is alive, and is indexed once, for the pattern
\* of what it holds.
IndexOK ==
    /\ \A p \in Patterns : index[p] # NoEntry =>
          /\ index[p] <= created
          /\ ~dead[index[p]]
          /\ \A r \in state[index[p]] : r.pattern = p
    /\ \A p, q \in Patterns : index[p] = index[q] /\ index[p] # NoEntry => p = q
    /\ \A e \in Entries : e > created => state[e] = {} /\ ~dead[e]

\* A reference is its caller's latest, or one made before.
RefOK ==
    /\ \A c \in Callers : ref[c] # NoRef => ref[c].by = c /\ ref[c].n = subN[c]
    /\ \A c \in Callers : callerPc[c] # "idle" => ref[c] # NoRef /\ ref[c] \notin live
    /\ \A e \in Entries : \A r \in state[e] : r.n <= subN[r.by]
    /\ \A c \in Callers : callerPc[c] \in {"lookup", "insert"} =>
          \A e \in Entries : ref[c] \notin state[e]

\* A caller's entry is the indexed one, unless it died before the insert.
EntryOK == \A c \in Callers :
    /\ callerPc[c] = "insert" =>
          /\ entry[c] # NoEntry
          /\ dead[entry[c]] \/ entry[c] = index[ref[c].pattern]
    /\ callerPc[c] = "remove" => entry[c] = index[ref[c].pattern]

\* What a caller is completing, keeps or has not yet removed is registered.
HeldOK ==
    /\ \A r \in live : In(r)
    /\ \A c \in Callers : callerPc[c] \in Holding => In(ref[c])

IInv == Types /\ IndexOK /\ RefOK /\ EntryOK /\ HeldOK

-------------------------------------------------------------------------------
LEMMA RefFields ==
    \A r \in Ref : /\ r.by \in Callers /\ r.n \in 1..MaxSubs
                   /\ r.pattern \in Patterns /\ r.queue \in Groups \cup {FanOut}
  BY DEF Ref

LEMMA InitInv == Init => IInv
<1> SUFFICES ASSUME Init PROVE IInv
  OBVIOUS
<1> USE Bounds, NoSuch DEF Init
<1>1. Types
  BY DEF Types, CallerPcs
<1>2. IndexOK
  BY DEF IndexOK, Entries
<1>3. RefOK
  BY DEF RefOK
<1>4. EntryOK /\ HeldOK
  BY DEF EntryOK, HeldOK, Holding
<1> QED
  BY <1>1, <1>2, <1>3, <1>4 DEF IInv

\* What the callers' steps and these facts are about.
shared == <<index, state, dead, created, callerPc, subN, ref, entry, live>>

LEMMA SameInv == IInv /\ UNCHANGED shared => IInv'
<1> SUFFICES ASSUME IInv, UNCHANGED shared PROVE IInv'
  OBVIOUS
<1> USE DEF shared, IInv
<1>1. Types' /\ IndexOK'
  BY DEF Types, IndexOK
<1>2. RefOK' /\ EntryOK' /\ HeldOK'
  BY DEF RefOK, EntryOK, HeldOK, In
<1> QED
  BY <1>1, <1>2

\* A fresh reference is in no snapshot: its number is higher than any there.
LEMMA SubscribeStartInv ==
    ASSUME IInv, NEW c \in Callers, NEW p \in Patterns, NEW q \in Groups \cup {FanOut},
           SubscribeStart(c, p, q)
    PROVE  IInv'
<1> DEFINE r == [by |-> c, n |-> subN[c] + 1, pattern |-> p, queue |-> q]
<1>1. /\ callerPc[c] = "idle" /\ subN[c] < MaxSubs /\ subN[c] \in 0..MaxSubs
      /\ subN' = [subN EXCEPT ![c] = @ + 1] /\ ref' = [ref EXCEPT ![c] = r]
      /\ callerPc' = [callerPc EXCEPT ![c] = "lookup"]
      /\ UNCHANGED <<index, state, dead, created, entry, live>>
  BY DEF SubscribeStart, regVars, CallerGoto, IInv, Types
<1>2. r \in Ref /\ r # NoRef
  BY <1>1, Bounds, NoSuch DEF Ref
<1>3. /\ subN'[c] = subN[c] + 1 /\ subN[c] \in Nat
      /\ \A d \in Callers : d # c => subN'[d] = subN[d]
      /\ \A d \in Callers : subN[d] <= subN'[d] /\ subN[d] \in Nat /\ subN'[d] \in Nat
  BY <1>1 DEF IInv, Types
<1>4. /\ ref'[c] = r /\ callerPc'[c] = "lookup"
      /\ \A d \in Callers : d # c => ref'[d] = ref[d] /\ callerPc'[d] = callerPc[d]
  BY <1>1 DEF IInv, Types
<1>5. \A e \in Entries : r \notin state[e]
  BY <1>1, <1>3 DEF IInv, RefOK
<1>6. r \notin live
  <2> SUFFICES ASSUME r \in live PROVE FALSE
    OBVIOUS
  <2>1. index[p] \in Entries /\ r \in state[index[p]]
    BY DEF IInv, HeldOK, In, Types
  <2> QED
    BY <2>1, <1>5
<1>7. Types'
  BY <1>1, <1>2, Bounds DEF IInv, Types, CallerPcs
<1>8. IndexOK'
  BY <1>1 DEF IInv, IndexOK
<1>9. RefOK'
  <2>1. \A d \in Callers : ref'[d] # NoRef => ref'[d].by = d /\ ref'[d].n = subN'[d]
    BY <1>3, <1>4 DEF IInv, RefOK
  <2>2. \A d \in Callers : callerPc'[d] # "idle" => ref'[d] # NoRef /\ ref'[d] \notin live
    BY <1>2, <1>4, <1>6 DEF IInv, RefOK
  <2>3. \A e \in Entries : \A x \in state[e] : x.n <= subN'[x.by]
    <3> SUFFICES ASSUME NEW e \in Entries, NEW x \in state[e]
                 PROVE  x.n <= subN'[x.by]
      OBVIOUS
    <3>1. x \in Ref /\ x.n <= subN[x.by]
      BY DEF IInv, Types, RefOK
    <3>2. x.by \in Callers /\ x.n \in Nat
      BY <3>1, RefFields, Bounds
    <3> QED
      BY <3>1, <3>2, <1>3
  <2>4. \A d \in Callers : callerPc'[d] \in {"lookup", "insert"} =>
            \A e \in Entries : ref'[d] \notin state[e]
    BY <1>4, <1>5 DEF IInv, RefOK
  <2> QED
    BY <1>1, <2>1, <2>2, <2>3, <2>4 DEF RefOK
<1>10. EntryOK'
  BY <1>1, <1>4 DEF IInv, EntryOK
<1>11. HeldOK'
  BY <1>1, <1>4 DEF IInv, HeldOK, In, Holding
<1> QED
  BY <1>7, <1>8, <1>9, <1>10, <1>11 DEF IInv

\* A caller that only moves on, with its reference and the snapshots as before.
LEMMA MoveInv ==
    ASSUME IInv, NEW c \in Callers, NEW a \in CallerPcs,
           callerPc' = [callerPc EXCEPT ![c] = a], callerPc[c] # "idle",
           UNCHANGED <<index, state, dead, created, subN, ref, live>>,
           entry' \in [Callers -> Entries \cup {NoEntry}],
           \A d \in Callers : d # c => entry'[d] = entry[d],
           a \notin {"lookup", "insert"},
           a \in Holding => callerPc[c] \in Holding,
           a = "remove" => entry'[c] = index[ref[c].pattern]
    PROVE  IInv'
<1> USE DEF IInv
<1>1. /\ callerPc'[c] = a
      /\ \A d \in Callers : d # c => callerPc'[d] = callerPc[d]
  BY DEF Types
<1>2. Types' /\ IndexOK'
  BY DEF Types, IndexOK
<1>3. RefOK'
  BY <1>1 DEF RefOK
<1>4. EntryOK'
  BY <1>1 DEF EntryOK
<1>5. HeldOK'
  BY <1>1 DEF HeldOK, In
<1> QED
  BY <1>2, <1>3, <1>4, <1>5

\* A pattern with no entry gets a fresh one, which holds nothing yet.
LEMMA LookupInv == ASSUME IInv, NEW c \in Callers, Lookup(c) PROVE IInv'
<1> DEFINE p == ref[c].pattern
<1>1. /\ callerPc[c] = "lookup" /\ callerPc' = [callerPc EXCEPT ![c] = "insert"]
      /\ UNCHANGED <<state, dead, subN, ref, live>>
  BY DEF Lookup, CallerGoto
<1>2. ref[c] \in Ref /\ p \in Patterns /\ ref[c] \notin live
  BY <1>1, RefFields DEF IInv, Types, RefOK
<1>3. /\ callerPc'[c] = "insert"
      /\ \A d \in Callers : d # c => callerPc'[d] = callerPc[d]
  BY <1>1 DEF IInv, Types
<1>4. RefOK'
  BY <1>1, <1>3 DEF IInv, RefOK
<1>5. CASE index[p] # NoEntry
  <2>1. /\ entry' = [entry EXCEPT ![c] = index[p]] /\ UNCHANGED <<index, created>>
    BY <1>5 DEF Lookup
  <2>2. Types'
    BY <1>1, <1>2, <2>1 DEF IInv, Types, CallerPcs
  <2>3. IndexOK'
    BY <1>1, <2>1 DEF IInv, IndexOK
  <2>4. /\ entry'[c] = index[p]
        /\ \A d \in Callers : d # c => entry'[d] = entry[d]
    BY <2>1 DEF IInv, Types
  <2>5. EntryOK'
    BY <1>1, <1>3, <1>5, <2>1, <2>4 DEF IInv, EntryOK
  <2>6. HeldOK'
    BY <1>1, <1>3, <2>1 DEF IInv, HeldOK, In, Holding
  <2> QED
    BY <1>4, <2>2, <2>3, <2>5, <2>6 DEF IInv
<1>6. CASE index[p] = NoEntry
  <2> DEFINE e == created + 1
  <2>1. /\ created < MaxEntries /\ created' = e
        /\ index' = [index EXCEPT ![p] = e]
        /\ entry' = [entry EXCEPT ![c] = e]
    BY <1>6 DEF Lookup
  <2>2. e \in Entries /\ created \in Nat /\ e # NoEntry
    BY <2>1, Bounds, NoSuch DEF IInv, Types, Entries
  <2>3. /\ index'[p] = e
        /\ \A q \in Patterns : q # p => index'[q] = index[q]
        /\ \A q \in Patterns : index[q] # NoEntry => index[q] \in Entries /\ index[q] # e
    BY <2>1, <2>2, <1>2 DEF IInv, Types, IndexOK, Entries
  <2>4. state[e] = {} /\ ~dead[e]
    BY <2>2 DEF IInv, IndexOK, Entries
  <2>5. Types'
    BY <1>1, <1>2, <2>1, <2>2, Bounds DEF IInv, Types, CallerPcs
  <2>6. IndexOK'
    <3>1. \A q \in Patterns : index'[q] # NoEntry =>
              /\ index'[q] <= created' /\ ~dead'[index'[q]]
              /\ \A r \in state'[index'[q]] : r.pattern = q
      <4> SUFFICES ASSUME NEW q \in Patterns, index'[q] # NoEntry
                   PROVE  /\ index'[q] <= created' /\ ~dead'[index'[q]]
                          /\ \A r \in state'[index'[q]] : r.pattern = q
        OBVIOUS
      <4>1. CASE q = p
        BY <4>1, <1>1, <2>1, <2>2, <2>3, <2>4
      <4>2. CASE q # p
        <5>1. index'[q] = index[q] /\ index[q] \in Entries /\ index[q] <= created
          BY <4>2, <2>3 DEF IInv, IndexOK
        <5>2. index[q] <= created'
          BY <5>1, <2>1, <2>2 DEF Entries
        <5> QED
          BY <5>1, <5>2, <1>1 DEF IInv, IndexOK
      <4> QED
        BY <4>1, <4>2
    <3>2. \A q, s \in Patterns : index'[q] = index'[s] /\ index'[q] # NoEntry => q = s
      BY <2>2, <2>3 DEF IInv, IndexOK
    <3>3. \A f \in Entries : f > created' => state'[f] = {} /\ ~dead'[f]
      BY <1>1, <2>1, <2>2 DEF IInv, IndexOK, Entries
    <3> QED
      BY <3>1, <3>2, <3>3 DEF IndexOK
  <2>7. /\ entry'[c] = e
        /\ \A d \in Callers : d # c => entry'[d] = entry[d]
    BY <2>1 DEF IInv, Types
  <2>8. EntryOK'
    <3>1. \A d \in Callers : d # c /\ callerPc[d] = "insert" /\ ref[d].pattern = p
              => dead[entry[d]]
      BY <1>6 DEF IInv, EntryOK
    <3>2. \A d \in Callers : callerPc[d] = "remove" => ref[d].pattern # p
      BY <1>6 DEF IInv, HeldOK, Holding, In
    <3>3. \A d \in Callers : callerPc[d] # "idle" => ref[d].pattern \in Patterns
      BY RefFields DEF IInv, Types, RefOK
    <3> QED
      BY <1>1, <1>3, <2>2, <2>3, <2>7, <3>1, <3>2, <3>3 DEF IInv, EntryOK
  <2>9. HeldOK'
    <3>1. \A r \in Ref : In(r) => In(r)'
      BY <1>1, <1>6, <2>3, RefFields DEF In
    <3>2. \A d \in Callers : callerPc[d] \in Holding => ref[d] \in Ref
      BY DEF IInv, Types, RefOK, Holding
    <3>3. \A d \in Callers : callerPc'[d] \in Holding => callerPc[d] \in Holding
      BY <1>3 DEF Holding
    <3> QED
      BY <1>1, <3>1, <3>2, <3>3 DEF IInv, HeldOK, Types, In
  <2> QED
    BY <1>4, <2>5, <2>6, <2>8, <2>9 DEF IInv
<1> QED
  BY <1>5, <1>6

\* A reference goes into an entry that is alive, and so the indexed one; into a
\* dead one never.
LEMMA InsertInv == ASSUME IInv, NEW c \in Callers, Insert(c) PROVE IInv'
<1> DEFINE r == ref[c]
           e == entry[c]
<1>1. /\ callerPc[c] = "insert"
      /\ UNCHANGED <<index, dead, created, subN, ref, entry, live>>
  BY DEF Insert, callVars
<1>2. /\ r \in Ref /\ r \notin live /\ r.by = c /\ r.n = subN[c] /\ r.pattern \in Patterns
      /\ e \in Entries
  BY <1>1, RefFields DEF IInv, Types, RefOK, EntryOK
<1>3. CASE dead[e]
  <2>1. callerPc' = [callerPc EXCEPT ![c] = "lookup"] /\ UNCHANGED state
    BY <1>3 DEF Insert, CallerGoto
  <2>2. /\ callerPc'[c] = "lookup"
        /\ \A d \in Callers : d # c => callerPc'[d] = callerPc[d]
    BY <2>1 DEF IInv, Types
  <2>3. Types' /\ IndexOK'
    BY <1>1, <2>1 DEF IInv, Types, IndexOK, CallerPcs
  <2>4. RefOK'
    BY <1>1, <2>1, <2>2 DEF IInv, RefOK
  <2>5. EntryOK' /\ HeldOK'
    BY <1>1, <2>1, <2>2 DEF IInv, EntryOK, HeldOK, In, Holding
  <2> QED
    BY <2>3, <2>4, <2>5 DEF IInv
<1>4. CASE ~dead[e]
  <2>1. PICK a \in {"addWild", "subscribed"} : callerPc' = [callerPc EXCEPT ![c] = a]
    BY <1>4 DEF Insert, CallerGoto
  <2>2. state' = [state EXCEPT ![e] = @ \cup {r}]
    BY <1>4 DEF Insert, CloneAdd
  <2>3. /\ callerPc'[c] = a
        /\ \A d \in Callers : d # c => callerPc'[d] = callerPc[d]
    BY <2>1 DEF IInv, Types
  <2>4. /\ state'[e] = state[e] \cup {r}
        /\ \A f \in Entries : f # e => state'[f] = state[f]
        /\ \A f \in Entries : state[f] \subseteq state'[f]
    BY <2>2, <1>2 DEF IInv, Types
  <2>5. e = index[r.pattern] /\ e # NoEntry
    BY <1>1, <1>4 DEF IInv, EntryOK
  <2>6. Types'
    BY <1>1, <1>2, <2>1, <2>2 DEF IInv, Types, CallerPcs
  <2>7. IndexOK'
    <3>1. \A p \in Patterns : index[p] # NoEntry =>
              \A x \in state'[index[p]] : x.pattern = p
      <4> SUFFICES ASSUME NEW p \in Patterns, index[p] # NoEntry,
                          NEW x \in state'[index[p]]
                   PROVE  x.pattern = p
        OBVIOUS
      <4>1. CASE index[p] = e
        <5>1. p = r.pattern
          BY <4>1, <2>5, <1>2 DEF IInv, IndexOK
        <5>2. x \in state[index[p]] \/ x = r
          BY <4>1, <2>4
        <5> QED
          BY <5>1, <5>2 DEF IInv, IndexOK
      <4>2. CASE index[p] # e
        BY <4>2, <2>4 DEF IInv, IndexOK, Types
      <4> QED
        BY <4>1, <4>2
    <3>2. ~(e > created)
      <4>1. index[r.pattern] <= created
        BY <2>5, <1>2 DEF IInv, IndexOK
      <4> QED
        BY <4>1, <2>5, <1>2, Bounds DEF IInv, Types, Entries
    <3>3. \A f \in Entries : f > created => state'[f] = {} /\ ~dead[f]
      BY <2>4, <3>2 DEF IInv, IndexOK
    <3> QED
      BY <1>1, <3>1, <3>3 DEF IInv, IndexOK
  <2>8. RefOK'
    <3>1. \A f \in Entries : \A x \in state'[f] : x \in state[f] \/ x = r
      BY <2>4
    <3>2. \A f \in Entries : \A x \in state'[f] : x.n <= subN[x.by]
      <4>1. r.n <= subN[r.by]
        BY <1>2 DEF IInv, Types
      <4> QED
        BY <3>1, <4>1 DEF IInv, RefOK
    <3>3. \A d \in Callers : callerPc'[d] \in {"lookup", "insert"} =>
              \A f \in Entries : ref[d] \notin state'[f]
      <4> SUFFICES ASSUME NEW d \in Callers, callerPc'[d] \in {"lookup", "insert"},
                          NEW f \in Entries, ref[d] \in state'[f]
                   PROVE  FALSE
        OBVIOUS
      <4>1. d # c /\ callerPc[d] \in {"lookup", "insert"}
        BY <2>3
      <4>2. ref[d].by = d
        BY <4>1 DEF IInv, RefOK
      <4>3. ref[d] # r /\ ref[d] \notin state[f]
        BY <4>1, <4>2, <1>2 DEF IInv, RefOK
      <4> QED
        BY <4>3, <3>1
    <3>4. \A d \in Callers : callerPc'[d] # "idle" => ref[d] # NoRef /\ ref[d] \notin live
      BY <2>3, <1>1 DEF IInv, RefOK
    <3> QED
      BY <1>1, <3>2, <3>3, <3>4 DEF IInv, RefOK
  <2>9. EntryOK'
    BY <1>1, <2>3 DEF IInv, EntryOK
  <2>10. HeldOK'
    <3>1. \A x \in Ref : In(x) => In(x)'
      BY <1>1, <2>4, RefFields DEF In, IInv, Types
    <3>2. In(r)'
      BY <1>1, <2>4, <2>5 DEF In
    <3>3. \A d \in Callers : callerPc'[d] \in Holding => d = c \/ callerPc[d] \in Holding
      BY <2>3
    <3>4. \A d \in Callers : callerPc[d] \in Holding => ref[d] \in Ref
      BY DEF IInv, Types, RefOK, Holding
    <3> QED
      BY <1>1, <3>1, <3>2, <3>3, <3>4 DEF IInv, HeldOK, Types, In
  <2> QED
    BY <2>6, <2>7, <2>8, <2>9, <2>10 DEF IInv
<1> QED
  BY <1>3, <1>4

LEMMA SubscribeReturnsInv == ASSUME IInv, NEW c \in Callers, SubscribeReturns(c) PROVE IInv'
<1>1. /\ callerPc[c] = "subscribed" /\ callerPc' = [callerPc EXCEPT ![c] = "idle"]
      /\ live' = live \cup {ref[c]}
      /\ UNCHANGED <<index, state, dead, created, subN, ref, entry>>
  BY DEF SubscribeReturns, regVars, callVars, CallerGoto
<1>2. /\ callerPc'[c] = "idle"
      /\ \A d \in Callers : d # c => callerPc'[d] = callerPc[d]
  BY <1>1 DEF IInv, Types
<1>3. ref[c] \in Ref /\ ref[c].by = c /\ In(ref[c])
  BY <1>1 DEF IInv, Types, RefOK, HeldOK, Holding
<1>4. Types' /\ IndexOK'
  BY <1>1, <1>3 DEF IInv, Types, IndexOK, CallerPcs
<1>5. RefOK'
  <2>1. \A d \in Callers : callerPc'[d] # "idle" => d # c /\ callerPc[d] # "idle"
    BY <1>2
  <2>2. \A d \in Callers : callerPc'[d] # "idle" => ref[d] # NoRef /\ ref[d] \notin live'
    BY <2>1, <1>1, <1>3 DEF IInv, RefOK
  <2>3. \A d \in Callers : callerPc'[d] \in {"lookup", "insert"} =>
            \A e \in Entries : ref[d] \notin state[e]
    BY <1>2 DEF IInv, RefOK
  <2> QED
    BY <1>1, <2>2, <2>3 DEF IInv, RefOK
<1>6. EntryOK' /\ HeldOK'
  BY <1>1, <1>2, <1>3 DEF IInv, EntryOK, HeldOK, In, Holding
<1> QED
  BY <1>4, <1>5, <1>6 DEF IInv

LEMMA UnsubStartInv == ASSUME IInv, NEW c \in Callers, UnsubStart(c) PROVE IInv'
<1>1. /\ callerPc[c] = "idle" /\ ref[c] \in live
      /\ callerPc' = [callerPc EXCEPT ![c] = "find"]
      /\ live' = live \ {ref[c]}
      /\ UNCHANGED <<index, state, dead, created, subN, ref, entry>>
  BY DEF UnsubStart, regVars, callVars, CallerGoto
<1>2. /\ callerPc'[c] = "find"
      /\ \A d \in Callers : d # c => callerPc'[d] = callerPc[d]
  BY <1>1 DEF IInv, Types
<1>3. ref[c] \in Ref /\ ref[c] # NoRef /\ In(ref[c])
  BY <1>1, NoSuch DEF IInv, Types, HeldOK
<1>4. Types' /\ IndexOK'
  BY <1>1 DEF IInv, Types, IndexOK, CallerPcs
<1>5. RefOK'
  BY <1>1, <1>2, <1>3 DEF IInv, RefOK
<1>6. EntryOK' /\ HeldOK'
  BY <1>1, <1>2, <1>3 DEF IInv, EntryOK, HeldOK, In, Holding
<1> QED
  BY <1>4, <1>5, <1>6 DEF IInv

\* A registered reference has an entry to be found.
LEMMA FindInv == ASSUME IInv, NEW c \in Callers, Find(c) PROVE IInv'
<1>1. /\ callerPc[c] = "find" /\ In(ref[c]) /\ ref[c].pattern \in Patterns
  BY RefFields DEF Find, IInv, Types, RefOK, HeldOK, Holding
<1>2. /\ callerPc' = [callerPc EXCEPT ![c] = "remove"]
      /\ entry' = [entry EXCEPT ![c] = index[ref[c].pattern]]
      /\ entry'[c] = index[ref[c].pattern]
  BY <1>1 DEF Find, CallerGoto, In, IInv, Types
<1>3. UNCHANGED <<index, state, dead, created, subN, ref, live>>
  BY DEF Find, regVars
<1>4. \A d \in Callers : d # c => entry'[d] = entry[d]
  BY <1>2 DEF IInv, Types
<1>5. entry' \in [Callers -> Entries \cup {NoEntry}]
  BY <1>1, <1>2 DEF IInv, Types
<1> QED
  BY <1>1, <1>2, <1>3, <1>4, <1>5, MoveInv DEF CallerPcs, Holding

\* Only the caller's own reference leaves, and an entry only when it is empty:
\* whoever else is in the entry, or in another one, stays registered.
LEMMA RemoveRefInv == ASSUME IInv, NEW c \in Callers, RemoveRef(c) PROVE IInv'
<1> DEFINE r == ref[c]
           e == entry[c]
           left == state[e] \ {r}
<1>1. /\ callerPc[c] = "remove" /\ UNCHANGED <<created, subN, ref, entry, live>>
      /\ state' = [state EXCEPT ![e] = left]
  BY DEF RemoveRef, CloneRemove, callVars
<1>2. /\ r \in Ref /\ r \notin live /\ r.by = c /\ r.pattern \in Patterns
      /\ e = index[r.pattern] /\ e # NoEntry /\ e \in Entries
  BY <1>1, RefFields DEF IInv, Types, RefOK, EntryOK, HeldOK, Holding, In
<1>3. PICK a \in {"removeWild", "stop"} : callerPc' = [callerPc EXCEPT ![c] = a]
  BY DEF RemoveRef, CallerGoto
<1>4. /\ callerPc'[c] = a
      /\ \A d \in Callers : d # c => callerPc'[d] = callerPc[d]
  BY <1>3 DEF IInv, Types
<1>5. /\ state'[e] = left
      /\ \A f \in Entries : f # e => state'[f] = state[f]
      /\ \A f \in Entries : state'[f] \subseteq state[f]
  BY <1>1, <1>2 DEF IInv, Types
<1>6. \/ left = {} /\ dead' = [dead EXCEPT ![e] = TRUE]
                    /\ index' = [index EXCEPT ![r.pattern] = NoEntry]
      \/ left # {} /\ UNCHANGED <<dead, index>>
  BY DEF RemoveRef, CloneRemove
<1>7. /\ \A p \in Patterns : p # r.pattern => index'[p] = index[p]
      /\ \A p \in Patterns : index'[p] # NoEntry => index'[p] = index[p]
      /\ left # {} => index' = index
  BY <1>2, <1>6 DEF IInv, Types
<1>8. /\ \A f \in Entries : f # e => dead'[f] = dead[f]
      /\ left = {} => dead'[e] /\ index'[r.pattern] = NoEntry
      /\ left # {} => dead' = dead
      /\ \A f \in Entries : dead[f] => dead'[f]
  BY <1>2, <1>6 DEF IInv, Types
<1>9. Types'
  BY <1>1, <1>2, <1>3, <1>6 DEF IInv, Types, CallerPcs
<1>10. IndexOK'
  <2>1. \A p \in Patterns : index'[p] # NoEntry =>
            /\ index'[p] <= created /\ ~dead'[index'[p]]
            /\ \A x \in state'[index'[p]] : x.pattern = p
    <3> SUFFICES ASSUME NEW p \in Patterns, index'[p] # NoEntry
                 PROVE  /\ index'[p] <= created /\ ~dead'[index'[p]]
                        /\ \A x \in state'[index'[p]] : x.pattern = p
      OBVIOUS
    <3>1. index'[p] = index[p] /\ index[p] \in Entries
      BY <1>7 DEF IInv, Types
    <3>2. index[p] <= created /\ ~dead[index[p]] /\ \A x \in state[index[p]] : x.pattern = p
      BY <3>1 DEF IInv, IndexOK
    <3>3. ~dead'[index[p]]
      <4>1. CASE index[p] = e
        <5>1. p = r.pattern
          BY <4>1, <1>2, <3>1 DEF IInv, IndexOK
        <5> QED
          BY <5>1, <3>2, <1>8
      <4>2. CASE index[p] # e
        BY <4>2, <1>8, <3>1, <3>2
      <4> QED
        BY <4>1, <4>2
    <3> QED
      BY <3>1, <3>2, <3>3, <1>5
  <2>2. \A p, q \in Patterns : index'[p] = index'[q] /\ index'[p] # NoEntry => p = q
    BY <1>7 DEF IInv, IndexOK
  <2>3. index[r.pattern] <= created /\ created \in Nat /\ e \in Nat
    BY <1>2, Bounds DEF IInv, IndexOK, Types, Entries
  <2>4. \A f \in Entries : f > created => f # e
    BY <2>3, <1>2
  <2>5. \A f \in Entries : f > created => state'[f] = {} /\ ~dead'[f]
    BY <2>4, <1>5, <1>8 DEF IInv, IndexOK
  <2> QED
    BY <1>1, <2>1, <2>2, <2>5 DEF IndexOK
<1>11. RefOK'
  <2>1. \A f \in Entries : \A x \in state'[f] : x.n <= subN[x.by]
    BY <1>5 DEF IInv, RefOK
  <2>2. \A d \in Callers : callerPc'[d] \in {"lookup", "insert"} =>
            d # c /\ callerPc[d] \in {"lookup", "insert"}
    BY <1>4
  <2>3. \A d \in Callers : callerPc'[d] \in {"lookup", "insert"} =>
            \A f \in Entries : ref[d] \notin state'[f]
    BY <2>2, <1>5 DEF IInv, RefOK
  <2>4. \A d \in Callers : callerPc'[d] # "idle" => callerPc[d] # "idle"
    BY <1>1, <1>4
  <2>5. \A d \in Callers : callerPc'[d] # "idle" => ref[d] # NoRef /\ ref[d] \notin live
    BY <2>4 DEF IInv, RefOK
  <2> QED
    BY <1>1, <2>1, <2>3, <2>5 DEF IInv, RefOK
<1>12. \A x \in Ref : In(x) /\ x # r => In(x)'
  <2> SUFFICES ASSUME NEW x \in Ref, In(x), x # r PROVE In(x)'
    OBVIOUS
  <2>1. x.pattern \in Patterns /\ index[x.pattern] \in Entries /\ x \in state[index[x.pattern]]
    BY RefFields DEF In, IInv, Types
  <2>2. CASE x.pattern = r.pattern
    <3>1. x \in left
      BY <2>1, <2>2, <1>2
    <3> QED
      BY <2>1, <2>2, <3>1, <1>2, <1>5, <1>7 DEF In
  <2>3. CASE x.pattern # r.pattern
    <3>1. index'[x.pattern] = index[x.pattern] /\ index[x.pattern] # NoEntry
      BY <2>1, <2>3, <1>7 DEF In
    <3>2. index[x.pattern] # e
      BY <3>1, <2>1, <2>3, <1>2 DEF IInv, IndexOK
    <3> QED
      BY <3>1, <3>2, <2>1, <1>5 DEF In
  <2> QED
    BY <2>2, <2>3
<1>13. EntryOK'
  <2>1. \A d \in Callers : callerPc'[d] = "insert" => callerPc[d] = "insert"
    BY <1>1, <1>4
  <2>2. \A d \in Callers : callerPc[d] = "insert" =>
            /\ entry[d] # NoEntry /\ entry[d] \in Entries
            /\ ref[d].pattern \in Patterns
            /\ dead[entry[d]] \/ entry[d] = index[ref[d].pattern]
    BY RefFields DEF IInv, EntryOK, Types, RefOK
  <2>3. \A d \in Callers : callerPc[d] = "insert" =>
            dead'[entry[d]] \/ entry[d] = index'[ref[d].pattern]
    BY <2>2, <1>2, <1>7, <1>8
  <2>4. \A d \in Callers : callerPc'[d] = "remove" => entry[d] = index'[ref[d].pattern]
    <3> SUFFICES ASSUME NEW d \in Callers, callerPc'[d] = "remove"
                 PROVE  entry[d] = index'[ref[d].pattern]
      OBVIOUS
    <3>1. d # c /\ callerPc[d] = "remove"
      BY <1>4
    <3>2. /\ ref[d] \in Ref /\ ref[d].by = d /\ In(ref[d])
          /\ entry[d] = index[ref[d].pattern] /\ ref[d].pattern \in Patterns
      BY <3>1, RefFields DEF IInv, Types, RefOK, EntryOK, HeldOK, Holding
    <3>3. In(ref[d])'
      BY <3>1, <3>2, <1>1, <1>2, <1>12
    <3> QED
      BY <3>2, <3>3, <1>1, <1>7 DEF In
  <2> QED
    BY <1>1, <2>1, <2>2, <2>3, <2>4 DEF EntryOK
<1>14. HeldOK'
  <2>1. \A x \in live : x \in Ref /\ x # r /\ In(x)
    BY <1>2 DEF IInv, Types, HeldOK
  <2>2. \A d \in Callers : callerPc'[d] \in Holding => d # c /\ callerPc[d] \in Holding
    BY <1>4 DEF Holding
  <2>3. \A d \in Callers : callerPc'[d] \in Holding =>
            ref[d] \in Ref /\ ref[d] # r /\ In(ref[d])
    BY <2>2, <1>2 DEF IInv, Types, RefOK, HeldOK, Holding
  <2>4. \A x \in live : In(x)'
    BY <2>1, <1>12
  <2>5. \A d \in Callers : callerPc'[d] \in Holding => In(ref[d])'
    BY <2>3, <1>12, <1>1 DEF In
  <2> QED
    BY <1>1, <2>4, <2>5 DEF HeldOK, In
<1> QED
  BY <1>9, <1>10, <1>11, <1>13, <1>14 DEF IInv

LEMMA NextInv == IInv /\ [Next]_vars => IInv'
<1> SUFFICES ASSUME IInv, [Next]_vars PROVE IInv'
  OBVIOUS
<1>1. ASSUME NEW c \in Callers, NEW p \in Patterns, NEW q \in Groups \cup {FanOut},
             SubscribeStart(c, p, q)
      PROVE  IInv'
  BY <1>1, SubscribeStartInv
<1>2. ASSUME NEW c \in Callers,
             \/ Lookup(c) \/ Insert(c) \/ SubscribeReturns(c) \/ UnsubStart(c)
             \/ Find(c) \/ RemoveRef(c)
      PROVE  IInv'
  BY <1>2, LookupInv, InsertInv, SubscribeReturnsInv, UnsubStartInv, FindInv, RemoveRefInv
<1>3. ASSUME NEW c \in Callers, AddWild(c) \/ RemoveWild(c) \/ StopWorker(c)
      PROVE  IInv'
  <2>1. PICK a \in {"subscribed", "stop", "idle"} :
           /\ callerPc' = [callerPc EXCEPT ![c] = a]
           /\ a = "subscribed" => callerPc[c] = "addWild"
    BY <1>3 DEF AddWild, RemoveWild, StopWorker, CallerGoto
  <2>2. /\ callerPc[c] # "idle"
        /\ UNCHANGED <<index, state, dead, created, subN, ref, entry, live>>
    BY <1>3 DEF AddWild, RemoveWild, StopWorker, regVars, callVars
  <2>3. entry' \in [Callers -> Entries \cup {NoEntry}]
    BY <2>2 DEF IInv, Types
  <2> QED
    BY <2>1, <2>2, <2>3, MoveInv DEF CallerPcs, Holding
<1>4. ASSUME NEW p \in Publishers,
             \/ PublishStart(p) \/ LoadExact(p) \/ LoadWild(p) \/ NextWild(p)
             \/ PublishReturns(p) \/ Deliver(p) \/ Delivered(p) \/ EnqueueFails(p)
      PROVE  IInv'
  <2>1. UNCHANGED shared
    BY <1>4 DEF PublishStart, LoadExact, LoadWild, NextWild, PublishReturns, Deliver,
       Delivered, EnqueueFails, regVars, callVars, shared
  <2> QED
    BY <2>1, SameInv
<1>5. CASE UNCHANGED vars
  BY <1>5, SameInv DEF vars, regVars, callVars, shared
<1> QED
  BY <1>1, <1>2, <1>3, <1>4, <1>5 DEF Next

LEMMA Invariant == Spec => []IInv
  BY InitInv, NextInv, PTL DEF Spec

-------------------------------------------------------------------------------
\* What the index reaches is what is in the entry of its pattern.
LEMMA RegisteredIsIn == IInv => Registered = {r \in Ref : In(r)}
<1> SUFFICES ASSUME IInv PROVE Registered = {r \in Ref : In(r)}
  OBVIOUS
<1>1. ASSUME NEW r \in Registered PROVE r \in Ref /\ In(r)
  <2>1. PICK p \in Patterns : index[p] # NoEntry /\ r \in state[index[p]]
    BY <1>1 DEF Registered
  <2>2. index[p] \in Entries /\ r \in Ref /\ r.pattern = p
    BY <2>1 DEF IInv, Types, IndexOK
  <2> QED
    BY <2>1, <2>2 DEF In
<1>2. ASSUME NEW r \in Ref, In(r) PROVE r \in Registered
  BY <1>2, RefFields DEF In, Registered
<1> QED
  BY <1>1, <1>2

LEMMA RegisteredIsInAfter == IInv' => (Registered = {r \in Ref : In(r)})'
  BY RegisteredIsIn, PTL

\* A subscription whose Subscribe has returned stays in the index until it is
\* unsubscribed, for any number of callers and any churn of its entry.
THEOREM LiveRegistered == Spec => []LiveIsRegistered
<1>1. IInv => LiveIsRegistered
  BY RegisteredIsIn DEF IInv, Types, HeldOK, LiveIsRegistered
<1> QED
  BY <1>1, Invariant, PTL

\* A snapshot and the index change in no step but these two of a caller, and
\* lookups, which index an entry that is empty.
LEMMA InsertAdds ==
    ASSUME IInv, IInv', NEW c \in Callers, Insert(c)
    PROVE  \/ UNCHANGED Registered
           \/ ref[c] \in Ref /\ ref[c] \notin Registered
              /\ Registered' = Registered \cup {ref[c]}
<1> DEFINE r == ref[c]
           e == entry[c]
<1>1. /\ callerPc[c] = "insert" /\ UNCHANGED index
      /\ r \in Ref /\ r.pattern \in Patterns /\ e \in Entries
      /\ \A f \in Entries : r \notin state[f]
  BY RefFields DEF Insert, IInv, Types, RefOK, EntryOK
<1>2. CASE dead[e]
  BY <1>1, <1>2 DEF Insert, Registered
<1>3. CASE ~dead[e]
  <2>1. /\ state' = [state EXCEPT ![e] = @ \cup {r}]
        /\ e = index[r.pattern] /\ e # NoEntry
    BY <1>1, <1>3 DEF Insert, CloneAdd, IInv, EntryOK
  <2>2. ~In(r)
    BY <1>1, <2>1 DEF In
  <2>3. \A x \in Ref : In(x)' <=> In(x) \/ x = r
    <3> SUFFICES ASSUME NEW x \in Ref PROVE In(x)' <=> In(x) \/ x = r
      OBVIOUS
    <3>1. x.pattern \in Patterns /\ index[x.pattern] \in Entries \cup {NoEntry}
      BY RefFields DEF IInv, Types
    <3>2. CASE index[x.pattern] = e
      <4>1. x.pattern = r.pattern /\ state'[e] = state[e] \cup {r}
        BY <1>1, <2>1, <3>1, <3>2 DEF IInv, IndexOK, Types
      <4> QED
        BY <1>1, <2>1, <3>1, <3>2, <4>1 DEF In
    <3>3. CASE index[x.pattern] # e
      <4>1. x # r
        BY <3>3, <2>1
      <4>2. index[x.pattern] # NoEntry => state'[index[x.pattern]] = state[index[x.pattern]]
        BY <1>1, <2>1, <3>1, <3>3 DEF IInv, Types
      <4> QED
        BY <1>1, <4>1, <4>2 DEF In
    <3> QED
      BY <3>2, <3>3
  <2>4. /\ Registered = {x \in Ref : In(x)}
        /\ Registered' = {x \in Ref : In(x)'}
    BY RegisteredIsIn, RegisteredIsInAfter
  <2> QED
    BY <1>1, <2>2, <2>3, <2>4
<1> QED
  BY <1>2, <1>3

LEMMA RemoveRemoves ==
    ASSUME IInv, IInv', NEW c \in Callers, RemoveRef(c)
    PROVE  ref[c] \in Registered /\ Registered' = Registered \ {ref[c]}
<1> DEFINE r == ref[c]
           e == entry[c]
<1>1. /\ callerPc[c] = "remove" /\ r \in Ref /\ In(r) /\ r.pattern \in Patterns
      /\ e = index[r.pattern] /\ e # NoEntry /\ e \in Entries
  BY RefFields DEF RemoveRef, IInv, Types, RefOK, EntryOK, HeldOK, Holding, In
<1>2. /\ state' = [state EXCEPT ![e] = @ \ {r}]
      /\ \/ state[e] \ {r} = {} /\ index' = [index EXCEPT ![r.pattern] = NoEntry]
         \/ state[e] \ {r} # {} /\ UNCHANGED index
  BY DEF RemoveRef, CloneRemove
<1>3. \A x \in Ref : In(x)' <=> In(x) /\ x # r
  <2> SUFFICES ASSUME NEW x \in Ref PROVE In(x)' <=> In(x) /\ x # r
    OBVIOUS
  <2>1. x.pattern \in Patterns /\ index[x.pattern] \in Entries \cup {NoEntry}
    BY RefFields DEF IInv, Types
  <2>2. state'[e] = state[e] \ {r} /\ \A f \in Entries : f # e => state'[f] = state[f]
    BY <1>1, <1>2 DEF IInv, Types
  <2>3. CASE x.pattern = r.pattern
    <3>1. index[x.pattern] = e
      BY <1>1, <2>3
    <3>2. index'[x.pattern] = e \/ (index'[x.pattern] = NoEntry /\ state[e] \ {r} = {})
      BY <1>1, <1>2, <2>1, <2>3, <3>1 DEF IInv, Types
    <3>3. state[e] \ {r} # {} => index'[x.pattern] = e
      BY <1>2, <3>1
    <3> QED
      BY <1>1, <2>2, <3>1, <3>2, <3>3 DEF In
  <2>4. CASE x.pattern # r.pattern
    <3>1. index'[x.pattern] = index[x.pattern]
      BY <1>1, <1>2, <2>1, <2>4 DEF IInv, Types
    <3>2. index[x.pattern] # e
      BY <1>1, <2>1, <2>4 DEF IInv, IndexOK
    <3>3. x # r
      BY <2>4
    <3> QED
      BY <2>1, <2>2, <3>1, <3>2, <3>3 DEF In
  <2> QED
    BY <2>3, <2>4
<1>4. /\ Registered = {x \in Ref : In(x)}
      /\ Registered' = {x \in Ref : In(x)'}
  BY RegisteredIsIn, RegisteredIsInAfter
<1> QED
  BY <1>1, <1>3, <1>4

LEMMA LookupKeeps ==
    ASSUME IInv, IInv', NEW c \in Callers, Lookup(c) PROVE UNCHANGED Registered
<1> DEFINE p == ref[c].pattern
<1>1. CASE index[p] # NoEntry
  <2>1. UNCHANGED <<index, state>>
    BY <1>1 DEF Lookup
  <2> QED
    BY <2>1 DEF Registered
<1>2. CASE index[p] = NoEntry
  <2>1. /\ created < MaxEntries /\ index' = [index EXCEPT ![p] = created + 1]
        /\ UNCHANGED state
    BY <1>2 DEF Lookup
  <2>2. p \in Patterns
    BY RefFields DEF Lookup, IInv, Types, RefOK
  <2>3. created + 1 \in Entries /\ state[created + 1] = {}
    <3>1. created + 1 \in Entries /\ created + 1 > created
      BY <2>1, Bounds DEF IInv, Types, Entries
    <3> QED
      BY <3>1 DEF IInv, IndexOK
  <2>4. \A x \in Ref : In(x)' <=> In(x)
    <3> SUFFICES ASSUME NEW x \in Ref PROVE In(x)' <=> In(x)
      OBVIOUS
    <3>1. x.pattern \in Patterns
      BY RefFields
    <3>2. CASE x.pattern = p
      <4>1. index'[x.pattern] = created + 1 /\ index[x.pattern] = NoEntry
        BY <1>2, <2>1, <2>2, <3>2 DEF IInv, Types
      <4> QED
        BY <4>1, <2>1, <2>3 DEF In
    <3>3. CASE x.pattern # p
      <4>1. index'[x.pattern] = index[x.pattern]
        BY <2>1, <3>1, <3>3 DEF IInv, Types
      <4> QED
        BY <4>1, <2>1 DEF In
    <3> QED
      BY <3>2, <3>3
  <2>5. /\ Registered = {x \in Ref : In(x)}
        /\ Registered' = {x \in Ref : In(x)'}
    BY RegisteredIsIn, RegisteredIsInAfter
  <2> QED
    BY <2>4, <2>5
<1> QED
  BY <1>1, <1>2

LEMMA StepRefines == IInv /\ IInv' /\ [Next]_vars => [Abstract!Next]_Registered
<1> SUFFICES ASSUME IInv, IInv', [Next]_vars PROVE [Abstract!Next]_Registered
  OBVIOUS
<1>1. ASSUME NEW c \in Callers, Insert(c) PROVE [Abstract!Next]_Registered
  BY <1>1, InsertAdds DEF Abstract!Next, Abstract!Register
<1>2. ASSUME NEW c \in Callers, RemoveRef(c) PROVE [Abstract!Next]_Registered
  <2>1. ref[c] \in Ref
    BY <1>2 DEF RemoveRef, IInv, Types, RefOK
  <2>2. ref[c] \in Registered /\ Registered' = Registered \ {ref[c]}
    BY <1>2, RemoveRemoves
  <2> QED
    BY <2>1, <2>2 DEF Abstract!Next, Abstract!Deregister
<1>3. ASSUME NEW c \in Callers, Lookup(c) PROVE UNCHANGED Registered
  BY <1>3, LookupKeeps
<1>4. CASE UNCHANGED <<index, state>>
  BY <1>4 DEF Registered
<1>5. \/ UNCHANGED <<index, state>>
      \/ \E c \in Callers : Insert(c) \/ RemoveRef(c) \/ Lookup(c)
  BY DEF Next, vars, regVars, SubscribeStart, AddWild, SubscribeReturns, UnsubStart,
     Find, RemoveWild, StopWorker, PublishStart, LoadExact, LoadWild, NextWild,
     PublishReturns, Deliver, Delivered, EnqueueFails
<1> QED
  BY <1>1, <1>2, <1>3, <1>4, <1>5

\* The registry is the set of references LocalBus takes it for: whatever copies
\* on write race, it changes by the one reference that is added or removed.
THEOREM RefinesSet == Spec => ImplementsSet
<1>1. Init => Abstract!Init
  BY DEF Init, Abstract!Init, Registered
<1> QED
  BY <1>1, Invariant, StepRefines, PTL DEF Spec, ImplementsSet, Abstract!Spec

-------------------------------------------------------------------------------
\* A caller is at a with the entry e.
At(a, e) == \E c \in Callers : callerPc[c] = a /\ entry[c] = e

\* The wildcard list holds, once each, entries in use and entries about to go.
WildSound ==
    /\ wild \in Seq(Entries) /\ IsInjective(wild)
    /\ \A e \in ToSet(wild) :
          \/ \E p \in Wildcards : index[p] = e /\ state[e] # {}
          \/ At("removeWild", e)

\* An entry in use is in the list or about to be.
WildComplete ==
    \A p \in Wildcards : index[p] # NoEntry /\ state[index[p]] # {} =>
          index[p] \in ToSet(wild) \/ At("addWild", index[p])

\* Who adds an entry is alone in it and it is not in the list; who takes one out
\* has seen it die.
WildCallers ==
    /\ \A c \in Callers : callerPc[c] = "addWild" =>
          /\ entry[c] \notin ToSet(wild)
          /\ ref[c].pattern \in Wildcards /\ entry[c] = index[ref[c].pattern]
          /\ \A d \in Callers : callerPc[d] = "addWild" /\ entry[d] = entry[c] => d = c
    /\ \A c \in Callers : callerPc[c] = "removeWild" =>
          entry[c] # NoEntry /\ dead[entry[c]]

\* An indexed entry without subscriptions waits for one.
NoEmpty ==
    \A p \in Patterns : index[p] # NoEntry /\ state[index[p]] = {} =>
        At("insert", index[p])

WildInv == WildSound /\ WildComplete /\ WildCallers /\ NoEmpty

\* What removeWild keeps: all but the one entry, and no repetition is new.
LEMMA WithoutElements ==
    ASSUME NEW s \in Seq(Entries), NEW e
    PROVE  /\ Without(s, e) \in Seq(Entries)
           /\ ToSet(Without(s, e)) = ToSet(s) \ {e}
           /\ IsInjective(s) => IsInjective(Without(s, e))
<1> DEFINE part(i) == IF s[i] # e THEN <<s[i]>> ELSE <<>>
           parts == [i \in DOMAIN s |-> part(i)]
<1>1. DOMAIN s = 1..Len(s) /\ Len(s) \in Nat /\ \A i \in DOMAIN s : s[i] \in Entries
  OBVIOUS
<1>2. \A i \in DOMAIN s : part(i) \in Seq(Entries)
  BY <1>1
<1>3. parts \in Seq(Seq(Entries))
  BY <1>1, <1>2
<1>4. ASSUME NEW i \in DOMAIN s
      PROVE  /\ ToSet(part(i)) = {s[i]} \ {e}
             /\ IsInjective(part(i))
  <2>1. CASE s[i] = e
    <3>1. part(i) = <<>>
      BY <2>1
    <3> QED
      BY <2>1, <3>1 DEF ToSet, IsInjective
  <2>2. CASE s[i] # e
    <3>1. part(i) = <<s[i]>>
      BY <2>2
    <3> QED
      BY <2>2, <3>1 DEF ToSet, IsInjective
  <2> QED
    BY <2>1, <2>2
<1>5. DOMAIN parts = DOMAIN s /\ \A i \in DOMAIN s : parts[i] = part(i)
  OBVIOUS
<1>6. Without(s, e) = FlattenSeq(parts)
  BY DEF Without
<1> HIDE DEF parts, part
<1>7. /\ FlattenSeq(parts) \in Seq(Entries)
      /\ ToSet(FlattenSeq(parts)) = UNION {ToSet(parts[i]) : i \in DOMAIN parts}
  BY <1>3, FlattenElements
<1>8. UNION {ToSet(parts[i]) : i \in DOMAIN parts} = ToSet(s) \ {e}
  <2>1. ASSUME NEW x \in ToSet(s) \ {e}
        PROVE  \E i \in DOMAIN parts : x \in ToSet(parts[i])
    <3>1. PICK i \in DOMAIN s : s[i] = x
      BY DEF ToSet
    <3> QED
      BY <1>4, <1>5, <3>1
  <2>2. ASSUME NEW i \in DOMAIN parts, NEW x \in ToSet(parts[i])
        PROVE  x \in ToSet(s) \ {e}
    BY <1>4, <1>5 DEF ToSet
  <2> QED
    BY <2>1, <2>2
<1>9. ASSUME IsInjective(s) PROVE IsInjective(FlattenSeq(parts))
  <2>1. \A i, j \in DOMAIN parts : i # j => ToSet(parts[i]) \cap ToSet(parts[j]) = {}
    BY <1>4, <1>5, <1>9 DEF IsInjective
  <2>2. \A i \in DOMAIN parts : IsInjective(parts[i])
    BY <1>4, <1>5
  <2> QED
    BY <1>3, <2>1, <2>2, FlattenInjective
<1> QED
  BY <1>6, <1>7, <1>8, <1>9

\* A caller that stays at a is still there.
LEMMA AtStays ==
    ASSUME NEW a, \A d \in Callers : callerPc[d] = a => callerPc'[d] = a /\ entry'[d] = entry[d]
    PROVE  \A e : At(a, e) => At(a, e)'
  BY DEF At

\* The callers that matter to the list: all others may move.
AboutWild == {"insert", "addWild", "removeWild"}

\* Steps of no concern to the list.
LEMMA WildSame ==
    ASSUME WildInv, UNCHANGED regVars,
           \A d \in Callers :
             \/ callerPc'[d] = callerPc[d] /\ entry'[d] = entry[d] /\ ref'[d] = ref[d]
             \/ callerPc[d] \notin AboutWild /\ callerPc'[d] \notin AboutWild
    PROVE  WildInv'
<1> USE DEF regVars, AboutWild, WildInv
<1>1. \A a \in AboutWild : \A e : At(a, e) => At(a, e)'
  BY AtStays
<1>2. WildSound'
  BY <1>1 DEF WildSound
<1>3. WildComplete'
  BY <1>1 DEF WildComplete
<1>4. WildCallers'
  BY DEF WildCallers
<1>5. NoEmpty'
  BY <1>1 DEF NoEmpty
<1> QED
  BY <1>2, <1>3, <1>4, <1>5

LEMMA WildInit == Init => WildInv
<1> SUFFICES ASSUME Init PROVE WildInv
  OBVIOUS
<1>1. wild = <<>> /\ \A p \in Patterns : index[p] = NoEntry
  BY DEF Init
<1>2. WildSound
  BY <1>1 DEF WildSound, ToSet, IsInjective
<1>3. WildComplete /\ NoEmpty
  BY <1>1 DEF WildComplete, NoEmpty, Patterns
<1>4. WildCallers
  BY DEF WildCallers, Init
<1> QED
  BY <1>2, <1>3, <1>4 DEF WildInv

\* A fresh entry is in the index, and its caller about to insert; the list and
\* the other patterns are as before.
LEMMA LookupWild == ASSUME IInv, WildInv, NEW c \in Callers, Lookup(c) PROVE WildInv'
<1> DEFINE p == ref[c].pattern
<1>1. /\ callerPc[c] = "lookup" /\ callerPc' = [callerPc EXCEPT ![c] = "insert"]
      /\ UNCHANGED <<state, dead, wild, ref>>
      /\ ref[c] \in Ref /\ p \in Patterns
  BY RefFields DEF Lookup, CallerGoto, IInv, Types, RefOK
<1>2. PICK e \in Entries :
        /\ entry' = [entry EXCEPT ![c] = e]
        /\ \/ e = index[p] /\ index' = index
           \/ /\ index[p] = NoEntry /\ index' = [index EXCEPT ![p] = e]
              /\ state[e] = {}
  <2>1. CASE index[p] # NoEntry
    BY <1>1, <2>1 DEF Lookup, IInv, Types
  <2>2. CASE index[p] = NoEntry
    <3>1. created + 1 \in Entries /\ created + 1 > created
      BY <2>2, Bounds DEF Lookup, IInv, Types, Entries
    <3>2. state[created + 1] = {}
      BY <3>1 DEF IInv, IndexOK
    <3> QED
      BY <2>2, <3>1, <3>2 DEF Lookup
  <2> QED
    BY <2>1, <2>2
<1>3. /\ callerPc'[c] = "insert" /\ entry'[c] = e
      /\ \A d \in Callers : d # c => callerPc'[d] = callerPc[d] /\ entry'[d] = entry[d]
  BY <1>1, <1>2 DEF IInv, Types
<1>4. \A a \in AboutWild : \A f : At(a, f) => At(a, f)'
  BY <1>1, <1>3, AtStays DEF AboutWild
<1>5. At("insert", e)'
  BY <1>3 DEF At
<1>6. /\ \A q \in Patterns : index[q] # NoEntry => index'[q] = index[q]
      /\ \A q \in Patterns : index'[q] = index[q] \/ (index'[q] = e /\ state[e] = {})
  BY <1>1, <1>2 DEF IInv, Types
<1>7. WildSound'
  BY <1>1, <1>4, <1>6, NoSuch DEF WildInv, WildSound, AboutWild, Patterns, ToSet
<1>8. WildComplete'
  BY <1>1, <1>4, <1>6 DEF WildInv, WildComplete, AboutWild, Patterns
<1>9. WildCallers'
  <2>1. ASSUME NEW d \in Callers, callerPc'[d] = "addWild"
        PROVE  /\ d # c /\ callerPc[d] = "addWild" /\ entry'[d] = entry[d]
               /\ index'[ref[d].pattern] = index[ref[d].pattern]
    BY <1>3, <1>6, <2>1 DEF IInv, HeldOK, Holding, In, WildInv, WildCallers, Patterns
  <2>2. ASSUME NEW d \in Callers, callerPc'[d] = "removeWild"
        PROVE  d # c /\ callerPc[d] = "removeWild" /\ entry'[d] = entry[d]
    BY <1>3, <2>2
  <2> QED
    BY <1>1, <2>1, <2>2 DEF WildInv, WildCallers
<1>10. NoEmpty'
  <2> SUFFICES ASSUME NEW q \in Patterns, NEW f, f = index'[q], f # NoEntry, state[f] = {}
               PROVE  At("insert", f)'
    BY <1>1 DEF NoEmpty, At
  <2> QED
    BY <1>4, <1>5, <1>6 DEF WildInv, NoEmpty, AboutWild
<1> QED
  BY <1>7, <1>8, <1>9, <1>10 DEF WildInv

\* The first reference of a wildcard entry sends its caller to the list, where the
\* entry cannot be yet.
LEMMA InsertWild == ASSUME IInv, WildInv, NEW c \in Callers, Insert(c) PROVE WildInv'
<1> DEFINE r == ref[c]
           e == entry[c]
<1>1. /\ callerPc[c] = "insert" /\ UNCHANGED <<index, dead, wild, ref, entry, created>>
      /\ r \in Ref /\ r.pattern \in Patterns /\ e \in Entries
      /\ dead[e] \/ e = index[r.pattern]
  BY RefFields DEF Insert, callVars, IInv, Types, RefOK, EntryOK
<1>2. PICK a \in {"lookup", "addWild", "subscribed"} : callerPc' = [callerPc EXCEPT ![c] = a]
  BY DEF Insert, CallerGoto
<1>3. /\ callerPc'[c] = a
      /\ \A d \in Callers : d # c => callerPc'[d] = callerPc[d]
  BY <1>2 DEF IInv, Types
<1>4. \A b \in {"addWild", "removeWild"} : \A f : At(b, f) => At(b, f)'
  BY <1>1, <1>3, AtStays
<1>5. \A f : f # e /\ At("insert", f) => At("insert", f)'
  BY <1>1, <1>3 DEF At
<1>6. CASE dead[e]
  <2>1. UNCHANGED state /\ a = "lookup"
    <3>1. UNCHANGED state /\ callerPc' = [callerPc EXCEPT ![c] = "lookup"]
      BY <1>6 DEF Insert, CallerGoto
    <3> QED
      BY <1>3, <3>1 DEF IInv, Types
  <2>2. \A p \in Patterns : index[p] # NoEntry => index[p] # e
    BY <1>6 DEF IInv, IndexOK
  <2>3. WildSound'
    BY <1>1, <1>4, <2>1 DEF WildInv, WildSound
  <2>4. WildComplete'
    BY <1>1, <1>4, <2>1 DEF WildInv, WildComplete
  <2>5. WildCallers'
    BY <1>1, <1>3, <2>1 DEF WildInv, WildCallers
  <2>6. NoEmpty'
    BY <1>1, <1>5, <2>1, <2>2 DEF WildInv, NoEmpty
  <2> QED
    BY <2>3, <2>4, <2>5, <2>6 DEF WildInv
<1>7. CASE ~dead[e]
  <2>1. /\ state' = [state EXCEPT ![e] = @ \cup {r}]
        /\ a = IF r.pattern \in Wildcards /\ state[e] = {} THEN "addWild" ELSE "subscribed"
    <3>1. /\ state' = [state EXCEPT ![e] = @ \cup {r}]
          /\ callerPc' = [callerPc EXCEPT ![c] =
               IF r.pattern \in Wildcards /\ state[e] = {} THEN "addWild" ELSE "subscribed"]
      BY <1>7 DEF Insert, CallerGoto, CloneAdd
    <3> QED
      BY <1>3, <3>1 DEF IInv, Types
  <2>2. /\ state'[e] # {}
        /\ \A f \in Entries : f # e => state'[f] = state[f]
        /\ \A f \in Entries : state[f] # {} => state'[f] # {}
    BY <1>1, <2>1 DEF IInv, Types
  <2>3. /\ e = index[r.pattern]
        /\ \A p \in Patterns : index[p] = e => p = r.pattern
        /\ \A p \in Patterns : index[p] # NoEntry => index[p] \in Entries
    BY <1>1, <1>7, NoSuch DEF IInv, IndexOK, Types
  <2>4. WildSound'
    BY <1>1, <1>4, <2>2 DEF WildInv, WildSound, ToSet
  <2>5. WildComplete'
    <3> SUFFICES ASSUME NEW p \in Wildcards, NEW f, f = index[p], f # NoEntry,
                        state'[f] # {}
                 PROVE  f \in ToSet(wild) \/ At("addWild", f)'
      BY <1>1 DEF WildComplete, At
    <3>1. CASE state[f] # {}
      BY <1>4, <3>1 DEF WildInv, WildComplete
    <3>2. CASE state[f] = {}
      <4>1. f = e /\ p = r.pattern
        BY <2>2, <2>3, <3>2 DEF Patterns
      <4>2. a = "addWild"
        BY <2>1, <3>2, <4>1
      <4> QED
        BY <1>1, <1>3, <4>1, <4>2 DEF At
    <3> QED
      BY <3>1, <3>2
  <2>6. WildCallers'
    <3>1. ASSUME a = "addWild"
          PROVE  /\ e \notin ToSet(wild)
                 /\ \A d \in Callers : callerPc[d] = "addWild" => entry[d] # e
      <4>1. state[e] = {}
        BY <2>1, <3>1
      <4>2. ~At("removeWild", e)
        BY <1>7 DEF At, WildInv, WildCallers
      <4>3. e \notin ToSet(wild)
        BY <4>1, <4>2 DEF WildInv, WildSound
      <4>4. \A d \in Callers : callerPc[d] = "addWild" => state[entry[d]] # {}
        BY DEF IInv, HeldOK, Holding, In, WildInv, WildCallers
      <4> QED
        BY <4>1, <4>3, <4>4
    <3>2. a = "addWild" => r.pattern \in Wildcards
      BY <2>1
    <3>3. \A d \in Callers : callerPc'[d] = "addWild" =>
             /\ entry[d] \notin ToSet(wild)
             /\ ref[d].pattern \in Wildcards /\ entry[d] = index[ref[d].pattern]
      BY <1>3, <2>3, <3>1, <3>2 DEF WildInv, WildCallers
    <3>4. \A d, f \in Callers :
             callerPc'[d] = "addWild" /\ callerPc'[f] = "addWild" /\ entry[d] = entry[f]
               => d = f
      BY <1>3, <3>1 DEF WildInv, WildCallers
    <3>5. \A d \in Callers : callerPc'[d] = "removeWild" => callerPc[d] = "removeWild"
      BY <1>3
    <3> QED
      BY <1>1, <3>3, <3>4, <3>5 DEF WildInv, WildCallers
  <2>7. NoEmpty'
    BY <1>1, <1>5, <2>2, <2>3 DEF WildInv, NoEmpty
  <2> QED
    BY <2>4, <2>5, <2>6, <2>7 DEF WildInv
<1> QED
  BY <1>6, <1>7

\* The entry is in the list now, once.
LEMMA AddWildWild == ASSUME IInv, WildInv, NEW c \in Callers, AddWild(c) PROVE WildInv'
<1> DEFINE e == entry[c]
<1>1. /\ callerPc[c] = "addWild" /\ wild' = Append(wild, e)
      /\ callerPc' = [callerPc EXCEPT ![c] = "subscribed"]
      /\ UNCHANGED <<index, state, dead, created, ref, entry>>
  BY DEF AddWild, callVars, CallerGoto
<1>2. /\ e \notin ToSet(wild) /\ ref[c].pattern \in Wildcards /\ e = index[ref[c].pattern]
      /\ \A d \in Callers : callerPc[d] = "addWild" /\ d # c => entry[d] # e
      /\ e # NoEntry /\ state[e] # {}
  BY <1>1 DEF IInv, HeldOK, Holding, In, WildInv, WildCallers
<1>3. e \in Entries
  BY <1>2 DEF IInv, Types
<1>4. /\ wild' \in Seq(Entries) /\ ToSet(wild') = ToSet(wild) \cup {e} /\ IsInjective(wild')
  BY <1>1, <1>2, <1>3, AppendElements DEF WildInv, WildSound
<1>5. /\ callerPc'[c] = "subscribed"
      /\ \A d \in Callers : d # c => callerPc'[d] = callerPc[d]
  BY <1>1 DEF IInv, Types
<1>6. \A b \in {"insert", "removeWild"} : \A f : At(b, f) => At(b, f)'
  BY <1>1, <1>5, AtStays
<1>7. \A f : f # e /\ At("addWild", f) => At("addWild", f)'
  BY <1>1, <1>5 DEF At
<1>8. WildSound'
  BY <1>1, <1>2, <1>4, <1>6 DEF WildInv, WildSound
<1>9. WildComplete'
  BY <1>1, <1>4, <1>7 DEF WildInv, WildComplete
<1>10. WildCallers'
  BY <1>1, <1>2, <1>4, <1>5 DEF WildInv, WildCallers
<1>11. NoEmpty'
  BY <1>1, <1>6 DEF WildInv, NoEmpty
<1> QED
  BY <1>8, <1>9, <1>10, <1>11 DEF WildInv

\* An entry that loses its last reference leaves the index, and its caller goes to
\* take it out of the list if it can be there.
LEMMA RemoveRefWild == ASSUME IInv, WildInv, NEW c \in Callers, RemoveRef(c) PROVE WildInv'
<1> DEFINE r == ref[c]
           e == entry[c]
           left == state[e] \ {r}
<1>1. /\ callerPc[c] = "remove" /\ UNCHANGED <<created, wild, ref, entry>>
      /\ state' = [state EXCEPT ![e] = left]
  BY DEF RemoveRef, CloneRemove, callVars
<1>2. /\ r \in Ref /\ r.by = c /\ r.pattern \in Patterns
      /\ e = index[r.pattern] /\ e # NoEntry /\ e \in Entries
  BY <1>1, RefFields DEF IInv, Types, RefOK, EntryOK, HeldOK, Holding, In
<1>3. \/ /\ left = {} /\ dead' = [dead EXCEPT ![e] = TRUE]
         /\ index' = [index EXCEPT ![r.pattern] = NoEntry]
         /\ callerPc' = [callerPc EXCEPT ![c] =
              IF r.pattern \in Wildcards THEN "removeWild" ELSE "stop"]
      \/ left # {} /\ UNCHANGED <<dead, index>> /\ callerPc' = [callerPc EXCEPT ![c] = "stop"]
  BY DEF RemoveRef, CloneRemove, CallerGoto
<1>4. /\ callerPc'[c] \in {"removeWild", "stop"}
      /\ \A d \in Callers : d # c => callerPc'[d] = callerPc[d]
      /\ callerPc'[c] = "removeWild" => left = {} /\ dead'[e]
      /\ left = {} /\ r.pattern \in Wildcards => callerPc'[c] = "removeWild"
      /\ \A f \in Entries : dead[f] => dead'[f]
  BY <1>2, <1>3 DEF IInv, Types
<1>5. /\ state'[e] = left
      /\ \A f \in Entries : f # e => state'[f] = state[f]
      /\ \A f \in Entries : state'[f] # {} => state[f] # {}
  BY <1>1, <1>2 DEF IInv, Types
<1>6. /\ \A p \in Patterns : index'[p] # NoEntry => index'[p] = index[p] /\ index[p] \in Entries
      /\ \A p \in Patterns : p # r.pattern => index'[p] = index[p]
      /\ left # {} => index' = index
      /\ left = {} => index'[r.pattern] = NoEntry
      /\ \A p \in Patterns : index[p] = e => p = r.pattern
  BY <1>2, <1>3, NoSuch DEF IInv, Types, IndexOK
<1>7. \A a \in AboutWild : \A f : At(a, f) => At(a, f)'
  BY <1>1, <1>4, AtStays DEF AboutWild
<1>8. WildSound'
  <2> SUFFICES ASSUME NEW f \in ToSet(wild)
               PROVE  \/ \E p \in Wildcards : index'[p] = f /\ state'[f] # {}
                      \/ At("removeWild", f)'
    BY <1>1 DEF WildInv, WildSound
  <2>1. f \in Entries
    BY DEF WildInv, WildSound, ToSet
  <2>2. CASE At("removeWild", f)
    BY <1>7, <2>2 DEF AboutWild
  <2>3. ASSUME NEW p \in Wildcards, index[p] = f, state[f] # {}
        PROVE  (index'[p] = f /\ state'[f] # {}) \/ At("removeWild", f)'
    <3>1. CASE f # e
      <4>1. p # r.pattern
        BY <1>2, <2>3, <3>1
      <4> QED
        BY <1>5, <1>6, <2>1, <2>3, <3>1, <4>1 DEF Patterns
    <3>2. CASE f = e /\ left = {}
      <4>1. callerPc'[c] = "removeWild"
        BY <1>4, <1>6, <2>3, <3>2 DEF Patterns
      <4> QED
        BY <1>1, <3>2, <4>1 DEF At
    <3>3. CASE f = e /\ left # {}
      BY <1>5, <1>6, <2>3, <3>3
    <3> QED
      BY <3>1, <3>2, <3>3
  <2> QED
    BY <2>2, <2>3 DEF WildInv, WildSound
<1>9. WildComplete'
  <2> SUFFICES ASSUME NEW p \in Wildcards, NEW f, f = index'[p], f # NoEntry,
                      state'[f] # {}
               PROVE  f \in ToSet(wild) \/ At("addWild", f)'
    BY <1>1 DEF WildComplete, At
  <2>1. index[p] = f /\ f \in Entries /\ state[f] # {}
    BY <1>5, <1>6 DEF Patterns
  <2> QED
    BY <1>7, <2>1, NoSuch DEF WildInv, WildComplete, AboutWild
<1>10. WildCallers'
  <2>1. ASSUME NEW d \in Callers, callerPc'[d] = "addWild"
        PROVE  /\ callerPc[d] = "addWild" /\ index'[ref[d].pattern] = index[ref[d].pattern]
    <3>1. d # c /\ callerPc[d] = "addWild"
      BY <1>4, <2>1
    <3>2. /\ In(ref[d]) /\ ref[d].by = d /\ ref[d].pattern \in Patterns
      BY <3>1, RefFields DEF IInv, HeldOK, Holding, RefOK, Types
    <3>3. CASE ref[d].pattern = r.pattern
      <4>1. ref[d] \in left
        BY <1>2, <3>1, <3>2, <3>3 DEF In
      <4> QED
        BY <1>6, <3>1, <4>1
    <3>4. CASE ref[d].pattern # r.pattern
      BY <1>6, <3>1, <3>2, <3>4
    <3> QED
      BY <3>3, <3>4
  <2>2. ASSUME NEW d \in Callers, callerPc'[d] = "removeWild"
        PROVE  entry[d] # NoEntry /\ dead'[entry[d]]
    <3>1. CASE d = c
      BY <1>2, <1>4, <2>2, <3>1
    <3>2. CASE d # c
      BY <1>4, <2>2, <3>2 DEF WildInv, WildCallers, IInv, Types
    <3> QED
      BY <3>1, <3>2
  <2> QED
    BY <1>1, <2>1, <2>2 DEF WildInv, WildCallers
<1>11. NoEmpty'
  <2> SUFFICES ASSUME NEW p \in Patterns, NEW f, f = index'[p], f # NoEntry,
                      state'[f] = {}
               PROVE  At("insert", f)'
    BY DEF NoEmpty, At
  <2>1. index[p] = f /\ f \in Entries
    BY <1>6
  <2>2. f # e
    BY <1>5, <1>6, <2>1
  <2> QED
    BY <1>5, <1>7, <2>1, <2>2, NoSuch DEF WildInv, NoEmpty, AboutWild
<1> QED
  BY <1>8, <1>9, <1>10, <1>11 DEF WildInv

\* The dead entry leaves the list, and no other.
LEMMA RemoveWildWild == ASSUME IInv, WildInv, NEW c \in Callers, RemoveWild(c) PROVE WildInv'
<1> DEFINE e == entry[c]
<1>1. /\ callerPc[c] = "removeWild" /\ wild' = Without(wild, e)
      /\ callerPc' = [callerPc EXCEPT ![c] = "stop"]
      /\ UNCHANGED <<index, state, dead, created, ref, entry>>
  BY DEF RemoveWild, callVars, CallerGoto
<1>2. /\ wild' \in Seq(Entries) /\ ToSet(wild') = ToSet(wild) \ {e} /\ IsInjective(wild')
  BY <1>1, WithoutElements DEF WildInv, WildSound
<1>3. /\ callerPc'[c] = "stop"
      /\ \A d \in Callers : d # c => callerPc'[d] = callerPc[d]
  BY <1>1 DEF IInv, Types
<1>4. \A b \in {"insert", "addWild"} : \A f : At(b, f) => At(b, f)'
  BY <1>1, <1>3, AtStays
<1>5. \A f : f # e /\ At("removeWild", f) => At("removeWild", f)'
  BY <1>1, <1>3 DEF At
<1>6. \A p \in Patterns : index[p] # NoEntry => index[p] # e
  BY <1>1 DEF IInv, IndexOK, WildInv, WildCallers
<1>7. WildSound'
  BY <1>1, <1>2, <1>5 DEF WildInv, WildSound
<1>8. WildComplete'
  BY <1>1, <1>2, <1>4, <1>6 DEF WildInv, WildComplete, Patterns
<1>9. WildCallers'
  BY <1>1, <1>2, <1>3 DEF WildInv, WildCallers
<1>10. NoEmpty'
  BY <1>1, <1>4 DEF WildInv, NoEmpty
<1> QED
  BY <1>7, <1>8, <1>9, <1>10 DEF WildInv

LEMMA NextWildInv == IInv /\ WildInv /\ [Next]_vars => WildInv'
<1> SUFFICES ASSUME IInv, WildInv, [Next]_vars PROVE WildInv'
  OBVIOUS
<1>1. ASSUME NEW c \in Callers, NEW p \in Patterns, NEW q \in Groups \cup {FanOut},
             SubscribeStart(c, p, q)
      PROVE  WildInv'
  BY <1>1, WildSame DEF SubscribeStart, CallerGoto, IInv, Types, AboutWild
<1>2. ASSUME NEW c \in Callers,
             \/ Lookup(c) \/ Insert(c) \/ AddWild(c) \/ RemoveRef(c) \/ RemoveWild(c)
      PROVE  WildInv'
  BY <1>2, LookupWild, InsertWild, AddWildWild, RemoveRefWild, RemoveWildWild
<1>3. ASSUME NEW c \in Callers, SubscribeReturns(c) \/ UnsubStart(c) \/ StopWorker(c)
      PROVE  WildInv'
  BY <1>3, WildSame DEF SubscribeReturns, UnsubStart, StopWorker, CallerGoto, callVars,
     IInv, Types, AboutWild
<1>4. ASSUME NEW c \in Callers, Find(c) PROVE WildInv'
  <2>1. PICK a \in {"stop", "remove"} : callerPc' = [callerPc EXCEPT ![c] = a]
    BY <1>4 DEF Find, CallerGoto
  <2> QED
    BY <1>4, <2>1, WildSame DEF Find, IInv, Types, AboutWild
<1>5. ASSUME NEW p \in Publishers,
             \/ PublishStart(p) \/ LoadExact(p) \/ LoadWild(p) \/ NextWild(p)
             \/ PublishReturns(p) \/ Deliver(p) \/ Delivered(p) \/ EnqueueFails(p)
      PROVE  WildInv'
  <2>1. UNCHANGED <<regVars, callerPc, callVars>>
    BY <1>5 DEF PublishStart, LoadExact, LoadWild, NextWild, PublishReturns, Deliver,
       Delivered, EnqueueFails
  <2> QED
    BY <2>1, WildSame DEF callVars
<1>6. CASE UNCHANGED vars
  BY <1>6, WildSame DEF vars, callVars
<1> QED
  BY <1>1, <1>2, <1>3, <1>4, <1>5, <1>6 DEF Next

LEMMA WildInvariant == Spec => []WildInv
  BY WildInit, NextWildInv, Invariant, PTL DEF Spec

\* However subscribers come and go, once they are done the wildcard list is exactly
\* the wildcard entries in use: nothing is lost, doubled or left behind.
THEOREM WildListCorrect == Spec => []WildListExact
<1>1. IInv /\ WildInv => WildListExact
  <2> SUFFICES ASSUME IInv, WildInv, Quiet
               PROVE  /\ ToSet(wild) = {e \in Entries : \E p \in Wildcards : index[p] = e}
                      /\ IsInjective(wild)
                      /\ \A p \in Patterns : index[p] # NoEntry => state[index[p]] # {}
    BY DEF WildListExact
  <2>1. \A a \in AboutWild : \A e : ~At(a, e)
    BY DEF Quiet, At, AboutWild
  <2>2. \A p \in Patterns : index[p] # NoEntry => state[index[p]] # {}
    BY <2>1 DEF WildInv, NoEmpty, AboutWild
  <2>3. \A e \in ToSet(wild) : e \in Entries /\ \E p \in Wildcards : index[p] = e
    <3>1. \A e \in ToSet(wild) : e \in Entries
      BY DEF WildInv, WildSound, ToSet
    <3> QED
      BY <2>1, <3>1 DEF WildInv, WildSound, AboutWild
  <2>4. \A e \in Entries : \A p \in Wildcards : index[p] = e => e \in ToSet(wild)
    BY <2>1, <2>2, NoSuch DEF WildInv, WildComplete, AboutWild, Patterns
  <2> QED
    BY <2>2, <2>3, <2>4 DEF WildInv, WildSound
<1> QED
  BY <1>1, Invariant, WildInvariant, PTL

-------------------------------------------------------------------------------
\* Types of what publishers keep.
PubTypes ==
    /\ stopped \subseteq Ref
    /\ pubPc \in [Publishers -> PubPcs]
    /\ snap \in [Publishers -> SUBSET Ref]
    /\ pubWild \in [Publishers -> Seq(Entries)]
    /\ got \in [Publishers -> Seq(Ref)]
    /\ settledAt \in [Publishers -> SUBSET Ref]

Registering == {"lookup", "insert", "addWild", "subscribed"}

\* References are used once: none is live or settled before its Subscribe
\* returns, and none is live once it is stopped.
Past ==
    /\ live \cap stopped = {}
    /\ \A r \in stopped \cup live : r.n <= subN[r.by]
    /\ \A p \in Publishers : \A r \in settledAt[p] : r.n <= subN[r.by]
    /\ \A c \in Callers : callerPc[c] \in Registering =>
          ref[c] \notin stopped /\ \A p \in Publishers : ref[c] \notin settledAt[p]

\* How far a publish has come with a subscription of the subject itself, and of
\* a wildcard.
ExactReached(p, r) ==
    /\ pubPc[p] = "deliverExact" => r \in snap[p] \/ r \in ToSet(got[p])
    /\ pubPc[p] \in {"wild", "next", "deliverWild", "done"} => r \in ToSet(got[p])

WildReached(p, r) ==
    /\ pubPc[p] = "next" => r \in ToSet(got[p]) \/ index[r.pattern] \in ToSet(pubWild[p])
    /\ pubPc[p] = "deliverWild" =>
          r \in ToSet(got[p]) \/ r \in snap[p] \/ index[r.pattern] \in ToSet(pubWild[p])
    /\ pubPc[p] = "done" => r \in ToSet(got[p])

Reaching ==
    \A p \in Publishers : \A r \in settledAt[p] \cap live :
        /\ Settled(r)
        /\ r.queue = FanOut =>
              /\ r.pattern \in ExactPatterns => ExactReached(p, r)
              /\ r.pattern \in Wildcards => WildReached(p, r)

PubInv == PubTypes /\ Past /\ Reaching

LEMMA PubInit == Init => PubInv
<1> SUFFICES ASSUME Init PROVE PubInv
  OBVIOUS
<1>1. PubTypes
  BY DEF Init, PubTypes, PubPcs
<1>2. Past
  BY DEF Init, Past, Registering
<1>3. Reaching
  BY DEF Init, Reaching
<1> QED
  BY <1>1, <1>2, <1>3 DEF PubInv

-------------------------------------------------------------------------------
\* The callers' steps.

\* Callers that only move on, or give up a reference, leave the past as it is.
LEMMA PastKept ==
    ASSUME Past, UNCHANGED <<subN, ref, settledAt, stopped>>, live' \subseteq live,
           \A c \in Callers : callerPc'[c] \in Registering => callerPc[c] \in Registering
    PROVE  Past'
  BY DEF Past

\* What a publish has reached of the subscriptions that stay live, while callers
\* leave their patterns to them.
LEMMA ReachingKept ==
    ASSUME Reaching, UNCHANGED pubVars,
           \A p \in Publishers : \A r \in settledAt[p] \cap live' :
              r \in live /\ index'[r.pattern] = index[r.pattern],
           \A c \in Callers : callerPc'[c] = "addWild" =>
              \/ callerPc[c] = "addWild" /\ ref'[c] = ref[c]
              \/ \A r \in live' : r.pattern # ref'[c].pattern
    PROVE  Reaching'
<1> USE DEF pubVars
<1>1. SUFFICES ASSUME NEW p \in Publishers, NEW r \in settledAt[p] \cap live'
               PROVE  /\ Settled(r)'
                      /\ r.queue = FanOut =>
                           /\ r.pattern \in ExactPatterns => ExactReached(p, r)'
                           /\ r.pattern \in Wildcards => WildReached(p, r)'
  BY DEF Reaching
<1>2. r \in live /\ index'[r.pattern] = index[r.pattern]
  OBVIOUS
<1>3. Settled(r)'
  BY <1>2 DEF Reaching, Settled
<1>4. ExactReached(p, r) => ExactReached(p, r)'
  BY DEF ExactReached
<1>5. WildReached(p, r) => WildReached(p, r)'
  BY <1>2 DEF WildReached
<1> QED
  BY <1>2, <1>3, <1>4, <1>5 DEF Reaching

LEMMA SubscribeStartPub ==
    ASSUME IInv, PubInv, NEW c \in Callers, NEW p \in Patterns,
           NEW q \in Groups \cup {FanOut}, SubscribeStart(c, p, q)
    PROVE  PubInv'
<1> DEFINE r == [by |-> c, n |-> subN[c] + 1, pattern |-> p, queue |-> q]
<1>1. /\ callerPc[c] = "idle" /\ subN' = [subN EXCEPT ![c] = @ + 1]
      /\ ref' = [ref EXCEPT ![c] = r] /\ callerPc' = [callerPc EXCEPT ![c] = "lookup"]
      /\ UNCHANGED <<regVars, stopped, live, pubVars>>
  BY DEF SubscribeStart, CallerGoto
<1>2. /\ subN[c] \in Nat /\ subN'[c] = subN[c] + 1
      /\ \A d \in Callers : subN[d] <= subN'[d] /\ subN[d] \in Nat /\ subN'[d] \in Nat
      /\ ref'[c] = r /\ callerPc'[c] = "lookup"
      /\ \A d \in Callers : d # c => ref'[d] = ref[d] /\ callerPc'[d] = callerPc[d]
  BY <1>1 DEF IInv, Types
<1>3. PubTypes'
  BY <1>1 DEF PubInv, PubTypes, pubVars
<1>4. \A x \in Ref : x.n <= subN[x.by] => x.n <= subN'[x.by] /\ x # r
  <2> SUFFICES ASSUME NEW x \in Ref, x.n <= subN[x.by] PROVE x.n <= subN'[x.by] /\ x # r
    OBVIOUS
  <2>1. x.by \in Callers /\ x.n \in Nat
    BY RefFields, Bounds
  <2> QED
    BY <1>2, <2>1
<1>5. Past'
  <2>1. stopped \subseteq Ref /\ live \subseteq Ref
        /\ \A s \in Publishers : settledAt[s] \subseteq Ref
    BY DEF PubInv, PubTypes, IInv, Types
  <2>2. \A x \in stopped \cup live : x.n <= subN'[x.by] /\ x # r
    BY <1>4, <2>1 DEF PubInv, Past
  <2>3. \A s \in Publishers : \A x \in settledAt[s] : x.n <= subN'[x.by] /\ x # r
    BY <1>4, <2>1 DEF PubInv, Past
  <2> QED
    BY <1>1, <1>2, <2>2, <2>3 DEF PubInv, Past, pubVars
<1>6. Reaching'
  BY <1>1, <1>2, ReachingKept DEF PubInv, regVars
<1> QED
  BY <1>3, <1>5, <1>6 DEF PubInv

\* The caller of a step, the others standing still.
Alone(c) ==
    /\ UNCHANGED <<subN, ref, stopped, pubVars>>
    /\ \A d \in Callers : d # c => callerPc'[d] = callerPc[d]
    /\ callerPc'[c] \in Registering => callerPc[c] \in Registering

\* A live reference keeps its entry, as it is still in one after the step.
LEMMA LivePattern ==
    ASSUME IInv, IInv', live' = live,
           \A q \in Patterns : index'[q] = index[q] \/ index[q] = NoEntry \/ index'[q] = NoEntry
    PROVE  \A r \in live : index'[r.pattern] = index[r.pattern]
<1> SUFFICES ASSUME NEW r \in live PROVE index'[r.pattern] = index[r.pattern]
  OBVIOUS
<1>1. r.pattern \in Patterns /\ index[r.pattern] # NoEntry
  BY RefFields DEF IInv, Types, HeldOK, In
<1>2. index'[r.pattern] # NoEntry
  BY DEF IInv, HeldOK, In
<1> QED
  BY <1>1, <1>2

\* Of the steps on the index only a first insert brings somebody to addWild, for a
\* pattern with no live reference.
LEMMA RegistryPub ==
    ASSUME IInv, IInv', PubInv, NEW c \in Callers,
           Lookup(c) \/ Insert(c) \/ AddWild(c) \/ RemoveRef(c) \/ RemoveWild(c) \/ Find(c)
    PROVE  PubInv'
<1>1. PICK a \in CallerPcs :
        /\ callerPc' = [callerPc EXCEPT ![c] = a] /\ UNCHANGED live
        /\ a \in Registering => callerPc[c] \in Registering
  BY DEF Lookup, Insert, AddWild, RemoveRef, RemoveWild, Find, CallerGoto, CallerPcs,
     Registering
<1>2. Alone(c) /\ callerPc'[c] = a
  BY <1>1 DEF Alone, Lookup, Insert, AddWild, RemoveRef, RemoveWild, Find, callVars,
     IInv, Types
<1>3. PubTypes'
  BY <1>2 DEF PubInv, PubTypes, Alone, pubVars
<1>4. Past'
  BY <1>1, <1>2, PastKept DEF Alone, PubInv, pubVars
<1>5. \A q \in Patterns : index'[q] = index[q] \/ index[q] = NoEntry \/ index'[q] = NoEntry
  BY DEF Lookup, Insert, AddWild, RemoveRef, RemoveWild, Find, regVars, IInv, Types
<1>6. \A r \in live : index'[r.pattern] = index[r.pattern]
  BY <1>1, <1>5, LivePattern
<1>7. ASSUME a = "addWild", NEW r \in live PROVE r.pattern # ref[c].pattern
  <2>1. Insert(c)
    BY <1>1, <1>2, <1>7 DEF Lookup, AddWild, RemoveRef, RemoveWild, Find, CallerGoto, IInv,
       Types
  <2>2. callerPc[c] = "insert" /\ ~dead[entry[c]] /\ state[entry[c]] = {}
    BY <1>2, <1>7, <2>1 DEF Insert, CallerGoto, IInv, Types
  <2>3. entry[c] = index[ref[c].pattern]
    BY <2>2 DEF IInv, EntryOK
  <2>4. r \in state[index[r.pattern]]
    BY DEF IInv, HeldOK, In
  <2> QED
    BY <2>2, <2>3, <2>4
<1>8. Reaching'
  BY <1>1, <1>2, <1>6, <1>7, ReachingKept DEF Alone, PubInv
<1> QED
  BY <1>3, <1>4, <1>8 DEF PubInv

\* What becomes live is in no settled set yet.
LEMMA SubscribeReturnsPub ==
    ASSUME IInv, PubInv, NEW c \in Callers, SubscribeReturns(c) PROVE PubInv'
<1>1. /\ callerPc[c] = "subscribed" /\ live' = live \cup {ref[c]}
      /\ callerPc' = [callerPc EXCEPT ![c] = "idle"]
      /\ UNCHANGED <<index, subN, ref, stopped, pubVars>>
  BY DEF SubscribeReturns, CallerGoto, regVars, callVars
<1>2. /\ callerPc'[c] = "idle"
      /\ \A d \in Callers : d # c => callerPc'[d] = callerPc[d]
  BY <1>1 DEF IInv, Types
<1>3. /\ ref[c] \notin stopped /\ \A p \in Publishers : ref[c] \notin settledAt[p]
      /\ ref[c].n <= subN[ref[c].by]
  BY <1>1 DEF PubInv, Past, Registering, IInv, RefOK, Types
<1>4. PubTypes'
  BY <1>1 DEF PubInv, PubTypes, pubVars
<1>5. Past'
  BY <1>1, <1>2, <1>3 DEF PubInv, Past, Registering, pubVars
<1>6. Reaching'
  BY <1>1, <1>2, <1>3, ReachingKept DEF PubInv
<1> QED
  BY <1>4, <1>5, <1>6 DEF PubInv

LEMMA UnsubStartPub ==
    ASSUME IInv, PubInv, NEW c \in Callers, UnsubStart(c) PROVE PubInv'
<1>1. /\ live' \subseteq live
      /\ callerPc' = [callerPc EXCEPT ![c] = "find"]
      /\ UNCHANGED <<index, subN, ref, stopped, pubVars>>
  BY DEF UnsubStart, CallerGoto, regVars, callVars
<1>2. /\ callerPc'[c] = "find"
      /\ \A d \in Callers : d # c => callerPc'[d] = callerPc[d]
  BY <1>1 DEF IInv, Types
<1>3. PubTypes'
  BY <1>1 DEF PubInv, PubTypes, pubVars
<1>4. Past'
  BY <1>1, <1>2, PastKept DEF PubInv, Registering, pubVars
<1>5. Reaching'
  BY <1>1, <1>2, ReachingKept DEF PubInv
<1> QED
  BY <1>3, <1>4, <1>5 DEF PubInv

\* What is stopped is no longer live, and nobody registers it.
LEMMA StopWorkerPub ==
    ASSUME IInv, PubInv, NEW c \in Callers, StopWorker(c) PROVE PubInv'
<1>1. /\ callerPc[c] = "stop" /\ stopped' = stopped \cup {ref[c]}
      /\ callerPc' = [callerPc EXCEPT ![c] = "idle"]
      /\ UNCHANGED <<index, subN, ref, live, pubVars>>
  BY DEF StopWorker, CallerGoto, regVars, callVars
<1>2. /\ callerPc'[c] = "idle"
      /\ \A d \in Callers : d # c => callerPc'[d] = callerPc[d]
  BY <1>1 DEF IInv, Types
<1>3. /\ ref[c] \in Ref /\ ref[c] \notin live /\ ref[c].by = c
      /\ ref[c].n <= subN[ref[c].by]
  BY <1>1 DEF IInv, RefOK, Types
<1>4. \A d \in Callers : d # c /\ callerPc[d] \in Registering => ref[d] # ref[c]
  BY <1>3 DEF IInv, RefOK, Registering
<1>5. PubTypes'
  BY <1>1, <1>3 DEF PubInv, PubTypes, pubVars
<1>6. Past'
  BY <1>1, <1>2, <1>3, <1>4 DEF PubInv, Past, Registering, pubVars
<1>7. Reaching'
  BY <1>1, <1>2, ReachingKept DEF PubInv
<1> QED
  BY <1>5, <1>6, <1>7 DEF PubInv

-------------------------------------------------------------------------------
\* The publishers' steps.

\* Of a publisher's step only what it has itself reached is in question.
LEMMA ReachingByPublisher ==
    ASSUME PubInv, NEW p \in Publishers, UNCHANGED <<regVars, callerPc, callVars, live>>,
           \A q \in Publishers : q # p =>
              /\ settledAt'[q] = settledAt[q] /\ pubPc'[q] = pubPc[q] /\ snap'[q] = snap[q]
              /\ pubWild'[q] = pubWild[q] /\ got'[q] = got[q],
           \A r \in settledAt'[p] \cap live :
              /\ Settled(r)
              /\ r.queue = FanOut =>
                   /\ r.pattern \in ExactPatterns => ExactReached(p, r)'
                   /\ r.pattern \in Wildcards => WildReached(p, r)'
    PROVE  Reaching'
<1> SUFFICES ASSUME NEW q \in Publishers, q # p, NEW r \in settledAt[q] \cap live
             PROVE  /\ Settled(r)'
                    /\ r.queue = FanOut =>
                         /\ r.pattern \in ExactPatterns => ExactReached(q, r)'
                         /\ r.pattern \in Wildcards => WildReached(q, r)'
  BY DEF Reaching, Settled, callVars
<1>1. Settled(r) => Settled(r)'
  BY DEF Settled, callVars
<1>2. ExactReached(q, r) => ExactReached(q, r)'
  BY DEF ExactReached
<1>3. WildReached(q, r) => WildReached(q, r)'
  BY DEF WildReached, regVars
<1> QED
  BY <1>1, <1>2, <1>3 DEF PubInv, Reaching

\* A publish that begins takes account of the live.
LEMMA PublishStartPub ==
    ASSUME IInv, PubInv, NEW p \in Publishers, PublishStart(p) PROVE PubInv'
<1>1. /\ got' = [got EXCEPT ![p] = <<>>]
      /\ settledAt' = [settledAt EXCEPT ![p] = {r \in live : Settled(r)}]
      /\ pubPc' = [pubPc EXCEPT ![p] = "exact"]
      /\ UNCHANGED <<regVars, callerPc, callVars, stopped, live, snap, pubWild>>
  BY DEF PublishStart, PubGoto
<1>2. /\ pubPc'[p] = "exact" /\ settledAt'[p] = {r \in live : Settled(r)}
      /\ \A q \in Publishers : q # p =>
            settledAt'[q] = settledAt[q] /\ pubPc'[q] = pubPc[q] /\ got'[q] = got[q]
  BY <1>1 DEF PubInv, PubTypes
<1>3. PubTypes'
  BY <1>1 DEF PubInv, PubTypes, PubPcs, IInv, Types
<1>4. Past'
  BY <1>1, <1>2 DEF PubInv, Past, callVars, IInv, RefOK, Registering
<1>5. Reaching'
  BY <1>1, <1>2, ReachingByPublisher DEF ExactReached, WildReached
<1> QED
  BY <1>3, <1>4, <1>5 DEF PubInv

\* What the steps of a publish under way have in common.
Under(p) ==
    /\ UNCHANGED <<regVars, callerPc, callVars, stopped, live, settledAt>>
    /\ \A q \in Publishers : q # p =>
          /\ pubPc'[q] = pubPc[q] /\ snap'[q] = snap[q]
          /\ pubWild'[q] = pubWild[q] /\ got'[q] = got[q]

LEMMA UnderPub ==
    ASSUME PubInv, NEW p \in Publishers, Under(p), PubTypes',
           \A r \in settledAt[p] \cap live :
              r.queue = FanOut =>
                 /\ r.pattern \in ExactPatterns => ExactReached(p, r)'
                 /\ r.pattern \in Wildcards => WildReached(p, r)'
    PROVE  PubInv'
<1>1. Past'
  BY PastKept DEF PubInv, Under, callVars
<1>2. Reaching'
  BY ReachingByPublisher DEF PubInv, Reaching, Under
<1> QED
  BY <1>1, <1>2 DEF PubInv

\* The subject's own entry holds its live subscriptions.
LEMMA LoadExactPub ==
    ASSUME IInv, PubInv, NEW p \in Publishers, LoadExact(p) PROVE PubInv'
<1> DEFINE all == UNION {state[index[q]] : q \in {x \in ExactPatterns : index[x] # NoEntry}}
<1>1. /\ snap' = [snap EXCEPT ![p] = all] /\ pubPc' = [pubPc EXCEPT ![p] = "deliverExact"]
      /\ UNCHANGED <<regVars, callerPc, callVars, stopped, live, pubWild, got, settledAt>>
  BY DEF LoadExact, PubGoto
<1>2. all \subseteq Ref
  BY DEF IInv, Types, Patterns
<1>3. ASSUME NEW r \in live, r.pattern \in ExactPatterns PROVE r \in all
  BY <1>3 DEF IInv, HeldOK, In
<1> HIDE DEF all
<1>4. PubTypes'
  BY <1>1, <1>2 DEF PubInv, PubTypes, PubPcs
<1>5. Under(p) /\ pubPc'[p] = "deliverExact" /\ snap'[p] = all
  BY <1>1 DEF Under, PubInv, PubTypes
<1> QED
  BY <1>3, <1>4, <1>5, UnderPub, Subjects DEF ExactReached, WildReached

\* The list holds the entry of a settled wildcard subscription: nobody is adding it.
LEMMA LoadWildPub ==
    ASSUME IInv, WildInv, PubInv, NEW p \in Publishers, LoadWild(p) PROVE PubInv'
<1>1. /\ pubPc[p] = "wild" /\ pubWild' = [pubWild EXCEPT ![p] = wild]
      /\ pubPc' = [pubPc EXCEPT ![p] = "next"]
      /\ UNCHANGED <<regVars, callerPc, callVars, stopped, live, snap, got, settledAt>>
  BY DEF LoadWild, PubGoto
<1>2. PubTypes'
  BY <1>1 DEF PubInv, PubTypes, PubPcs, WildInv, WildSound
<1>3. /\ Under(p) /\ pubPc'[p] = "next" /\ pubWild'[p] = wild /\ got'[p] = got[p]
      /\ index' = index
  BY <1>1 DEF Under, PubInv, PubTypes, regVars
<1>4. ASSUME NEW r \in settledAt[p] \cap live, r.pattern \in Wildcards
      PROVE  index[r.pattern] \in ToSet(wild)
  <2>1. index[r.pattern] # NoEntry /\ state[index[r.pattern]] # {} /\ r.pattern \in Patterns
    BY RefFields DEF IInv, Types, HeldOK, In
  <2>2. ~At("addWild", index[r.pattern])
    <3> SUFFICES ASSUME NEW c \in Callers, callerPc[c] = "addWild",
                        entry[c] = index[r.pattern]
                 PROVE  FALSE
      BY DEF At
    <3>1. ref[c].pattern \in Patterns /\ index[ref[c].pattern] = index[r.pattern]
      BY DEF WildInv, WildCallers, Patterns
    <3>2. ref[c].pattern = r.pattern
      BY <2>1, <3>1 DEF IInv, IndexOK
    <3> QED
      BY <3>2 DEF PubInv, Reaching, Settled
  <2> QED
    BY <1>4, <2>1, <2>2 DEF WildInv, WildComplete
<1>5. \A r \in settledAt[p] \cap live :
         r.queue = FanOut /\ r.pattern \in ExactPatterns => r \in ToSet(got[p])
  BY <1>1 DEF PubInv, Reaching, ExactReached
<1> QED
  BY <1>2, <1>3, <1>4, <1>5, UnderPub DEF ExactReached, WildReached

\* The entry that leaves the walk is the one whose snapshot is delivered now.
LEMMA NextWildPub ==
    ASSUME IInv, PubInv, NEW p \in Publishers, NextWild(p) PROVE PubInv'
<1> DEFINE first == Head(pubWild[p])
           rest == Tail(pubWild[p])
<1>1. /\ pubPc[p] = "next" /\ pubWild[p] # <<>>
      /\ snap' = [snap EXCEPT ![p] = state[first]]
      /\ pubWild' = [pubWild EXCEPT ![p] = rest]
      /\ pubPc' = [pubPc EXCEPT ![p] = "deliverWild"]
      /\ UNCHANGED <<regVars, callerPc, callVars, stopped, live, got, settledAt>>
  BY DEF NextWild, PubGoto
<1>2. /\ first \in Entries /\ rest \in Seq(Entries)
      /\ \A x \in ToSet(pubWild[p]) : x = first \/ x \in ToSet(rest)
  BY <1>1, HeadOrTail DEF PubInv, PubTypes
<1>3. PubTypes'
  BY <1>1, <1>2 DEF PubInv, PubTypes, PubPcs, IInv, Types
<1>4. /\ Under(p) /\ pubPc'[p] = "deliverWild" /\ snap'[p] = state[first]
      /\ pubWild'[p] = rest /\ got'[p] = got[p] /\ index' = index
  BY <1>1 DEF Under, PubInv, PubTypes, regVars
<1> HIDE DEF first, rest
<1>5. ASSUME NEW r \in settledAt[p] \cap live, r.queue = FanOut
      PROVE  /\ r.pattern \in ExactPatterns => ExactReached(p, r)'
             /\ r.pattern \in Wildcards => WildReached(p, r)'
  <2>1. r.pattern \in ExactPatterns => r \in ToSet(got[p])
    BY <1>1, <1>5 DEF PubInv, Reaching, ExactReached
  <2>2. r.pattern \in Wildcards => r \in ToSet(got[p]) \/ index[r.pattern] \in ToSet(pubWild[p])
    BY <1>1, <1>5 DEF PubInv, Reaching, WildReached
  <2>3. r \in state[index[r.pattern]]
    BY DEF IInv, HeldOK, In
  <2> QED
    BY <1>2, <1>4, <2>1, <2>2, <2>3 DEF ExactReached, WildReached
<1> QED
  BY <1>3, <1>4, <1>5, UnderPub

\* A walk that is over has passed every entry.
LEMMA PublishReturnsPub ==
    ASSUME IInv, PubInv, NEW p \in Publishers, PublishReturns(p) PROVE PubInv'
<1>1. /\ pubPc[p] = "next" /\ pubWild[p] = <<>> /\ pubPc' = [pubPc EXCEPT ![p] = "done"]
      /\ UNCHANGED <<regVars, callerPc, callVars, stopped, live, snap, pubWild, got, settledAt>>
  BY DEF PublishReturns, PubGoto
<1>2. PubTypes'
  BY <1>1 DEF PubInv, PubTypes, PubPcs
<1>3. Under(p) /\ pubPc'[p] = "done"
  BY <1>1 DEF Under, PubInv, PubTypes
<1>4. ToSet(pubWild[p]) = {}
  BY <1>1 DEF ToSet
<1>5. \A r \in settledAt[p] \cap live : r.queue = FanOut =>
         /\ r.pattern \in ExactPatterns => r \in ToSet(got[p])
         /\ r.pattern \in Wildcards => r \in ToSet(got[p])
  BY <1>1, <1>4 DEF PubInv, Reaching, ExactReached, WildReached
<1> QED
  BY <1>1, <1>2, <1>3, <1>5, UnderPub DEF ExactReached, WildReached

\* A reference leaves the snapshot for what is reached, unless it is stopped; what
\* a queue group drops is no plain subscription.
LEMMA DeliverPub ==
    ASSUME IInv, PubInv, NEW p \in Publishers, Deliver(p) PROVE PubInv'
<1>1. /\ pubPc[p] \in {"deliverExact", "deliverWild"}
      /\ UNCHANGED <<regVars, callerPc, callVars, stopped, live, pubPc, pubWild, settledAt>>
  BY DEF Deliver
<1>2. PICK r \in snap[p] :
        /\ got' = IF r \in stopped THEN got ELSE [got EXCEPT ![p] = Append(@, r)]
        /\ \/ r.queue = FanOut /\ snap' = [snap EXCEPT ![p] = @ \ {r}]
           \/ /\ \A x \in snap[p] : x.queue # FanOut
              /\ snap' = [snap EXCEPT ![p] = {x \in @ : x.queue # r.queue}]
  BY DEF Deliver, Enqueue
<1>3. r \in Ref /\ got[p] \in Seq(Ref) /\ Append(got[p], r) \in Seq(Ref)
  BY DEF PubInv, PubTypes
<1>4. ToSet(Append(got[p], r)) = ToSet(got[p]) \cup {r}
  BY <1>3, AppendElements
<1>5. /\ got'[p] \in Seq(Ref)
      /\ ToSet(got[p]) \subseteq ToSet(got'[p])
      /\ r \notin stopped => r \in ToSet(got'[p])
      /\ got' \in [Publishers -> Seq(Ref)]
      /\ \A q \in Publishers : q # p => got'[q] = got[q]
  <2>1. CASE r \in stopped
    BY <1>2, <1>3, <2>1 DEF PubInv, PubTypes
  <2>2. CASE r \notin stopped
    <3>1. got' = [got EXCEPT ![p] = Append(got[p], r)]
      BY <1>2, <2>2
    <3>2. got'[p] = Append(got[p], r)
      BY <3>1 DEF PubInv, PubTypes
    <3>3. \A q \in Publishers : q # p => got'[q] = got[q]
      BY <3>1 DEF PubInv, PubTypes
    <3>4. got' \in [Publishers -> Seq(Ref)]
      BY <1>3, <3>1 DEF PubInv, PubTypes
    <3> QED
      BY <1>3, <1>4, <3>2, <3>3, <3>4
  <2> QED
    BY <2>1, <2>2
<1>6. /\ snap' \in [Publishers -> SUBSET Ref]
      /\ \A x \in snap[p] : x.queue = FanOut => x = r \/ x \in snap'[p]
      /\ \A q \in Publishers : q # p => snap'[q] = snap[q]
  BY <1>2 DEF PubInv, PubTypes
<1>7. PubTypes'
  BY <1>1, <1>5, <1>6 DEF PubInv, PubTypes
<1>8. Under(p) /\ index' = index
  BY <1>1, <1>5, <1>6 DEF Under, regVars
<1>9. ASSUME NEW x \in settledAt[p] \cap live, x.queue = FanOut
      PROVE  /\ x.pattern \in ExactPatterns => ExactReached(p, x)'
             /\ x.pattern \in Wildcards => WildReached(p, x)'
  <2>1. x \in snap[p] => x \in snap'[p] \/ x \in ToSet(got'[p])
    BY <1>5, <1>6, <1>9 DEF PubInv, Past
  <2>2. x.pattern \in ExactPatterns => ExactReached(p, x)
    BY <1>9 DEF PubInv, Reaching
  <2>3. x.pattern \in Wildcards => WildReached(p, x)
    BY <1>9 DEF PubInv, Reaching
  <2>4. pubPc'[p] = pubPc[p] /\ pubWild'[p] = pubWild[p]
    BY <1>1
  <2> QED
    BY <1>1, <1>5, <1>8, <2>1, <2>2, <2>3, <2>4 DEF ExactReached, WildReached
<1> QED
  BY <1>7, <1>8, <1>9, UnderPub

\* A snapshot that is used up has been reached, all of it.
LEMMA DeliveredPub ==
    ASSUME IInv, PubInv, NEW p \in Publishers, Delivered(p) PROVE PubInv'
<1>1. /\ pubPc[p] \in {"deliverExact", "deliverWild"} /\ snap[p] = {}
      /\ UNCHANGED <<regVars, callerPc, callVars, stopped, live, snap, pubWild, got, settledAt>>
  BY DEF Delivered
<1>2. PICK a \in {"wild", "next"} :
        /\ pubPc' = [pubPc EXCEPT ![p] = a]
        /\ a = "next" => pubPc[p] = "deliverWild"
  BY DEF Delivered, PubGoto
<1>3. PubTypes'
  BY <1>1, <1>2 DEF PubInv, PubTypes, PubPcs
<1>4. Under(p) /\ pubPc'[p] = a /\ index' = index
  BY <1>1, <1>2 DEF Under, PubInv, PubTypes, regVars
<1>5. \A r \in settledAt[p] \cap live : r.queue = FanOut =>
         /\ r.pattern \in ExactPatterns => r \in ToSet(got[p])
         /\ r.pattern \in Wildcards /\ a = "next" =>
               r \in ToSet(got[p]) \/ index[r.pattern] \in ToSet(pubWild[p])
  BY <1>1, <1>2 DEF PubInv, Reaching, ExactReached, WildReached
<1> QED
  BY <1>1, <1>2, <1>3, <1>4, <1>5, UnderPub DEF ExactReached, WildReached

\* A publish that fails claims nothing.
LEMMA EnqueueFailsPub ==
    ASSUME IInv, PubInv, NEW p \in Publishers, EnqueueFails(p) PROVE PubInv'
<1>1. /\ snap' = [snap EXCEPT ![p] = {}] /\ pubWild' = [pubWild EXCEPT ![p] = <<>>]
      /\ pubPc' = [pubPc EXCEPT ![p] = "failed"]
      /\ UNCHANGED <<regVars, callerPc, callVars, stopped, live, got, settledAt>>
  BY DEF EnqueueFails, PubGoto
<1>2. PubTypes'
  BY <1>1 DEF PubInv, PubTypes, PubPcs
<1>3. Under(p) /\ pubPc'[p] = "failed"
  BY <1>1 DEF Under, PubInv, PubTypes
<1> QED
  BY <1>2, <1>3, UnderPub DEF ExactReached, WildReached

LEMMA NextPubInv == IInv /\ IInv' /\ WildInv /\ PubInv /\ [Next]_vars => PubInv'
<1> SUFFICES ASSUME IInv, IInv', WildInv, PubInv, [Next]_vars PROVE PubInv'
  OBVIOUS
<1>1. ASSUME NEW c \in Callers, NEW p \in Patterns, NEW q \in Groups \cup {FanOut},
             SubscribeStart(c, p, q)
      PROVE  PubInv'
  BY <1>1, SubscribeStartPub
<1>2. ASSUME NEW c \in Callers,
             \/ Lookup(c) \/ Insert(c) \/ AddWild(c) \/ SubscribeReturns(c)
             \/ UnsubStart(c) \/ Find(c) \/ RemoveRef(c) \/ RemoveWild(c) \/ StopWorker(c)
      PROVE  PubInv'
  BY <1>2, RegistryPub, SubscribeReturnsPub, UnsubStartPub, StopWorkerPub
<1>3. ASSUME NEW p \in Publishers,
             \/ PublishStart(p) \/ LoadExact(p) \/ LoadWild(p) \/ NextWild(p)
             \/ PublishReturns(p) \/ Deliver(p) \/ Delivered(p) \/ EnqueueFails(p)
      PROVE  PubInv'
  BY <1>3, PublishStartPub, LoadExactPub, LoadWildPub, NextWildPub, PublishReturnsPub,
     DeliverPub, DeliveredPub, EnqueueFailsPub
<1>4. CASE UNCHANGED vars
  <2>1. UNCHANGED <<regVars, callerPc, callVars, stopped, live, pubVars>>
    BY <1>4 DEF vars
  <2>2. PubTypes'
    BY <2>1 DEF PubInv, PubTypes, pubVars
  <2>3. Past'
    BY <2>1, PastKept DEF PubInv, callVars, pubVars
  <2>4. Reaching'
    BY <2>1, ReachingKept DEF PubInv, callVars, regVars
  <2> QED
    BY <2>2, <2>3, <2>4 DEF PubInv
<1> QED
  BY <1>1, <1>2, <1>3, <1>4 DEF Next

LEMMA PubInvariant == Spec => []PubInv
  BY PubInit, NextPubInv, Invariant, WildInvariant, PTL DEF Spec

\* A Publish that succeeds has reached every plain subscription that was settled
\* when it began and is live still, whatever was registered and removed under it.
THEOREM SettledIsReached == Spec => []SettledReached
<1>1. IInv /\ PubInv => SettledReached
  <2> SUFFICES ASSUME IInv, PubInv, NEW p \in Publishers, NEW r \in settledAt[p] \cap live,
                      pubPc[p] = "done", r.queue = FanOut
               PROVE  r \in ToSet(got[p])
    BY DEF SettledReached
  <2>1. r.pattern \in ExactPatterns \cup Wildcards
    BY RefFields DEF IInv, Types, Patterns
  <2> QED
    BY <2>1 DEF PubInv, Reaching, ExactReached, WildReached
<1> QED
  BY <1>1, Invariant, PubInvariant, PTL

(***************************************************************************)
(* A publish meets each subscription once, and one member of each queue    *)
(* group of a pattern.                                                     *)
(***************************************************************************)

\* Two references of which one publish may reach only one.
Rivals(a, b) ==
    a = b \/ (a.pattern = b.pattern /\ a.queue = b.queue /\ a.queue # FanOut)

Delivering == {"deliverExact", "deliverWild"}

\* What a publish has reached or is about to.
Met(p) == ToSet(got[p]) \cup (IF pubPc[p] \in Delivering THEN snap[p] ELSE {})

\* An entry with a reference in it is in the index.
Indexed == \A e \in Entries : state[e] # {} => \E q \in Patterns : index[q] = e

\* Before the wildcards only subscriptions of the subject itself are met.
FromExact(p) ==
    /\ pubPc[p] = "exact" => got[p] = <<>>
    /\ pubPc[p] \in {"exact", "deliverExact", "wild"} =>
          \A r \in Met(p) : r.pattern \in ExactPatterns

\* No entry still ahead is the one of a pattern met before: the list a publish
\* has loaded may hold an entry that is dying and its successor, but only one of
\* them was alive then, and what is created later is not in it.
Ahead(p) ==
    pubPc[p] \in {"next", "deliverWild"} =>
        /\ IsInjective(pubWild[p])
        /\ \A e \in ToSet(pubWild[p]) :
              /\ e <= created
              /\ \A q \in Patterns : index[q] = e => \A r \in Met(p) : q # r.pattern

Apart(p) ==
    pubPc[p] \in Delivering => \A r \in ToSet(got[p]), x \in snap[p] : ~Rivals(x, r)

Single(p) == \A i, j \in DOMAIN got[p] : i # j => ~Rivals(got[p][i], got[p][j])

OnceOf(p) == FromExact(p) /\ Ahead(p) /\ Apart(p) /\ Single(p)
Once == \A p \in Publishers : OnceOf(p)

LEMMA OnceInit == Init => Indexed /\ Once
<1> SUFFICES ASSUME Init PROVE Indexed /\ Once
  OBVIOUS
<1>1. Indexed
  BY DEF Init, Indexed
<1>2. ASSUME NEW p \in Publishers PROVE OnceOf(p)
  <2>1. got[p] = <<>> /\ pubPc[p] = "idle"
    BY DEF Init
  <2> QED
    BY <2>1 DEF OnceOf, FromExact, Ahead, Apart, Single, Delivering
<1> QED
  BY <1>1, <1>2 DEF Once

\* What the steps of callers do to the index.
LEMMA IndexStep ==
    ASSUME IInv, NEW c \in Callers,
           \/ \E p \in Patterns, q \in Groups \cup {FanOut} : SubscribeStart(c, p, q)
           \/ Lookup(c) \/ Insert(c) \/ AddWild(c) \/ SubscribeReturns(c)
           \/ UnsubStart(c) \/ Find(c) \/ RemoveRef(c) \/ RemoveWild(c) \/ StopWorker(c)
    PROVE  /\ created \in Nat /\ created' \in Nat /\ created <= created'
           /\ \A q \in Patterns : index'[q] \in {index[q], NoEntry, created + 1}
           /\ UNCHANGED pubVars
<1>1. created \in Nat /\ index \in [Patterns -> Entries \cup {NoEntry}]
  BY Bounds DEF IInv, Types
<1>2. CASE UNCHANGED <<index, created, pubVars>>
  BY <1>1, <1>2
<1>3. CASE Lookup(c)
  BY <1>1, <1>3 DEF Lookup
<1>4. CASE RemoveRef(c)
  BY <1>1, <1>4 DEF RemoveRef
<1> QED
  BY <1>2, <1>3, <1>4 DEF SubscribeStart, Insert, AddWild, SubscribeReturns, UnsubStart,
     Find, RemoveWild, StopWorker, regVars

LEMMA CallerOnce ==
    ASSUME PubTypes, Once, created \in Nat, created' \in Nat, created <= created',
           \A q \in Patterns : index'[q] \in {index[q], NoEntry, created + 1},
           UNCHANGED pubVars
    PROVE  Once'
<1> SUFFICES ASSUME NEW p \in Publishers PROVE OnceOf(p)'
  BY DEF Once
<1>1. /\ pubPc'[p] = pubPc[p] /\ snap'[p] = snap[p] /\ pubWild'[p] = pubWild[p]
      /\ got'[p] = got[p] /\ Met(p)' = Met(p)
  BY DEF pubVars, Met
<1>2. OnceOf(p)
  BY DEF Once
<1>3. (FromExact(p) /\ Apart(p) /\ Single(p))'
  BY <1>1, <1>2 DEF OnceOf, FromExact, Apart, Single
<1>4. ASSUME NEW e \in ToSet(pubWild[p]), e <= created
      PROVE  /\ e <= created'
             /\ \A q \in Patterns : index'[q] = e => index[q] = e
  <2>1. e \in Entries
    BY DEF PubTypes, ToSet
  <2> QED
    BY <1>4, <2>1, NoSuch DEF Entries
<1>5. Ahead(p)'
  BY <1>1, <1>2, <1>4 DEF OnceOf, Ahead
<1> QED
  BY <1>3, <1>5 DEF OnceOf

\* An entry leaves the index when its last reference does.
LEMMA IndexedStep ==
    ASSUME IInv, IInv', Indexed, NEW c \in Callers,
           Lookup(c) \/ Insert(c) \/ RemoveRef(c)
    PROVE  Indexed'
<1>1. CASE Lookup(c)
  <2>1. state' = state
        /\ \A q \in Patterns : index[q] # NoEntry => index'[q] = index[q]
    BY <1>1 DEF Lookup, IInv, Types
  <2> QED
    BY <2>1, NoSuch DEF Indexed
<1>2. CASE Insert(c)
  <2>1. CASE dead[entry[c]]
    BY <1>2, <2>1 DEF Insert, Indexed
  <2>2. CASE ~dead[entry[c]]
    <3>1. /\ state' = [state EXCEPT ![entry[c]] = CloneAdd(@, ref[c])] /\ index' = index
          /\ entry[c] = index[ref[c].pattern] /\ ref[c].pattern \in Patterns
      BY <1>2, <2>2, RefFields DEF Insert, IInv, EntryOK, Types, RefOK
    <3>2. \A e \in Entries : e # entry[c] => state'[e] = state[e]
      BY <3>1 DEF IInv, Types
    <3> QED
      BY <3>1, <3>2 DEF Indexed
  <2> QED
    BY <2>1, <2>2
<1>3. CASE RemoveRef(c)
  <2> DEFINE e == entry[c]
             left == state[e] \ {ref[c]}
  <2>1. /\ state' = [state EXCEPT ![e] = left]
        /\ e = index[ref[c].pattern] /\ e # NoEntry /\ ref[c].pattern \in Patterns
    BY <1>3, RefFields DEF RemoveRef, CloneRemove, IInv, EntryOK, HeldOK, Holding, In, Types,
       RefOK
  <2>2. \/ left # {} /\ index' = index
        \/ left = {} /\ index' = [index EXCEPT ![ref[c].pattern] = NoEntry]
    BY <1>3 DEF RemoveRef, CloneRemove
  <2>3. e \in Entries /\ state'[e] = left /\ \A f \in Entries : f # e => state'[f] = state[f]
    BY <2>1 DEF IInv, Types
  <2> SUFFICES ASSUME NEW f \in Entries, state'[f] # {}
               PROVE  \E q \in Patterns : index'[q] = f
    BY DEF Indexed
  <2>4. PICK q \in Patterns : index[q] = f
    BY <2>3 DEF Indexed
  <2>5. left = {} => q # ref[c].pattern
    BY <2>1, <2>3, <2>4
  <2>6. index'[q] = f
    BY <2>2, <2>4, <2>5 DEF IInv, Types
  <2> QED
    BY <2>6
<1> QED
  BY <1>1, <1>2, <1>3

-------------------------------------------------------------------------------
\* Of a publisher's step, only its own publish is in question.
LEMMA OnceByPublisher ==
    ASSUME Once, NEW p \in Publishers, UNCHANGED regVars,
           \A q \in Publishers : q # p =>
              /\ pubPc'[q] = pubPc[q] /\ snap'[q] = snap[q]
              /\ pubWild'[q] = pubWild[q] /\ got'[q] = got[q],
           OnceOf(p)'
    PROVE  Once'
<1> SUFFICES ASSUME NEW q \in Publishers, q # p PROVE OnceOf(q)'
  BY DEF Once
<1>1. /\ pubPc'[q] = pubPc[q] /\ snap'[q] = snap[q] /\ pubWild'[q] = pubWild[q]
      /\ got'[q] = got[q] /\ Met(q)' = Met(q) /\ index' = index /\ created' = created
  BY DEF Met, regVars
<1>2. OnceOf(q)
  BY DEF Once
<1> QED
  BY <1>1, <1>2 DEF OnceOf, FromExact, Ahead, Apart, Single

LEMMA PublishStartOnce ==
    ASSUME PubTypes, Once, NEW p \in Publishers, PublishStart(p) PROVE Once'
<1>1. /\ got' = [got EXCEPT ![p] = <<>>] /\ pubPc' = [pubPc EXCEPT ![p] = "exact"]
      /\ UNCHANGED <<regVars, snap, pubWild>>
  BY DEF PublishStart, PubGoto
<1>2. /\ got'[p] = <<>> /\ pubPc'[p] = "exact"
      /\ \A q \in Publishers : q # p => pubPc'[q] = pubPc[q] /\ got'[q] = got[q]
  BY <1>1 DEF PubTypes
<1>3. OnceOf(p)'
  BY <1>2 DEF OnceOf, FromExact, Ahead, Apart, Single, Met, Delivering, ToSet
<1> QED
  BY <1>1, <1>2, <1>3, OnceByPublisher

LEMMA LoadExactOnce ==
    ASSUME IInv, PubTypes, Once, NEW p \in Publishers, LoadExact(p) PROVE Once'
<1> DEFINE all == UNION {state[index[q]] : q \in {x \in ExactPatterns : index[x] # NoEntry}}
<1>1. /\ pubPc[p] = "exact" /\ snap' = [snap EXCEPT ![p] = all]
      /\ pubPc' = [pubPc EXCEPT ![p] = "deliverExact"]
      /\ UNCHANGED <<regVars, pubWild, got>>
  BY DEF LoadExact, PubGoto
<1>2. \A r \in all : r.pattern \in ExactPatterns
  BY DEF IInv, IndexOK, Patterns
<1> HIDE DEF all
<1>3. /\ pubPc'[p] = "deliverExact" /\ snap'[p] = all /\ got'[p] = got[p] /\ got[p] = <<>>
      /\ \A q \in Publishers : q # p => pubPc'[q] = pubPc[q] /\ snap'[q] = snap[q]
  BY <1>1 DEF PubTypes, Once, OnceOf, FromExact
<1>4. OnceOf(p)'
  BY <1>2, <1>3 DEF OnceOf, FromExact, Ahead, Apart, Single, Met, Delivering, ToSet
<1> QED
  BY <1>1, <1>3, <1>4, OnceByPublisher

\* The list has one living entry of a pattern at most, of a wildcard, and nothing
\* that is not created yet.
LEMMA LoadWildOnce ==
    ASSUME IInv, WildInv, PubTypes, Once, NEW p \in Publishers, LoadWild(p) PROVE Once'
<1>1. /\ pubPc[p] = "wild" /\ pubWild' = [pubWild EXCEPT ![p] = wild]
      /\ pubPc' = [pubPc EXCEPT ![p] = "next"]
      /\ UNCHANGED <<regVars, snap, got>>
  BY DEF LoadWild, PubGoto
<1>2. /\ pubPc'[p] = "next" /\ pubWild'[p] = wild /\ got'[p] = got[p]
      /\ Met(p)' = ToSet(got[p]) /\ Met(p) = ToSet(got[p])
      /\ index' = index /\ created' = created
      /\ \A q \in Publishers : q # p => pubPc'[q] = pubPc[q] /\ pubWild'[q] = pubWild[q]
  BY <1>1 DEF PubTypes, Met, Delivering, regVars
<1>3. OnceOf(p) /\ \A r \in ToSet(got[p]) : r.pattern \in ExactPatterns
  BY <1>1, <1>2 DEF Once, OnceOf, FromExact
<1>4. ASSUME NEW e \in ToSet(wild)
      PROVE  /\ e <= created
             /\ \A q \in Patterns : index[q] = e => q \in Wildcards
  <2>1. e \in Entries /\ created \in Nat
    BY Bounds DEF WildInv, WildSound, ToSet, IInv, Types
  <2>2. CASE \E w \in Wildcards : index[w] = e
    BY <2>1, <2>2, NoSuch DEF IInv, IndexOK, Patterns
  <2>3. CASE At("removeWild", e)
    <3>1. dead[e]
      BY <2>3 DEF At, WildInv, WildCallers
    <3>2. e <= created
      BY <2>1, <3>1 DEF IInv, IndexOK, Entries
    <3>3. \A q \in Patterns : index[q] # e
      BY <2>1, <3>1, NoSuch DEF IInv, IndexOK
    <3> QED
      BY <3>2, <3>3
  <2> QED
    BY <2>2, <2>3 DEF WildInv, WildSound
<1>5. Ahead(p)'
  BY <1>2, <1>3, <1>4, Subjects DEF Ahead, WildInv, WildSound
<1>6. (FromExact(p) /\ Apart(p) /\ Single(p))'
  BY <1>2, <1>3 DEF OnceOf, FromExact, Apart, Single, Delivering
<1> QED
  BY <1>1, <1>2, <1>5, <1>6, OnceByPublisher DEF OnceOf

\* What is met next has a pattern of its own, and so has what is ahead.
LEMMA NextWildOnce ==
    ASSUME IInv, Indexed, PubTypes, Once, NEW p \in Publishers, NextWild(p) PROVE Once'
<1> DEFINE first == Head(pubWild[p])
           rest == Tail(pubWild[p])
<1>1. /\ pubPc[p] = "next" /\ pubWild[p] # <<>>
      /\ snap' = [snap EXCEPT ![p] = state[first]]
      /\ pubWild' = [pubWild EXCEPT ![p] = rest]
      /\ pubPc' = [pubPc EXCEPT ![p] = "deliverWild"]
      /\ UNCHANGED <<regVars, got>>
  BY DEF NextWild, PubGoto
<1>2. OnceOf(p) /\ pubWild[p] \in Seq(Entries) /\ IsInjective(pubWild[p])
  BY <1>1 DEF Once, OnceOf, Ahead, PubTypes
<1>3. /\ first \in Entries /\ first \in ToSet(pubWild[p]) /\ first \notin ToSet(rest)
      /\ ToSet(rest) \subseteq ToSet(pubWild[p]) /\ ToSet(rest) \subseteq Entries
      /\ IsInjective(rest)
  BY <1>1, <1>2, TailElements
<1>4. /\ pubPc'[p] = "deliverWild" /\ snap'[p] = state[first] /\ pubWild'[p] = rest
      /\ got'[p] = got[p] /\ index' = index /\ created' = created
      /\ Met(p) = ToSet(got[p]) /\ Met(p)' = ToSet(got[p]) \cup state[first]
      /\ \A q \in Publishers : q # p =>
           pubPc'[q] = pubPc[q] /\ snap'[q] = snap[q] /\ pubWild'[q] = pubWild[q]
  BY <1>1 DEF PubTypes, Met, Delivering, regVars
<1> HIDE DEF first, rest
<1>5. ASSUME NEW x \in state[first] PROVE x.pattern \in Patterns /\ index[x.pattern] = first
  BY <1>3, NoSuch DEF Indexed, IInv, IndexOK
<1>6. ASSUME NEW x \in state[first], NEW r \in ToSet(got[p]) PROVE x.pattern # r.pattern
  BY <1>1, <1>2, <1>3, <1>4, <1>5 DEF OnceOf, Ahead
<1>7. Ahead(p)'
  <2> SUFFICES ASSUME NEW e \in ToSet(rest)
               PROVE  /\ e <= created
                      /\ \A q \in Patterns : index[q] = e =>
                           \A r \in ToSet(got[p]) \cup state[first] : q # r.pattern
    BY <1>3, <1>4 DEF Ahead
  <2>1. /\ e \in ToSet(pubWild[p]) /\ e # first
    BY <1>3
  <2> QED
    BY <1>1, <1>2, <1>4, <1>5, <2>1 DEF OnceOf, Ahead
<1>8. (FromExact(p) /\ Apart(p) /\ Single(p))'
  BY <1>2, <1>4, <1>6 DEF OnceOf, FromExact, Apart, Single, Rivals
<1> QED
  BY <1>1, <1>4, <1>7, <1>8, OnceByPublisher DEF OnceOf

\* What is reached leaves the snapshot with all its rivals.
LEMMA DeliverOnce ==
    ASSUME PubTypes, Once, NEW p \in Publishers, Deliver(p) PROVE Once'
<1>1. /\ pubPc[p] \in Delivering /\ UNCHANGED <<regVars, pubPc, pubWild>>
  BY DEF Deliver, Delivering
<1>2. PICK r \in snap[p] :
        /\ got' = IF r \in stopped THEN got ELSE [got EXCEPT ![p] = Append(@, r)]
        /\ \/ r.queue = FanOut /\ snap' = [snap EXCEPT ![p] = @ \ {r}]
           \/ r.queue # FanOut
              /\ snap' = [snap EXCEPT ![p] = {x \in @ : x.queue # r.queue}]
  BY DEF Deliver, Enqueue
<1>3. /\ snap'[p] \subseteq snap[p] /\ \A x \in snap'[p] : ~Rivals(x, r)
      /\ \A q \in Publishers : q # p => snap'[q] = snap[q]
  BY <1>2 DEF PubTypes, Rivals
<1>4. OnceOf(p) /\ got[p] \in Seq(Ref) /\ r \in Ref
  BY DEF Once, PubTypes
<1>5. /\ got'[p] = got[p] \/ got'[p] = Append(got[p], r)
      /\ \A q \in Publishers : q # p => got'[q] = got[q]
  <2>1. CASE r \in stopped
    BY <1>2, <2>1
  <2>2. CASE r \notin stopped
    <3>1. got' = [got EXCEPT ![p] = Append(got[p], r)]
      BY <1>2, <2>2
    <3> QED
      BY <3>1 DEF PubTypes
  <2> QED
    BY <2>1, <2>2
<1>6. ToSet(got'[p]) \subseteq ToSet(got[p]) \cup {r}
  <2>1. ToSet(Append(got[p], r)) = ToSet(got[p]) \cup {r}
    BY <1>4, AppendElements
  <2> QED
    BY <1>5, <2>1
<1>7. Met(p)' \subseteq Met(p) /\ pubPc'[p] = pubPc[p] /\ pubWild'[p] = pubWild[p]
      /\ index' = index /\ created' = created
  BY <1>1, <1>3, <1>6 DEF Met, regVars
<1>8. (FromExact(p) /\ Ahead(p))'
  BY <1>1, <1>4, <1>7 DEF OnceOf, FromExact, Ahead, Delivering
<1>9. Apart(p)'
  BY <1>1, <1>3, <1>4, <1>6 DEF OnceOf, Apart
<1>10. Single(p)'
  <2>1. CASE got'[p] = got[p]
    BY <1>4, <2>1 DEF OnceOf, Single
  <2>2. CASE got'[p] = Append(got[p], r)
    <3>1. /\ Len(got[p]) \in Nat /\ DOMAIN got[p] = 1..Len(got[p])
          /\ DOMAIN got'[p] = 1..(Len(got[p]) + 1)
          /\ got'[p][Len(got[p]) + 1] = r
          /\ \A i \in 1..Len(got[p]) : got'[p][i] = got[p][i]
      BY <1>4, <2>2
    <3>2. \A i \in DOMAIN got[p] : ~Rivals(r, got[p][i])
      BY <1>1, <1>4 DEF OnceOf, Apart, ToSet
    <3>3. \A i \in DOMAIN got[p] : ~Rivals(got[p][i], r)
      BY <3>2 DEF Rivals
    <3> SUFFICES ASSUME NEW i \in DOMAIN got'[p], NEW j \in DOMAIN got'[p], i # j
                 PROVE  ~Rivals(got'[p][i], got'[p][j])
      BY DEF Single
    <3>4. /\ i \in DOMAIN got[p] \/ i = Len(got[p]) + 1
          /\ j \in DOMAIN got[p] \/ j = Len(got[p]) + 1
      BY <3>1
    <3>5. i \in DOMAIN got[p] /\ j \in DOMAIN got[p] => ~Rivals(got[p][i], got[p][j])
      BY <1>4 DEF OnceOf, Single
    <3> QED
      BY <3>1, <3>2, <3>3, <3>4, <3>5
  <2> QED
    BY <1>5, <2>1, <2>2
<1> QED
  BY <1>1, <1>3, <1>5, <1>8, <1>9, <1>10, OnceByPublisher DEF OnceOf

\* Steps on which a publish only moves on.
LEMMA MoveOnce ==
    ASSUME PubTypes, Once, NEW p \in Publishers,
           PublishReturns(p) \/ Delivered(p) \/ EnqueueFails(p)
    PROVE  Once'
<1>1. PICK a \in {"done", "wild", "next", "failed"} :
        /\ pubPc' = [pubPc EXCEPT ![p] = a]
        /\ a = "wild" => pubPc[p] = "deliverExact"
        /\ a = "next" => pubPc[p] = "deliverWild" /\ UNCHANGED pubWild
        /\ UNCHANGED <<regVars, got>>
  BY DEF PublishReturns, Delivered, EnqueueFails, PubGoto
<1>2. /\ pubPc'[p] = a /\ got'[p] = got[p]
      /\ \A q \in Publishers : q # p =>
           pubPc'[q] = pubPc[q] /\ snap'[q] = snap[q] /\ pubWild'[q] = pubWild[q]
  BY <1>1 DEF PubTypes, PublishReturns, Delivered, EnqueueFails
<1>3. OnceOf(p) /\ Met(p)' = ToSet(got[p]) /\ ToSet(got[p]) \subseteq Met(p)
      /\ index' = index /\ created' = created
  BY <1>1, <1>2 DEF Once, Met, Delivering, regVars
<1>4. OnceOf(p)'
  BY <1>1, <1>2, <1>3 DEF OnceOf, FromExact, Ahead, Apart, Single, Delivering
<1> QED
  BY <1>1, <1>2, <1>4, OnceByPublisher

LEMMA NextOnce ==
    IInv /\ IInv' /\ WildInv /\ PubInv /\ Indexed /\ Once /\ [Next]_vars => Indexed' /\ Once'
<1> SUFFICES ASSUME IInv, IInv', WildInv, PubInv, Indexed, Once, [Next]_vars
             PROVE  Indexed' /\ Once'
  OBVIOUS
<1> USE DEF PubInv
<1>1. Indexed'
  <2>1. ASSUME NEW c \in Callers, Lookup(c) \/ Insert(c) \/ RemoveRef(c) PROVE Indexed'
    BY <2>1, IndexedStep
  <2>2. CASE UNCHANGED <<index, state>>
    BY <2>2 DEF Indexed
  <2>3. \/ UNCHANGED <<index, state>>
        \/ \E c \in Callers : Lookup(c) \/ Insert(c) \/ RemoveRef(c)
    BY DEF Next, vars, regVars, SubscribeStart, AddWild, SubscribeReturns, UnsubStart,
       Find, RemoveWild, StopWorker, PublishStart, LoadExact, LoadWild, NextWild,
       PublishReturns, Deliver, Delivered, EnqueueFails
  <2> QED
    BY <2>1, <2>2, <2>3
<1>2. ASSUME NEW c \in Callers,
             \/ \E p \in Patterns, q \in Groups \cup {FanOut} : SubscribeStart(c, p, q)
             \/ Lookup(c) \/ Insert(c) \/ AddWild(c) \/ SubscribeReturns(c)
             \/ UnsubStart(c) \/ Find(c) \/ RemoveRef(c) \/ RemoveWild(c) \/ StopWorker(c)
      PROVE  Once'
  <2>1. /\ created \in Nat /\ created' \in Nat /\ created <= created'
        /\ \A q \in Patterns : index'[q] \in {index[q], NoEntry, created + 1}
        /\ UNCHANGED pubVars
    BY <1>2, IndexStep
  <2> QED
    BY <2>1, CallerOnce
<1>3. ASSUME NEW p \in Publishers,
             \/ PublishStart(p) \/ LoadExact(p) \/ LoadWild(p) \/ NextWild(p)
             \/ PublishReturns(p) \/ Deliver(p) \/ Delivered(p) \/ EnqueueFails(p)
      PROVE  Once'
  BY <1>3, PublishStartOnce, LoadExactOnce, LoadWildOnce, NextWildOnce, DeliverOnce, MoveOnce
<1>4. CASE UNCHANGED vars
  <2>1. UNCHANGED <<index, created, pubVars>> /\ created \in Nat
    BY <1>4, Bounds DEF vars, regVars, IInv, Types
  <2>2. /\ created \in Nat /\ created' \in Nat /\ created <= created'
        /\ UNCHANGED pubVars
        /\ \A q \in Patterns : index'[q] \in {index[q], NoEntry, created + 1}
    BY <2>1
  <2> QED
    BY <1>1, <2>2, CallerOnce
<1> QED
  BY <1>1, <1>2, <1>3, <1>4 DEF Next

\* No Publish reaches a subscription twice, nor two members of a queue group, even
\* when it meets an entry that dies and the one that takes its place.
THEOREM OnceCorrect == Spec => []AtMostOnce
<1>1. Once => AtMostOnce
  BY DEF Once, OnceOf, Single, Rivals, AtMostOnce
<1>2. Spec => [](Indexed /\ Once)
  BY OnceInit, NextOnce, Invariant, WildInvariant, PubInvariant, PTL DEF Spec
<1> QED
  BY <1>1, <1>2, PTL
===============================================================================

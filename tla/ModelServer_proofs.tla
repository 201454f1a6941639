------------------------- MODULE ModelServer_proofs -------------------------
(* The server's slots and models are held, given back and remembered as    *)
(* they should be, for any number of requests, models and slots.           *)
EXTENDS ModelServer, SequenceTheorems, FiniteSetTheorems, TLAPS

-----------------------------------------------------------------------------
(* Sequences without one of their elements, or with one more.              *)

LEMMA RemoveAtFacts ==
  ASSUME NEW S, NEW s \in Seq(S), NEW n \in DOMAIN s
  PROVE  /\ RemoveAt(s, n) \in Seq(S)
         /\ Len(RemoveAt(s, n)) = Len(s) - 1
         /\ \A i \in 1..(Len(s) - 1) : RemoveAt(s, n)[i] = IF i < n THEN s[i] ELSE s[i + 1]
<1>1. n \in 1..Len(s) /\ Len(s) \in Nat
  OBVIOUS
<1>2. /\ SubSeq(s, 1, n - 1) \in Seq(S)
      /\ Len(SubSeq(s, 1, n - 1)) = n - 1
      /\ \A i \in 1..(n - 1) : SubSeq(s, 1, n - 1)[i] = s[i]
  <2>1. \A i \in 1..(n - 1) : s[i] \in S
    BY <1>1, ElementOfSeq
  <2>2. QED
    BY <2>1, <1>1, SubSeqProperties
<1>3. /\ SubSeq(s, n + 1, Len(s)) \in Seq(S)
      /\ Len(SubSeq(s, n + 1, Len(s))) = Len(s) - n
      /\ \A i \in 1..(Len(s) - n) : SubSeq(s, n + 1, Len(s))[i] = s[n + i]
  <2>1. \A i \in (n + 1)..Len(s) : s[i] \in S
    BY <1>1, ElementOfSeq
  <2>2. QED
    BY <2>1, <1>1, SubSeqProperties
<1> DEFINE a == SubSeq(s, 1, n - 1)
           b == SubSeq(s, n + 1, Len(s))
<1>4. a \in Seq(S) /\ b \in Seq(S) /\ RemoveAt(s, n) = a \o b
  BY <1>2, <1>3 DEF RemoveAt
<1> HIDE DEF a, b
<1> DEFINE c == RemoveAt(s, n)
<1>5. /\ c \in Seq(S) /\ Len(c) = Len(a) + Len(b)
      /\ \A i \in 1..(Len(a) + Len(b)) : c[i] = IF i <= Len(a) THEN a[i] ELSE b[i - Len(a)]
  BY <1>4, ConcatProperties
<1>6. Len(a) = n - 1 /\ Len(b) = Len(s) - n
  BY <1>2, <1>3 DEF a, b
<1> HIDE DEF c
<1>7. ASSUME NEW i \in 1..(Len(s) - 1)
      PROVE  c[i] = IF i < n THEN s[i] ELSE s[i + 1]
  <2>1. CASE i < n
    <3>1. i \in 1..(n - 1) /\ i <= Len(a) /\ i \in 1..(Len(a) + Len(b))
      BY <1>1, <1>6, <2>1
    <3>2. c[i] = a[i] /\ a[i] = s[i]
      BY <1>2, <1>5, <3>1 DEF a
    <3>3. QED
      BY <2>1, <3>2
  <2>2. CASE ~(i < n)
    <3>1. /\ i - (n - 1) \in 1..(Len(s) - n) /\ n + (i - (n - 1)) = i + 1
          /\ i \in 1..(Len(a) + Len(b)) /\ ~(i <= Len(a)) /\ i - Len(a) = i - (n - 1)
      BY SMTT(30), <1>1, <1>6, <2>2
    <3>2. b[i - (n - 1)] = s[i + 1]
      BY <1>3, <3>1 DEF b
    <3>3. c[i] = b[i - (n - 1)]
      BY <1>5, <3>1
    <3>4. QED
      BY <2>2, <3>2, <3>3
  <2>3. QED
    BY <2>1, <2>2
<1>8. QED
  BY <1>1, <1>5, <1>6, <1>7 DEF c

LEMMA RemoveAtSet ==
  ASSUME NEW S, NEW s \in Seq(S), NEW n \in DOMAIN s, IsInjective(s)
  PROVE  /\ IsInjective(RemoveAt(s, n))
         /\ ToSet(RemoveAt(s, n)) = ToSet(s) \ {s[n]}
<1> DEFINE t == RemoveAt(s, n)
<1>1. n \in 1..Len(s) /\ Len(s) \in Nat /\ DOMAIN s = 1..Len(s)
  OBVIOUS
<1>2. /\ t \in Seq(S) /\ Len(t) = Len(s) - 1
      /\ \A i \in 1..(Len(s) - 1) : t[i] = IF i < n THEN s[i] ELSE s[i + 1]
  BY RemoveAtFacts
<1>3. DOMAIN t = 1..(Len(s) - 1)
  BY <1>2
<1> HIDE DEF t
<1>4. \A i, j \in DOMAIN s : s[i] = s[j] => i = j
  BY DEF IsInjective
<1>5. IsInjective(t)
  BY SMTT(30), <1>1, <1>2, <1>3, <1>4 DEF IsInjective
<1>6. ASSUME NEW x \in ToSet(t) PROVE x \in ToSet(s) \ {s[n]}
  <2>1. PICK i \in 1..(Len(s) - 1) : x = t[i]
    BY <1>3 DEF ToSet
  <2>2. (x = s[i] /\ i < n) \/ (x = s[i + 1] /\ i >= n)
    BY <1>1, <1>2, <2>1
  <2>3. QED
    BY <1>1, <1>4, <2>1, <2>2 DEF ToSet
<1>7. ASSUME NEW x \in ToSet(s), x # s[n] PROVE x \in ToSet(t)
  <2>1. PICK i \in 1..Len(s) : x = s[i]
    BY <1>1 DEF ToSet
  <2>2. CASE i < n
    <3>1. i \in 1..(Len(s) - 1) /\ t[i] = x
      BY <1>1, <1>2, <2>1, <2>2
    <3>2. QED
      BY <1>3, <3>1 DEF ToSet
  <2>3. CASE i > n
    <3>1. i - 1 \in 1..(Len(s) - 1) /\ t[i - 1] = x
      BY <1>1, <1>2, <2>1, <2>3
    <3>2. QED
      BY <1>3, <3>1 DEF ToSet
  <2>4. QED
    BY <1>1, <1>7, <2>1, <2>2, <2>3
<1>8. QED
  BY <1>5, <1>6, <1>7 DEF t

LEMMA AppendSet ==
  ASSUME NEW S, NEW s \in Seq(S), NEW x \in S
  PROVE  /\ Append(s, x) \in Seq(S) /\ Len(Append(s, x)) = Len(s) + 1
         /\ ToSet(Append(s, x)) = ToSet(s) \cup {x}
         /\ IsInjective(s) /\ x \notin ToSet(s) => IsInjective(Append(s, x))
<1> DEFINE t == Append(s, x)
<1>1. /\ Len(s) \in Nat /\ DOMAIN s = 1..Len(s)
      /\ t \in Seq(S) /\ Len(t) = Len(s) + 1 /\ DOMAIN t = 1..(Len(s) + 1)
      /\ \A i \in 1..Len(s) : t[i] = s[i]
      /\ t[Len(s) + 1] = x
  BY AppendProperties
<1> HIDE DEF t
<1>2. \A i \in DOMAIN t : i \in DOMAIN s \/ i = Len(s) + 1
  BY <1>1
<1>3. ToSet(t) = ToSet(s) \cup {x}
  <2>1. ASSUME NEW y \in ToSet(t) PROVE y \in ToSet(s) \cup {x}
    BY <1>1, <1>2 DEF ToSet
  <2>2. ASSUME NEW y \in ToSet(s) PROVE y \in ToSet(t)
    <3>1. PICK i \in 1..Len(s) : y = s[i]
      BY <1>1 DEF ToSet
    <3>2. i \in DOMAIN t /\ t[i] = y
      BY <1>1, <3>1
    <3>3. QED
      BY <3>2 DEF ToSet
  <2>3. x \in ToSet(t)
    <3>1. Len(s) + 1 \in DOMAIN t
      BY <1>1
    <3>2. QED
      BY <1>1, <3>1 DEF ToSet
  <2>4. QED
    BY <2>1, <2>2, <2>3
<1>4. IsInjective(s) /\ x \notin ToSet(s) => IsInjective(t)
  BY <1>1, <1>2 DEF IsInjective, ToSet
<1>5. QED
  BY <1>1, <1>3, <1>4 DEF t

LEMMA TailSet ==
  ASSUME NEW S, NEW s \in Seq(S), s # <<>>, IsInjective(s)
  PROVE  /\ Tail(s) \in Seq(S) /\ IsInjective(Tail(s)) /\ Head(s) \in ToSet(s)
         /\ ToSet(Tail(s)) = ToSet(s) \ {Head(s)}
<1> DEFINE t == Tail(s)
<1>1. /\ Len(s) \in Nat /\ Len(s) >= 1 /\ DOMAIN s = 1..Len(s)
      /\ t \in Seq(S) /\ Len(t) = Len(s) - 1 /\ DOMAIN t = 1..(Len(s) - 1)
      /\ \A i \in 1..(Len(s) - 1) : t[i] = s[i + 1]
      /\ Head(s) = s[1]
  BY HeadTailProperties, EmptySeq
<1> HIDE DEF t
<1>2. \A i, j \in DOMAIN s : s[i] = s[j] => i = j
  BY DEF IsInjective
<1>3. IsInjective(t)
  <2>1. SUFFICES ASSUME NEW i \in DOMAIN t, NEW j \in DOMAIN t, t[i] = t[j] PROVE i = j
    BY DEF IsInjective
  <2>2. i + 1 \in DOMAIN s /\ j + 1 \in DOMAIN s /\ s[i + 1] = s[j + 1]
    BY <1>1, <2>1
  <2>3. QED
    BY <1>1, <1>2, <2>2
<1>4. ASSUME NEW x \in ToSet(t) PROVE x \in ToSet(s) \ {s[1]}
  <2>1. PICK i \in 1..(Len(s) - 1) : x = t[i]
    BY <1>1 DEF ToSet
  <2>2. x = s[i + 1] /\ i + 1 \in DOMAIN s /\ 1 \in DOMAIN s /\ i + 1 # 1
    BY <1>1, <2>1
  <2>3. QED
    BY <1>2, <2>2 DEF ToSet
<1>5. ASSUME NEW x \in ToSet(s), x # s[1] PROVE x \in ToSet(t)
  <2>1. PICK i \in 1..Len(s) : x = s[i]
    BY <1>1 DEF ToSet
  <2>2. i - 1 \in DOMAIN t /\ t[i - 1] = x
    BY <1>1, <1>5, <2>1
  <2>3. QED
    BY <2>2 DEF ToSet
<1>6. Head(s) \in ToSet(s)
  <2>1. 1 \in DOMAIN s
    BY <1>1
  <2>2. QED
    BY <1>1, <2>1 DEF ToSet
<1>7. QED
  BY <1>1, <1>3, <1>4, <1>5, <1>6 DEF t

-----------------------------------------------------------------------------
(* Types, and where a request is.                                          *)

Phases == {Idle, "lock", "load", "evict", "close", "unpin"} \cup Holding \cup Asking
Wants == [model : Model, key : Keys]
SlotState == [cache : Keys \cup {None, Mixed}, affinity : Keys \cup {None}, busy : BOOLEAN]
Leases == (UNION {1..Slots[m] : m \in Model}) \cup {None}

TypedThreads ==
  /\ phase \in [Request -> Phases]
  /\ wants \in [Request -> Wants \cup {None}]
  /\ lease \in [Request -> Leases]
  /\ after \in [Request -> {"ready", Idle}]
  /\ stale \subseteq Model
  /\ serving \in {"yes", "closing", "no"}

TypedRegistry ==
  /\ users \in [Model -> Int]
  /\ older \subseteq Model \X Model
  /\ loader \in [Model -> Request \cup {None}]

TypedPools ==
  /\ slot \in [Model -> Seq(SlotState)]
  /\ \A m \in Model : Resident(m) => Len(slot[m]) = Slots[m]
  /\ free \in [Model -> Seq(Nat)]
  /\ \A m \in Model : ToSet(free[m]) \subseteq 1..Slots[m]
  /\ waiters \in [Model -> Seq(Request)]

Typed == TypedThreads /\ TypedRegistry /\ TypedPools

(* A request is for something until it is idle again, and has a place to   *)
(* go on to only while it evicts.                                          *)
Placed ==
  \A r \in Request :
    /\ phase[r] = Idle <=> wants[r] = None
    /\ after[r] = "ready" => phase[r] \in {"evict", "close"}
    /\ phase[r] \in Holding => lease[r] \in 1..Slots[At(r)]

PhaseNames == Phases = {"idle", "lock", "load", "evict", "close", "unpin", "leased", "running",
                        "done", "failed", "ready", "wait", "woken", "late"}

LEMMA NamesOfPhases == PhaseNames
BY DEF PhaseNames, Phases, Idle, Holding, Asking

LEMMA AskedFor ==
  ASSUME Typed, Placed, NEW r \in Request, phase[r] # Idle
  PROVE  /\ wants[r] \in Wants /\ wants[r] # None
         /\ At(r) \in Model /\ wants[r].key \in Keys
BY DEF Typed, TypedThreads, Placed, Wants, At

LEMMA SlotsOfSequence ==
  ASSUME NEW S, NEW s \in Seq(S), NEW i, NEW x, i \in DOMAIN s => x \in S,
         NEW t, t = [s EXCEPT ![i] = x]
  PROVE  t \in Seq(S) /\ Len(t) = Len(s) /\ DOMAIN t = DOMAIN s
<1>1. DOMAIN s = 1..Len(s) /\ Len(s) \in Nat /\ \A j \in 1..Len(s) : s[j] \in S
  BY ElementOfSeq
<1>2. t \in [1..Len(s) -> S]
  BY <1>1
<1>3. QED
  BY <1>1, <1>2, SeqDef

LEMMA NewPool ==
  ASSUME NEW n \in Nat \ {0}
  PROVE  /\ [i \in 1..n |-> Fresh] \in Seq(SlotState)
         /\ Len([i \in 1..n |-> Fresh]) = n
         /\ [i \in 1..n |-> Fresh] # <<>>
         /\ [i \in 1..n |-> i] \in Seq(Nat)
         /\ Len([i \in 1..n |-> i]) = n
         /\ ToSet([i \in 1..n |-> i]) = 1..n
         /\ IsInjective([i \in 1..n |-> i])
<1>1. Fresh \in SlotState
  BY DEF Fresh, SlotState
<1>2. /\ [i \in 1..n |-> Fresh] \in Seq(SlotState)
      /\ Len([i \in 1..n |-> Fresh]) = n
  BY <1>1
<1>3. /\ [i \in 1..n |-> i] \in Seq(Nat)
      /\ Len([i \in 1..n |-> i]) = n
  OBVIOUS
<1>4. [i \in 1..n |-> Fresh] # <<>>
  BY <1>2, EmptySeq
<1>5. ToSet([i \in 1..n |-> i]) = 1..n
  BY DEF ToSet
<1>6. IsInjective([i \in 1..n |-> i])
  BY DEF IsInjective
<1>7. QED
  BY <1>2, <1>3, <1>4, <1>5, <1>6

(* What a step on one slot leaves of the pools.                            *)
LEMMA PoolShape ==
  ASSUME Typed, NEW m \in Model, NEW i, NEW x, i \in DOMAIN slot[m] => x \in SlotState,
         slot' = [slot EXCEPT ![m][i] = x]
  PROVE  /\ slot' \in [Model -> Seq(SlotState)]
         /\ \A e \in Model : /\ DOMAIN slot'[e] = DOMAIN slot[e]
                             /\ Len(slot'[e]) = Len(slot[e])
                             /\ Resident(e)' <=> Resident(e)
<1>1. slot \in [Model -> Seq(SlotState)]
  BY DEF Typed, TypedPools
<1> DEFINE s == slot[m]
<1>0. PICK t : t = [s EXCEPT ![i] = x]
  OBVIOUS
<1>2. s \in Seq(SlotState) /\ (i \in DOMAIN s => x \in SlotState)
  BY <1>1
<1> HIDE DEF s
<1>3. t \in Seq(SlotState) /\ Len(t) = Len(s) /\ DOMAIN t = DOMAIN s
  <2>1. t \in Seq(SlotState)
    BY <1>0, <1>2, SlotsOfSequence
  <2>2. Len(t) = Len(s)
    BY <1>0, <1>2, SlotsOfSequence
  <2>3. DOMAIN t = DOMAIN s
    BY <1>0, <1>2, SlotsOfSequence
  <2>4. QED
    BY <2>1, <2>2, <2>3
<1>4. slot' = [slot EXCEPT ![m] = t]
  BY <1>0 DEF s
<1>5. \A e \in Model : slot'[e] = IF e = m THEN t ELSE slot[e]
  BY <1>1, <1>4
<1>6. slot' \in [Model -> Seq(SlotState)]
  BY <1>1, <1>3, <1>4
<1>7. \A e \in Model : Len(slot'[e]) = Len(slot[e]) /\ DOMAIN slot'[e] = DOMAIN slot[e]
  BY <1>3, <1>5 DEF s
<1>8. ASSUME NEW e \in Model PROVE Resident(e)' <=> Resident(e)
  <2>1. slot[e] \in Seq(SlotState) /\ slot'[e] \in Seq(SlotState)
    BY <1>1, <1>6
  <2>2. (slot[e] = <<>>) <=> (Len(slot[e]) = 0)
    BY <2>1, EmptySeq
  <2>3. (slot'[e] = <<>>) <=> (Len(slot'[e]) = 0)
    BY <2>1, EmptySeq
  <2>4. QED
    BY <1>7, <2>2, <2>3 DEF Resident
<1>9. QED
  BY <1>6, <1>7, <1>8

-----------------------------------------------------------------------------
(* The first layer.                                                        *)

(* What a step on a request's own slot leaves of the pools.                *)
LEMMA SlotStep ==
  ASSUME Typed, Placed, NEW r \in Request, phase[r] # Idle,
         NEW x, MySlot(r) \in SlotState => x \in SlotState, Becomes(r, x)
  PROVE  /\ slot' \in [Model -> Seq(SlotState)]
         /\ \A e \in Model : /\ DOMAIN slot'[e] = DOMAIN slot[e]
                             /\ Len(slot'[e]) = Len(slot[e])
                             /\ Resident(e)' <=> Resident(e)
<1>1. At(r) \in Model /\ slot \in [Model -> Seq(SlotState)]
  BY AskedFor DEF Typed, TypedPools
<1>2. lease[r] \in DOMAIN slot[At(r)] => MySlot(r) \in SlotState
  BY <1>1, ElementOfSeq DEF MySlot
<1>3. slot' = [slot EXCEPT ![At(r)][lease[r]] = x]
  BY DEF Becomes
<1>4. QED
  BY <1>1, <1>2, <1>3, PoolShape

LEMMA SettledIsASlot ==
  ASSUME Typed, Placed, NEW r \in Request, phase[r] # Idle, MySlot(r) \in SlotState
  PROVE  /\ Settled(r) \in SlotState
         /\ [MySlot(r) EXCEPT !.busy = FALSE] \in SlotState
         /\ [MySlot(r) EXCEPT !.busy = TRUE, !.cache = Mixed] \in SlotState
         /\ [MySlot(r) EXCEPT !.busy = FALSE, !.cache = wants[r].key] \in SlotState
<1>1. wants[r].key \in Keys
  BY AskedFor
<1>2. QED
  BY <1>1 DEF Settled, SlotState

LEMMA TakeStep ==
  ASSUME Typed, Placed, NEW r \in Request, phase[r] # Idle, Take(r)
  PROVE  /\ lease' \in [Request -> Leases] /\ lease'[r] \in ToSet(free[At(r)])
         /\ lease'[r] \in 1..Slots[At(r)]
         /\ \A q \in Request : q # r => lease'[q] = lease[q]
         /\ free' \in [Model -> Seq(Nat)] /\ free[At(r)] # <<>>
         /\ \A e \in Model : e # At(r) => free'[e] = free[e]
         /\ Len(free'[At(r)]) = Len(free[At(r)]) - 1
         /\ IsInjective(free[At(r)]) =>
              /\ IsInjective(free'[At(r)])
              /\ ToSet(free'[At(r)]) = ToSet(free[At(r)]) \ {lease'[r]}
         /\ ToSet(free'[At(r)]) \subseteq ToSet(free[At(r)])
<1> DEFINE e == At(r)
           s == free[e]
<1>1. e \in Model /\ s \in Seq(Nat) /\ ToSet(s) \subseteq 1..Slots[e]
  BY AskedFor DEF Typed, TypedPools
<1>2. PICK n \in DOMAIN s : /\ lease' = [lease EXCEPT ![r] = s[n]]
                            /\ free' = [free EXCEPT ![e] = RemoveAt(@, n)]
  BY DEF Take, Best
<1>3. s[n] \in ToSet(s) /\ s[n] \in Leases
  <2>1. s[n] \in ToSet(s)
    BY DEF ToSet
  <2>2. QED
    BY <1>1, <2>1 DEF Leases
<1>4. free' = [free EXCEPT ![e] = RemoveAt(s, n)]
  BY <1>2
<1> HIDE DEF e, s
<1>5. /\ RemoveAt(s, n) \in Seq(Nat) /\ Len(RemoveAt(s, n)) = Len(s) - 1
      /\ \A i \in 1..(Len(s) - 1) : RemoveAt(s, n)[i] = IF i < n THEN s[i] ELSE s[i + 1]
  BY <1>1, RemoveAtFacts
<1>6. IsInjective(s) => /\ IsInjective(RemoveAt(s, n))
                        /\ ToSet(RemoveAt(s, n)) = ToSet(s) \ {s[n]}
  BY <1>1, RemoveAtSet
<1>7. ToSet(RemoveAt(s, n)) \subseteq ToSet(s)
  <2> DEFINE t == RemoveAt(s, n)
  <2>1. n \in 1..Len(s) /\ Len(s) \in Nat /\ DOMAIN s = 1..Len(s) /\ DOMAIN t = 1..(Len(s) - 1)
    BY <1>1, <1>5
  <2> HIDE DEF t
  <2>2. SUFFICES ASSUME NEW i \in DOMAIN t PROVE t[i] \in ToSet(s)
    BY DEF ToSet, t
  <2>3. t[i] = s[i] \/ t[i] = s[i + 1]
    BY <1>5, <2>1 DEF t
  <2>4. i \in DOMAIN s /\ i + 1 \in DOMAIN s
    BY <2>1
  <2>5. QED
    BY <2>3, <2>4 DEF ToSet
<1>8. s # <<>>
  BY <1>1
<1>9. free \in [Model -> Seq(Nat)] /\ lease \in [Request -> Leases]
  BY DEF Typed, TypedPools, TypedThreads
<1>10. lease'[r] = s[n] /\ lease' \in [Request -> Leases] /\ \A q \in Request : q # r => lease'[q] = lease[q]
  BY <1>2, <1>3, <1>9
<1>11. /\ free'[e] = RemoveAt(s, n) /\ free' \in [Model -> Seq(Nat)]
       /\ \A f \in Model : f # e => free'[f] = free[f]
  BY <1>1, <1>4, <1>5, <1>9
<1>12. QED
  BY <1>1, <1>3, <1>5, <1>6, <1>7, <1>8, <1>10, <1>11 DEF e, s

LEMMA WithdrawStep ==
  ASSUME Typed, Placed, NEW r \in Request, phase[r] # Idle, Withdraw(r)
  PROVE  /\ waiters' \in [Model -> Seq(Request)]
         /\ \A e \in Model : e # At(r) => waiters'[e] = waiters[e]
         /\ IsInjective(waiters[At(r)]) =>
              /\ IsInjective(waiters'[At(r)])
              /\ ToSet(waiters'[At(r)]) = ToSet(waiters[At(r)]) \ {r}
<1> DEFINE e == At(r)
           s == waiters[e]
<1>1. e \in Model /\ s \in Seq(Request) /\ waiters \in [Model -> Seq(Request)]
  BY AskedFor DEF Typed, TypedPools
<1>2. CASE r \notin ToSet(s) /\ UNCHANGED waiters
  BY <1>1, <1>2
<1>3. CASE ~(r \notin ToSet(s) /\ UNCHANGED waiters)
  <2>1. PICK n \in DOMAIN s : s[n] = r /\ waiters' = [waiters EXCEPT ![e] = RemoveAt(s, n)]
    BY <1>3 DEF Withdraw
  <2> HIDE DEF e, s
  <2>2. RemoveAt(s, n) \in Seq(Request)
    BY <1>1, RemoveAtFacts
  <2>3. IsInjective(s) => /\ IsInjective(RemoveAt(s, n))
                          /\ ToSet(RemoveAt(s, n)) = ToSet(s) \ {s[n]}
    BY <1>1, RemoveAtSet
  <2>4. /\ waiters' \in [Model -> Seq(Request)] /\ waiters'[e] = RemoveAt(s, n)
        /\ \A f \in Model : f # e => waiters'[f] = waiters[f]
    BY <1>1, <2>1, <2>2
  <2>5. QED
    BY <2>1, <2>3, <2>4 DEF e, s
<1>4. QED
  BY <1>2, <1>3

(* What joining the queue of a pool leaves of the queues.                  *)
LEMMA JoinStep ==
  ASSUME Typed, Placed, NEW r \in Request, phase[r] # Idle,
         waiters' = [waiters EXCEPT ![At(r)] = Append(@, r)]
  PROVE  /\ waiters' \in [Model -> Seq(Request)]
         /\ \A e \in Model : e # At(r) => waiters'[e] = waiters[e]
         /\ ToSet(waiters'[At(r)]) = ToSet(waiters[At(r)]) \cup {r}
         /\ IsInjective(waiters[At(r)]) /\ r \notin ToSet(waiters[At(r)])
              => IsInjective(waiters'[At(r)])
<1> DEFINE e == At(r)
           s == waiters[e]
<1>1. e \in Model /\ s \in Seq(Request) /\ waiters \in [Model -> Seq(Request)]
  BY AskedFor DEF Typed, TypedPools
<1>2. waiters' = [waiters EXCEPT ![e] = Append(s, r)]
  OBVIOUS
<1> HIDE DEF e, s
<1>3. /\ Append(s, r) \in Seq(Request)
      /\ ToSet(Append(s, r)) = ToSet(s) \cup {r}
      /\ IsInjective(s) /\ r \notin ToSet(s) => IsInjective(Append(s, r))
  BY <1>1, AppendSet
<1>4. /\ waiters' \in [Model -> Seq(Request)] /\ waiters'[e] = Append(s, r)
      /\ \A f \in Model : f # e => waiters'[f] = waiters[f]
  BY <1>1, <1>2, <1>3
<1>5. QED
  BY <1>3, <1>4 DEF e, s

(* What closing models leaves of the pools.                                *)
LEMMA TakeOutStep ==
  ASSUME Typed, NEW taken, TakeOut(taken)
  PROVE  /\ slot' \in [Model -> Seq(SlotState)] /\ free' \in [Model -> Seq(Nat)]
         /\ \A e \in Model : e \in taken => slot'[e] = <<>> /\ free'[e] = <<>>
         /\ \A e \in Model : e \notin taken => slot'[e] = slot[e] /\ free'[e] = free[e]
         /\ \A e \in Model : Resident(e)' <=> Resident(e) /\ e \notin taken
         /\ ToSet(<<>>) = {}
         /\ older' = Without(taken) /\ older' \subseteq older
<1>1. slot \in [Model -> Seq(SlotState)] /\ free \in [Model -> Seq(Nat)]
  BY DEF Typed, TypedPools
<1>2. ToSet(<<>>) = {}
  BY DEF ToSet
<1>3. <<>> \in Seq(SlotState) /\ <<>> \in Seq(Nat)
  OBVIOUS
<1>4. /\ \A e \in Model : e \in taken => slot'[e] = <<>> /\ free'[e] = <<>>
      /\ \A e \in Model : e \notin taken => slot'[e] = slot[e] /\ free'[e] = free[e]
  BY DEF TakeOut
<1>5. slot' \in [Model -> Seq(SlotState)] /\ free' \in [Model -> Seq(Nat)]
  BY <1>1, <1>3 DEF TakeOut
<1>6. older' = Without(taken) /\ older' \subseteq older
  BY DEF TakeOut, Without
<1>7. QED
  BY <1>2, <1>4, <1>5, <1>6 DEF Resident

LEMMA PoolsOfLess ==
  ASSUME Typed, NEW taken, TakeOut(taken), UNCHANGED waiters
  PROVE  TypedPools'
BY TakeOutStep DEF Typed, TypedPools, Resident

LEMMA PoolsKept ==
  ASSUME Typed, UNCHANGED pools
  PROVE  TypedPools'
BY DEF pools, Typed, TypedPools, Resident

(* What a new pool is like.                                                *)
LEMMA PoolsOfMore ==
  ASSUME Typed, NEW m \in Model, UNCHANGED waiters,
         slot' = [slot EXCEPT ![m] = [i \in 1..Slots[m] |-> Fresh]],
         free' = [free EXCEPT ![m] = [i \in 1..Slots[m] |-> i]]
  PROVE  /\ TypedPools'
         /\ \A e \in Model : e # m => slot'[e] = slot[e] /\ free'[e] = free[e]
         /\ slot'[m] # <<>> /\ IsInjective(free'[m]) /\ ToSet(free'[m]) = DOMAIN slot'[m]
         /\ slot'[m] = [i \in 1..Slots[m] |-> Fresh] /\ Len(free'[m]) = Slots[m]
<1> DEFINE n == Slots[m]
           a == [i \in 1..n |-> Fresh]
           b == [i \in 1..n |-> i]
<1>1. n \in Nat \ {0}
  BY ServerAssumption
<1> HIDE DEF n
<1>2. /\ a \in Seq(SlotState) /\ Len(a) = n /\ a # <<>>
      /\ b \in Seq(Nat) /\ Len(b) = n /\ ToSet(b) = 1..n /\ IsInjective(b)
  BY <1>1, NewPool
<1>3. DOMAIN a = 1..n
  OBVIOUS
<1>4. slot' = [slot EXCEPT ![m] = a] /\ free' = [free EXCEPT ![m] = b]
  BY DEF n
<1>5. /\ slot \in [Model -> Seq(SlotState)] /\ free \in [Model -> Seq(Nat)]
      /\ waiters \in [Model -> Seq(Request)]
      /\ \A e \in Model : slot[e] # <<>> => Len(slot[e]) = Slots[e]
      /\ \A e \in Model : ToSet(free[e]) \subseteq 1..Slots[e]
  BY DEF Typed, TypedPools, Resident
<1>6. a = [i \in 1..Slots[m] |-> Fresh]
  BY DEF n
<1> HIDE DEF a, b
<1>7. /\ \A e \in Model : e # m => slot'[e] = slot[e] /\ free'[e] = free[e]
      /\ slot'[m] = a /\ free'[m] = b
      /\ slot' \in [Model -> Seq(SlotState)] /\ free' \in [Model -> Seq(Nat)]
  BY <1>2, <1>4, <1>5
<1>8. TypedPools'
  <2>1. \A e \in Model : slot'[e] # <<>> => Len(slot'[e]) = Slots[e]
    BY <1>2, <1>5, <1>7 DEF n
  <2>2. \A e \in Model : ToSet(free'[e]) \subseteq 1..Slots[e]
    BY <1>2, <1>5, <1>7 DEF n
  <2>3. QED
    BY <1>5, <1>7, <2>1, <2>2 DEF TypedPools, Resident
<1>9. QED
  BY <1>2, <1>3, <1>6, <1>7, <1>8 DEF n

LEMMA PoolsAfterTake ==
  ASSUME Typed, Placed, NEW r \in Request, phase[r] # Idle, Take(r), UNCHANGED slot,
         waiters' \in [Model -> Seq(Request)]
  PROVE  TypedPools'
<1>1. \A e \in Model : ToSet(free'[e]) \subseteq 1..Slots[e]
  BY TakeStep, AskedFor DEF Typed, TypedPools
<1>2. free' \in [Model -> Seq(Nat)]
  BY TakeStep
<1>3. QED
  BY <1>1, <1>2 DEF Typed, TypedPools, Resident

LEMMA PoolsAfterRun ==
  ASSUME Typed, Placed, NEW r \in Request, phase[r] # Idle, UNCHANGED <<free, waiters>>,
         NEW x, MySlot(r) \in SlotState => x \in SlotState, Becomes(r, x)
  PROVE  TypedPools'
<1>1. /\ slot' \in [Model -> Seq(SlotState)]
      /\ \A e \in Model : Len(slot'[e]) = Len(slot[e]) /\ (Resident(e)' <=> Resident(e))
  BY SlotStep
<1>2. QED
  BY <1>1 DEF Typed, TypedPools


(* A request's step leaves everything of its type, and the request where   *)
(* the program can have it.                                                *)
LEMMA StepOfRequest ==
  ASSUME Typed, Placed, NEW r \in Request, Registering(r) \/ Serving(r)
  PROVE  Typed' /\ Placed'
<1> USE NamesOfPhases DEF PhaseNames, Idle, Holding
<1>1. ASSUME NEW m \in Model, NEW k \in Keys, Arrive(r, m, k) PROVE Typed' /\ Placed'
  <2>1. TypedThreads'
    BY <1>1 DEF Arrive, Moves, Typed, TypedThreads, Wants
  <2>2. TypedRegistry'
    BY <1>1 DEF Arrive, Pins, Typed, TypedRegistry
  <2>3. TypedPools'
    BY <1>1, PoolsKept DEF Arrive
  <2>4. Placed'
    <3>1. [model |-> m, key |-> k] # None
      BY ServerAssumption
    <3>2. QED
      BY <1>1, <3>1 DEF Arrive, Moves, Typed, TypedThreads, Placed, At
  <2>5. QED
    BY <2>1, <2>2, <2>3, <2>4 DEF Typed
<1>2. CASE TakeLoadLock(r)
  <2>1. phase[r] # Idle /\ wants[r] \in Wants /\ wants[r] # None /\ At(r) \in Model
    BY <1>2, AskedFor DEF TakeLoadLock
  <2>2. TypedThreads'
    BY <1>2, <2>1 DEF TakeLoadLock, Moves, Typed, TypedThreads
  <2>3. TypedRegistry'
    BY <1>2, <2>1 DEF TakeLoadLock, Pins, Typed, TypedRegistry
  <2>4. TypedPools'
    BY <1>2, PoolsKept DEF TakeLoadLock
  <2>5. Placed'
    BY <1>2, <2>1 DEF TakeLoadLock, Moves, Typed, TypedThreads, Placed, At
  <2>6. QED
    BY <2>2, <2>3, <2>4, <2>5 DEF Typed
<1>3. CASE Load(r)
  <2>1. phase[r] # Idle /\ wants[r] \in Wants /\ wants[r] # None /\ At(r) \in Model
    BY <1>3, AskedFor DEF Load
  <2>2. TypedThreads'
    BY <1>3, <2>1 DEF Load, Moves, Typed, TypedThreads
  <2>3. TypedRegistry'
    BY <1>3, <2>1 DEF Load, Pins, GiveLoadLock, Youngest, Residents, Typed, TypedRegistry
  <2>4. TypedPools'
    BY <1>3, <2>1, PoolsOfMore DEF Load
  <2>5. Placed'
    BY <1>3, <2>1 DEF Load, Moves, Typed, TypedThreads, Placed, At
  <2>6. QED
    BY <2>2, <2>3, <2>4, <2>5 DEF Typed
<1>4. CASE LoadFails(r)
  <2>1. phase[r] # Idle /\ wants[r] \in Wants /\ wants[r] # None /\ At(r) \in Model
    BY <1>4, AskedFor DEF LoadFails
  <2>2. TypedThreads'
    BY <1>4, <2>1 DEF LoadFails, Moves, Leaves, Typed, TypedThreads
  <2>3. TypedRegistry'
    BY <1>4, <2>1 DEF LoadFails, GiveLoadLock, Typed, TypedRegistry
  <2>4. TypedPools'
    BY <1>4, PoolsKept DEF LoadFails
  <2>5. Placed'
    BY <1>4, <2>1 DEF LoadFails, Moves, Leaves, Typed, TypedThreads, Placed, At
  <2>6. QED
    BY <2>2, <2>3, <2>4, <2>5 DEF Typed
<1>5. CASE EvictLook(r)
  <2>1. phase[r] # Idle /\ wants[r] \in Wants /\ wants[r] # None /\ At(r) \in Model
    BY <1>5, AskedFor DEF EvictLook
  <2>2. TypedThreads'
    BY <1>5, <2>1 DEF EvictLook, Moves, Leaves, Typed, TypedThreads
  <2>3. TypedRegistry'
    BY <1>5 DEF EvictLook, TakeOut, Without, Typed, TypedRegistry
  <2>4. TypedPools'
    BY <1>5, PoolsKept, PoolsOfLess DEF EvictLook, pools
  <2>5. Placed'
    BY <1>5, <2>1 DEF EvictLook, Moves, Leaves, Typed, TypedThreads, Placed, At
  <2>6. QED
    BY <2>2, <2>3, <2>4, <2>5 DEF Typed
<1>6. CASE CloseVictim(r)
  <2>1. phase[r] # Idle /\ wants[r] \in Wants /\ wants[r] # None /\ At(r) \in Model
    BY <1>6, AskedFor DEF CloseVictim
  <2>2. TypedThreads'
    BY <1>6, <2>1 DEF CloseVictim, Moves, Typed, TypedThreads
  <2>3. TypedRegistry'
    BY <1>6 DEF CloseVictim, registry, Typed, TypedRegistry
  <2>4. TypedPools'
    BY <1>6, PoolsKept DEF CloseVictim
  <2>5. Placed'
    BY <1>6, <2>1 DEF CloseVictim, Moves, Typed, TypedThreads, Placed, At
  <2>6. QED
    BY <2>2, <2>3, <2>4, <2>5 DEF Typed
<1>7. CASE Checkout(r)
  <2>1. phase[r] # Idle /\ wants[r] \in Wants /\ wants[r] # None /\ At(r) \in Model
    BY <1>7, AskedFor DEF Checkout
  <2>2. TypedThreads'
    <3>1. lease' \in [Request -> Leases]
      BY <1>7, <2>1, TakeStep DEF Checkout, Typed, TypedThreads
    <3>2. phase' \in [Request -> Phases]
      BY <1>7 DEF Checkout, Take, Moves, Typed, TypedThreads
    <3>3. QED
      BY <1>7, <3>1, <3>2 DEF Checkout, Typed, TypedThreads
  <2>3. TypedRegistry'
    BY <1>7 DEF Checkout, registry, Typed, TypedRegistry
  <2>4. TypedPools'
    <3>1. CASE Take(r)
      <4>1. waiters' \in [Model -> Seq(Request)]
        BY <1>7, <2>1, <3>1, WithdrawStep, TakeStep DEF Checkout, Typed, TypedPools
      <4>2. QED
        BY <1>7, <2>1, <3>1, <4>1, PoolsAfterTake DEF Checkout
    <3>2. CASE ~Take(r)
      <4>1. waiters' \in [Model -> Seq(Request)]
        BY <1>7, <2>1, <3>2, JoinStep, WithdrawStep DEF Checkout
      <4>2. QED
        BY <1>7, <3>2, <4>1 DEF Checkout, Typed, TypedPools, Resident
    <3>3. QED
      BY <3>1, <3>2
  <2>5. Placed'
    <3>1. CASE Take(r)
      BY <1>7, <2>1, <3>1, TakeStep DEF Checkout, Take, Moves, Typed, TypedThreads, Placed, At
    <3>2. CASE ~Take(r)
      BY SMTT(30), <1>7, <2>1, <3>2 DEF Checkout, Moves, Typed, TypedThreads, Placed, At
    <3>3. QED
      BY <3>1, <3>2
  <2>6. QED
    BY <2>2, <2>3, <2>4, <2>5 DEF Typed
<1>8. CASE Refuse(r)
  <2>1. phase[r] # Idle /\ wants[r] \in Wants /\ wants[r] # None /\ At(r) \in Model
    BY <1>8, AskedFor DEF Refuse
  <2>2. TypedThreads'
    BY <1>8, <2>1 DEF Refuse, Moves, Typed, TypedThreads
  <2>3. TypedRegistry'
    BY <1>8 DEF Refuse, registry, Typed, TypedRegistry
  <2>4. TypedPools'
    BY <1>8, PoolsKept DEF Refuse
  <2>5. Placed'
    BY <1>8, <2>1 DEF Refuse, Moves, Typed, TypedThreads, Placed, At
  <2>6. QED
    BY <2>2, <2>3, <2>4, <2>5 DEF Typed
<1>9. CASE TimesOut(r)
  <2>1. phase[r] # Idle /\ wants[r] \in Wants /\ wants[r] # None /\ At(r) \in Model
    BY <1>9, AskedFor DEF TimesOut
  <2>2. TypedThreads'
    BY <1>9, <2>1 DEF TimesOut, Moves, Typed, TypedThreads
  <2>3. TypedRegistry'
    BY <1>9 DEF TimesOut, registry, Typed, TypedRegistry
  <2>4. TypedPools'
    BY <1>9, PoolsKept DEF TimesOut
  <2>5. Placed'
    BY <1>9, <2>1 DEF TimesOut, Moves, Typed, TypedThreads, Placed, At
  <2>6. QED
    BY <2>2, <2>3, <2>4, <2>5 DEF Typed
<1>10. CASE WakeUp(r)
  <2>1. phase[r] # Idle /\ wants[r] \in Wants /\ wants[r] # None /\ At(r) \in Model
    BY <1>10, AskedFor DEF WakeUp
  <2>2. TypedThreads'
    <3>1. lease' \in [Request -> Leases]
      BY <1>10, <2>1, TakeStep DEF WakeUp, Typed, TypedThreads
    <3>2. phase' \in [Request -> Phases]
      BY <1>10 DEF WakeUp, Take, Moves, Typed, TypedThreads
    <3>3. QED
      BY <1>10, <3>1, <3>2 DEF WakeUp, Typed, TypedThreads
  <2>3. TypedRegistry'
    BY <1>10 DEF WakeUp, registry, Typed, TypedRegistry
  <2>4. TypedPools'
    <3>1. CASE Take(r)
      <4>1. waiters' \in [Model -> Seq(Request)]
        BY <1>10, <2>1, <3>1, WithdrawStep, TakeStep DEF WakeUp, Typed, TypedPools
      <4>2. QED
        BY <1>10, <2>1, <3>1, <4>1, PoolsAfterTake DEF WakeUp
    <3>2. CASE ~Take(r)
      <4>1. waiters' \in [Model -> Seq(Request)]
        BY <1>10, <2>1, <3>2, JoinStep, WithdrawStep DEF WakeUp
      <4>2. QED
        BY <1>10, <3>2, <4>1 DEF WakeUp, Typed, TypedPools, Resident
    <3>3. QED
      BY <3>1, <3>2
  <2>5. Placed'
    <3>1. CASE Take(r)
      BY <1>10, <2>1, <3>1, TakeStep DEF WakeUp, Take, Moves, Typed, TypedThreads, Placed, At
    <3>2. CASE ~Take(r)
      BY SMTT(30), <1>10, <2>1, <3>2 DEF WakeUp, Moves, Typed, TypedThreads, Placed, At
    <3>3. QED
      BY <3>1, <3>2
  <2>6. QED
    BY <2>2, <2>3, <2>4, <2>5 DEF Typed
<1>11. CASE Generate(r)
  <2>1. phase[r] # Idle /\ wants[r] \in Wants /\ wants[r] # None /\ At(r) \in Model
    BY <1>11, AskedFor DEF Generate
  <2>2. TypedThreads'
    BY <1>11, <2>1 DEF Generate, Moves, Typed, TypedThreads
  <2>3. TypedRegistry'
    BY <1>11 DEF Generate, registry, Typed, TypedRegistry
  <2>4. TypedPools'
    BY <1>11, <2>1, SettledIsASlot, PoolsAfterRun DEF Generate
  <2>5. Placed'
    BY <1>11, <2>1 DEF Generate, Moves, Typed, TypedThreads, Placed, At
  <2>6. QED
    BY <2>2, <2>3, <2>4, <2>5 DEF Typed
<1>12. CASE Finish(r)
  <2>1. phase[r] # Idle /\ wants[r] \in Wants /\ wants[r] # None /\ At(r) \in Model
    BY <1>12, AskedFor DEF Finish
  <2>2. TypedThreads'
    BY <1>12, <2>1 DEF Finish, Moves, Typed, TypedThreads
  <2>3. TypedRegistry'
    BY <1>12 DEF Finish, registry, Typed, TypedRegistry
  <2>4. TypedPools'
    BY <1>12, <2>1, SettledIsASlot, PoolsAfterRun DEF Finish
  <2>5. Placed'
    BY <1>12, <2>1 DEF Finish, Moves, Typed, TypedThreads, Placed, At
  <2>6. QED
    BY <2>2, <2>3, <2>4, <2>5 DEF Typed
<1>13. CASE Raise(r)
  <2>1. phase[r] # Idle /\ wants[r] \in Wants /\ wants[r] # None /\ At(r) \in Model
    BY <1>13, AskedFor DEF Raise
  <2>2. TypedThreads'
    BY <1>13, <2>1 DEF Raise, Moves, Typed, TypedThreads
  <2>3. TypedRegistry'
    BY <1>13 DEF Raise, registry, Typed, TypedRegistry
  <2>4. TypedPools'
    BY <1>13, <2>1, SettledIsASlot, PoolsAfterRun DEF Raise
  <2>5. Placed'
    BY <1>13, <2>1 DEF Raise, Moves, Typed, TypedThreads, Placed, At
  <2>6. QED
    BY <2>2, <2>3, <2>4, <2>5 DEF Typed
<1>14. CASE Hangup(r)
  <2>1. phase[r] # Idle /\ wants[r] \in Wants /\ wants[r] # None /\ At(r) \in Model
    BY <1>14, AskedFor DEF Hangup
  <2>2. TypedThreads'
    BY <1>14, <2>1 DEF Hangup, Moves, Typed, TypedThreads
  <2>3. TypedRegistry'
    BY <1>14 DEF Hangup, registry, Typed, TypedRegistry
  <2>4. TypedPools'
    BY <1>14, PoolsKept DEF Hangup
  <2>5. Placed'
    BY <1>14, <2>1 DEF Hangup, Moves, Typed, TypedThreads, Placed, At
  <2>6. QED
    BY <2>2, <2>3, <2>4, <2>5 DEF Typed
<1>15. CASE Return(r)
  <2>1. phase[r] # Idle /\ wants[r] \in Wants /\ wants[r] # None /\ At(r) \in Model
    BY <1>15, AskedFor DEF Return
  <2>2. TypedThreads'
    <3>1. lease' \in [Request -> Leases]
      <4>1. lease' = [lease EXCEPT ![r] = None]
        BY <1>15 DEF Return
      <4>2. None \in Leases
        BY DEF Leases
      <4>3. QED
        BY <4>1, <4>2 DEF Typed, TypedThreads
    <3>2. phase' \in [Request -> Phases]
      BY <1>15 DEF Return, Typed, TypedThreads
    <3>3. QED
      BY <1>15, <3>1, <3>2 DEF Return, Typed, TypedThreads
  <2>3. TypedRegistry'
    BY <1>15 DEF Return, registry, Typed, TypedRegistry
  <2>4. TypedPools'
    <3> DEFINE e == At(r)
    <3>1. /\ slot' \in [Model -> Seq(SlotState)]
          /\ \A m \in Model : Len(slot'[m]) = Len(slot[m]) /\ (Resident(m)' <=> Resident(m))
      BY <1>15, <2>1, SlotStep, SettledIsASlot DEF Return
    <3>2. lease[r] \in 1..Slots[e] /\ lease[r] \in Nat
      BY <1>15, <2>1, ServerAssumption DEF Return, Placed
    <3>3. /\ Append(free[e], lease[r]) \in Seq(Nat)
          /\ ToSet(Append(free[e], lease[r])) = ToSet(free[e]) \cup {lease[r]}
      BY <2>1, <3>2, AppendSet DEF Typed, TypedPools
    <3>4. /\ free' \in [Model -> Seq(Nat)]
          /\ \A m \in Model : ToSet(free'[m]) \subseteq 1..Slots[m]
      BY <1>15, <2>1, <3>2, <3>3 DEF Return, Typed, TypedPools
    <3>5. waiters' \in [Model -> Seq(Request)]
      BY <1>15, <2>1 DEF Return, Typed, TypedPools
    <3>6. QED
      BY <3>1, <3>4, <3>5 DEF Typed, TypedPools
  <2>5. Placed'
    BY <1>15, <2>1 DEF Return, Moves, Typed, TypedThreads, Placed, At
  <2>6. QED
    BY <2>2, <2>3, <2>4, <2>5 DEF Typed
<1>16. CASE Unpin(r)
  <2>1. phase[r] # Idle /\ wants[r] \in Wants /\ wants[r] # None /\ At(r) \in Model
    BY <1>16, AskedFor DEF Unpin
  <2>2. TypedThreads'
    BY <1>16, <2>1 DEF Unpin, Moves, Typed, TypedThreads
  <2>3. TypedRegistry'
    BY <1>16, <2>1 DEF Unpin, Youngest, Residents, Typed, TypedRegistry
  <2>4. TypedPools'
    BY <1>16, PoolsKept DEF Unpin
  <2>5. Placed'
    BY <1>16, <2>1 DEF Unpin, Moves, Typed, TypedThreads, Placed, At
  <2>6. QED
    BY <2>2, <2>3, <2>4, <2>5 DEF Typed
<1>17. QED
  BY <1>1, <1>2, <1>3, <1>4, <1>5, <1>6, <1>7, <1>8, <1>9, <1>10, <1>11, <1>12, <1>13, <1>14, <1>15, <1>16 DEF Registering, Serving

LEMMA StepOfOthers ==
  ASSUME Typed, Placed,
         \/ \E m \in Model : \E i \in DOMAIN slot[m] : WorkerEnds(m, i)
         \/ \E taken \in SUBSET Evictable : Reap(taken)
         \/ CloseStale \/ StopServing \/ CloseRegistry \/ UNCHANGED vars
  PROVE  Typed' /\ Placed'
<1>1. ASSUME NEW m \in Model, NEW i \in DOMAIN slot[m], WorkerEnds(m, i)
      PROVE  Typed' /\ Placed'
  <2>1. slot[m][i] \in SlotState
    BY ElementOfSeq DEF Typed, TypedPools
  <2>2. [slot[m][i] EXCEPT !.busy = FALSE] \in SlotState
    BY <2>1 DEF SlotState
  <2>3. slot' = [slot EXCEPT ![m][i] = [slot[m][i] EXCEPT !.busy = FALSE]]
    BY <1>1 DEF WorkerEnds
  <2>4. /\ slot' \in [Model -> Seq(SlotState)]
        /\ \A e \in Model : Len(slot'[e]) = Len(slot[e]) /\ (Resident(e)' <=> Resident(e))
    BY <2>2, <2>3, PoolShape
  <2>5. TypedPools'
    BY <1>1, <2>4 DEF WorkerEnds, Typed, TypedPools
  <2>6. TypedThreads' /\ TypedRegistry' /\ Placed'
    BY <1>1 DEF WorkerEnds, registry, Typed, TypedThreads, TypedRegistry, Placed, At
  <2>7. QED
    BY <2>5, <2>6 DEF Typed
<1>2. ASSUME NEW taken \in SUBSET Evictable, Reap(taken) PROVE Typed' /\ Placed'
  <2>1. TypedPools'
    BY <1>2, PoolsOfLess DEF Reap
  <2>2. TypedRegistry'
    BY <1>2, TakeOutStep DEF Reap, Typed, TypedRegistry
  <2>3. TypedThreads' /\ Placed'
    BY <1>2 DEF Reap, Evictable, Residents, Typed, TypedThreads, Placed, At
  <2>4. QED
    BY <2>1, <2>2, <2>3 DEF Typed
<1>3. CASE CloseRegistry
  <2>1. TypedPools'
    BY <1>3, PoolsOfLess DEF CloseRegistry
  <2>2. TypedRegistry'
    BY <1>3, TakeOutStep DEF CloseRegistry, Typed, TypedRegistry
  <2>3. TypedThreads' /\ Placed'
    BY <1>3 DEF CloseRegistry, Typed, TypedThreads, Placed, At
  <2>4. QED
    BY <2>1, <2>2, <2>3 DEF Typed
<1>4. CASE CloseStale \/ StopServing \/ UNCHANGED vars
  <2>1. TypedPools'
    BY <1>4, PoolsKept DEF CloseStale, StopServing, vars, pools
  <2>2. TypedThreads' /\ TypedRegistry' /\ Placed'
    BY <1>4 DEF CloseStale, StopServing, vars, registry,
                Typed, TypedThreads, TypedRegistry, Placed, At
  <2>3. QED
    BY <2>1, <2>2 DEF Typed
<1>5. QED
  BY <1>1, <1>2, <1>3, <1>4

(* Everything is of its type, and every request where the program can have *)
(* it.                                                                     *)
LEMMA WellTyped == Spec => [](Typed /\ Placed)
<1>1. Init => Typed /\ Placed
  <2> SUFFICES ASSUME Init PROVE Typed /\ Placed
    OBVIOUS
  <2>1. TypedThreads
    BY NamesOfPhases DEF PhaseNames, Idle, Leases, Init, TypedThreads
  <2>2. TypedRegistry
    BY DEF Init, TypedRegistry
  <2>3. TypedPools
    <3>1. <<>> \in Seq(SlotState) /\ <<>> \in Seq(Nat) /\ <<>> \in Seq(Request)
      OBVIOUS
    <3>2. ToSet(<<>>) = {}
      BY DEF ToSet
    <3>3. QED
      BY <3>1, <3>2 DEF Init, TypedPools, Resident
  <2>4. Placed
    BY DEF Init, Placed, Idle, Holding
  <2>5. QED
    BY <2>1, <2>2, <2>3, <2>4 DEF Typed
<1>2. Typed /\ Placed /\ [Next]_vars => (Typed /\ Placed)'
  BY StepOfRequest, StepOfOthers DEF Next
<1>3. QED
  BY <1>1, <1>2, PTL DEF Spec

-----------------------------------------------------------------------------
(* The second layer: a pinned model stays open.                            *)

InHand == Asking \cup Holding \cup {"unpin"}

LEMMA PinningIsFinite ==
  ASSUME NEW m \in Model
  PROVE  /\ IsFiniteSet(Pinning(m)) /\ Cardinality(Pinning(m)) \in Nat
         /\ Cardinality(Pinning(m)) <= Cardinality(Request)
         /\ Cardinality(Request) \in Nat
         /\ Cardinality(Pinning(m)) = 0 => Pinning(m) = {}
<1>1. Pinning(m) \subseteq Request /\ IsFiniteSet(Request)
  BY ServerAssumption DEF Pinning
<1>2. QED
  BY <1>1, FS_Subset, FS_CardinalityType, FS_EmptySet

LEMMA SamePins ==
  ASSUME UNCHANGED <<wants, after>>,
         \A q \in Request : phase'[q] \in InHand <=> phase[q] \in InHand
  PROVE  \A m \in Model : Pinning(m)' = Pinning(m)
BY DEF Pinning, At, InHand

LEMMA PinAdded ==
  ASSUME Typed, PinsAreCounted, NEW r \in Request, NEW e \in Model, r \notin Pinning(e),
         \A m \in Model : Pinning(m)' = IF m = e THEN Pinning(m) \cup {r} ELSE Pinning(m),
         users' = [users EXCEPT ![e] = @ + 1]
  PROVE  PinsAreCounted'
<1>1. Cardinality(Pinning(e) \cup {r}) = Cardinality(Pinning(e)) + 1
  BY PinningIsFinite, FS_AddElement
<1>2. \A m \in Model : users'[m] = IF m = e THEN users[m] + 1 ELSE users[m]
  BY DEF Typed, TypedRegistry
<1>3. \A m \in Model : users'[m] = Cardinality(Pinning(m)')
  BY <1>1, <1>2 DEF PinsAreCounted
<1>4. QED
  BY <1>3 DEF PinsAreCounted

LEMMA PinDropped ==
  ASSUME Typed, PinsAreCounted, NEW r \in Request, NEW e \in Model, r \in Pinning(e),
         \A m \in Model : Pinning(m)' = IF m = e THEN Pinning(m) \ {r} ELSE Pinning(m),
         users' = [users EXCEPT ![e] = @ - 1]
  PROVE  PinsAreCounted'
<1>1. Cardinality(Pinning(e) \ {r}) = Cardinality(Pinning(e)) - 1
  BY PinningIsFinite, FS_RemoveElement
<1>2. \A m \in Model : users'[m] = IF m = e THEN users[m] - 1 ELSE users[m]
  BY DEF Typed, TypedRegistry
<1>3. \A m \in Model : users'[m] = Cardinality(Pinning(m)')
  BY <1>1, <1>2 DEF PinsAreCounted
<1>4. QED
  BY <1>3 DEF PinsAreCounted

(* A step that pins and unpins nothing, opens and closes nothing.          *)
LEMMA PinsStay ==
  ASSUME Typed, PinnedStaysOpen, UNCHANGED <<users, older>>,
         \A m \in Model : Pinning(m)' = Pinning(m) /\ (Resident(m)' <=> Resident(m)),
         \A q \in Request : phase'[q] = "load" =>
           phase[q] = "load" /\ At(q)' = At(q) /\ At(q) \in Model /\ loader'[At(q)] = loader[At(q)]
  PROVE  PinnedStaysOpen'
<1>1. PinsAreCounted'
  BY DEF PinnedStaysOpen, PinsAreCounted
<1>2. PinnedIsResident'
  BY DEF PinnedStaysOpen, PinnedIsResident
<1>3. OneLoads'
  <2>1. ASSUME NEW q \in Request, phase'[q] = "load"
        PROVE  ~Resident(At(q))' /\ loader'[At(q)'] = q
    <3>1. At(q)' = At(q) /\ At(q) \in Model /\ ~Resident(At(q)) /\ loader'[At(q)] = q
      BY <2>1 DEF PinnedStaysOpen, OneLoads
    <3>2. Resident(At(q))' <=> slot'[At(q)'] # <<>>
      BY DEF Resident
    <3>3. QED
      BY <3>1, <3>2 DEF Resident
  <2>2. QED
    BY <2>1 DEF OneLoads
<1>4. IdleInOrder'
  <2>1. Residents' = Residents
    BY DEF Residents
  <2>2. QED
    BY <2>1 DEF PinnedStaysOpen, IdleInOrder
<1>5. QED
  BY <1>1, <1>2, <1>3, <1>4 DEF PinnedStaysOpen

(* A step that closes models that nobody has pinned.                       *)
LEMMA PinsOutlive ==
  ASSUME Typed, PinnedStaysOpen, UNCHANGED <<users, loader>>,
         \A m \in Model : Pinning(m)' = Pinning(m),
         NEW taken, TakeOut(taken), \A m \in taken \cap Model : Pinning(m) = {},
         \A q \in Request : phase'[q] = "load" =>
           phase[q] = "load" /\ At(q)' = At(q) /\ At(q) \in Model
  PROVE  PinnedStaysOpen'
<1>1. PinsAreCounted'
  BY DEF PinnedStaysOpen, PinsAreCounted
<1>2. PinnedIsResident'
  BY TakeOutStep DEF PinnedStaysOpen, PinnedIsResident
<1>3. OneLoads'
  <2>1. ASSUME NEW q \in Request, phase'[q] = "load"
        PROVE  ~Resident(At(q))' /\ loader'[At(q)'] = q
    <3>1. At(q)' = At(q) /\ At(q) \in Model /\ ~Resident(At(q)) /\ loader'[At(q)] = q
      BY <2>1 DEF PinnedStaysOpen, OneLoads
    <3>2. slot'[At(q)] = <<>>
      BY <3>1, TakeOutStep DEF Resident
    <3>3. QED
      BY <3>1, <3>2 DEF Resident
  <2>2. QED
    BY <2>1 DEF OneLoads
<1>4. IdleInOrder'
  <2>1. \A m \in Residents' : m \in Residents /\ m \notin taken
    BY TakeOutStep DEF Residents
  <2>2. older' = Without(taken)
    BY TakeOutStep
  <2>3. \A m, o \in Residents' : <<m, o>> \in older' <=> <<m, o>> \in older
    BY <2>1, <2>2 DEF Without
  <2>4. QED
    BY <2>1, <2>3 DEF PinnedStaysOpen, IdleInOrder
<1>5. QED
  BY <1>1, <1>2, <1>3, <1>4 DEF PinnedStaysOpen

(* The youngest of the resident models has its place among them.           *)
LEMMA YoungestInOrder ==
  ASSUME Typed, IdleInOrder, NEW m \in Model, older' = Youngest(m),
         Residents' \ {m} = Residents \ {m}
  PROVE  IdleInOrder'
<1>1. SUFFICES ASSUME NEW a \in Residents', NEW b \in Residents', a # b
               PROVE  <<a, b>> \in older' <=> <<b, a>> \notin older'
  BY DEF IdleInOrder
<1>2. CASE a # m /\ b # m
  <2>1. a \in Residents /\ b \in Residents
    BY <1>2
  <2>2. /\ <<a, b>> \in older' <=> <<a, b>> \in older
        /\ <<b, a>> \in older' <=> <<b, a>> \in older
    BY <1>2 DEF Youngest
  <2>3. QED
    BY <1>1, <2>1, <2>2 DEF IdleInOrder
<1>3. CASE a = m
  <2>1. b \in Residents \ {m}
    BY <1>1, <1>3
  <2>2. <<b, a>> \in older' /\ <<a, b>> \notin older'
    BY <1>1, <1>3, <2>1 DEF Youngest
  <2>3. QED
    BY <2>2
<1>4. CASE b = m
  <2>1. a \in Residents \ {m}
    BY <1>1, <1>4
  <2>2. <<a, b>> \in older' /\ <<b, a>> \notin older'
    BY <1>1, <1>4, <2>1 DEF Youngest
  <2>3. QED
    BY <2>2
<1>5. QED
  BY <1>2, <1>3, <1>4

LEMMA PinsRest ==
  ASSUME Typed, PinnedStaysOpen, UNCHANGED <<wants, after, registry>>,
         \A m \in Model : Resident(m)' <=> Resident(m),
         \A q \in Request : phase[q] = "load" => At(q) \in Model,
         \A q \in Request : phase'[q] = "load" => phase[q] = "load",
         \A q \in Request : phase'[q] \in InHand <=> phase[q] \in InHand
  PROVE  PinnedStaysOpen'
<1>1. \A m \in Model : Pinning(m)' = Pinning(m)
  BY SamePins
<1>2. \A q \in Request : At(q)' = At(q)
  BY DEF At
<1>3. UNCHANGED <<users, older, loader>>
  BY DEF registry
<1>4. QED
  BY <1>1, <1>2, <1>3, PinsStay

(* Of each step, what it does to the pins.                                 *)
LEMMA RequestKeepsPins ==
  ASSUME Typed, Placed, PinnedStaysOpen, NEW r \in Request, Registering(r) \/ Serving(r)
  PROVE  PinnedStaysOpen'
<1> USE NamesOfPhases DEF PhaseNames, Idle, Holding, Asking, InHand
<1>0. /\ phase \in [Request -> Phases] /\ wants \in [Request -> Wants \cup {None}]
      /\ after \in [Request -> {"ready", "idle"}]
      /\ PinsAreCounted /\ PinnedIsResident /\ OneLoads /\ IdleInOrder
  BY DEF Typed, TypedThreads, PinnedStaysOpen
<1>10. \A q \in Request : phase[q] = "load" => At(q) \in Model
  BY AskedFor
<1>1. ASSUME NEW m \in Model, NEW k \in Keys, Arrive(r, m, k) PROVE PinnedStaysOpen'
  <2>1. [model |-> m, key |-> k] # None /\ wants[r] = None /\ phase[r] = "idle"
    BY <1>1, ServerAssumption DEF Arrive, Placed
  <2>2. /\ UNCHANGED <<after, older, loader, pools>>
        /\ wants' = [wants EXCEPT ![r] = [model |-> m, key |-> k]]
        /\ \A e \in Model : Resident(e)' <=> Resident(e)
    BY <1>1 DEF Arrive, pools, Resident
  <2>3. \A q \in Request : phase'[q] = "load" =>
          phase[q] = "load" /\ At(q)' = At(q) /\ At(q) \in Model
    BY <1>0, <1>1, <1>10, <2>2 DEF Arrive, Moves, At
  <2>4. CASE phase' = [phase EXCEPT ![r] = "ready"]
    <3>1. users' = [users EXCEPT ![m] = @ + 1] /\ Resident(m)
      BY <1>0, <1>1, <2>4 DEF Arrive, Moves, Pins
    <3>2. r \notin Pinning(m)
      BY <2>1 DEF Pinning
    <3>3. \A e \in Model : Pinning(e)' = IF e = m THEN Pinning(e) \cup {r} ELSE Pinning(e)
      BY <1>0, <2>1, <2>2, <2>4 DEF Pinning, At
    <3>4. PinsAreCounted'
      BY <1>0, <3>1, <3>2, <3>3, PinAdded
    <3>5. PinnedIsResident'
      BY <1>0, <2>2, <3>1, <3>3 DEF PinnedIsResident
    <3>6. OneLoads'
      BY <1>0, <2>2, <2>3 DEF OneLoads, Resident, pools
    <3>7. IdleInOrder'
      BY <1>0, <2>2 DEF IdleInOrder, Residents
    <3>8. QED
      BY <3>4, <3>5, <3>6, <3>7 DEF PinnedStaysOpen
  <2>5. CASE phase' = [phase EXCEPT ![r] = "lock"] /\ UNCHANGED users
    <3>1. \A e \in Model : Pinning(e)' = Pinning(e)
      BY <1>0, <2>1, <2>2, <2>5 DEF Pinning, At, Placed
    <3>2. QED
      BY <2>2, <2>3, <2>5, <3>1, PinsStay
  <2>6. QED
    BY <1>1, <2>4, <2>5 DEF Arrive, Moves
<1>2. CASE TakeLoadLock(r)
  <2>1. /\ phase[r] = "lock" /\ wants[r] # None /\ At(r) \in Model
        /\ after[r] # "ready"
    BY <1>2, AskedFor DEF TakeLoadLock, Placed
  <2>2. /\ UNCHANGED <<wants, after, older, pools>>
        /\ \A e \in Model : Resident(e)' <=> Resident(e)
        /\ \A q \in Request : At(q)' = At(q)
    BY <1>2 DEF TakeLoadLock, pools, Resident, At
  <2>3. CASE Resident(At(r))
    <3>1. /\ phase' = [phase EXCEPT ![r] = "ready"] /\ UNCHANGED loader
          /\ users' = [users EXCEPT ![At(r)] = @ + 1]
      BY <1>2, <2>3 DEF TakeLoadLock, Moves, Pins
    <3>2. r \notin Pinning(At(r))
      BY <2>1 DEF Pinning
    <3>3. \A e \in Model : Pinning(e)' =
            IF e = At(r) THEN Pinning(e) \cup {r} ELSE Pinning(e)
      BY <1>0, <2>1, <2>2, <3>1 DEF Pinning, At
    <3>4. PinsAreCounted'
      BY <1>0, <2>1, <3>1, <3>2, <3>3, PinAdded
    <3>5. PinnedIsResident'
      BY <1>0, <2>2, <2>3, <3>3 DEF PinnedIsResident
    <3>6. OneLoads'
      BY <1>0, <2>2, <3>1 DEF OneLoads, Resident, pools
    <3>7. IdleInOrder'
      BY <1>0, <2>2 DEF IdleInOrder, Residents
    <3>8. QED
      BY <3>4, <3>5, <3>6, <3>7 DEF PinnedStaysOpen
  <2>4. CASE ~Resident(At(r))
    <3>1. /\ phase' = [phase EXCEPT ![r] = "load"] /\ UNCHANGED users
          /\ loader' = [loader EXCEPT ![At(r)] = r] /\ loader[At(r)] = None
      BY <1>2, <2>4 DEF TakeLoadLock, Moves
    <3>2. \A e \in Model : Pinning(e)' = Pinning(e)
      BY <1>0, <2>1, <2>2, <3>1, SamePins
    <3>3. PinsAreCounted' /\ PinnedIsResident'
      BY <1>0, <2>2, <3>1, <3>2 DEF PinsAreCounted, PinnedIsResident
    <3>4. OneLoads'
      <4>1. ASSUME NEW q \in Request, phase'[q] = "load"
            PROVE  ~Resident(At(q))' /\ loader'[At(q)'] = q
        <5>1. CASE q = r
          <6>1. loader'[At(r)] = r
            BY <2>1, <3>1 DEF Typed, TypedRegistry
          <6>2. QED
            BY <2>2, <2>4, <5>1, <6>1 DEF Resident, pools
        <5>2. CASE q # r
          <6>1. phase[q] = "load" /\ ~Resident(At(q)) /\ loader[At(q)] = q
            BY <1>0, <3>1, <4>1, <5>2 DEF OneLoads
          <6>2. At(q) # At(r)
            BY <3>1, <6>1, ServerAssumption
          <6>3. loader'[At(q)] = q
            BY <3>1, <6>1, <6>2
          <6>4. QED
            BY <2>2, <6>1, <6>3 DEF Resident, pools
        <5>3. QED
          BY <5>1, <5>2
      <4>2. QED
        BY <4>1 DEF OneLoads
    <3>5. IdleInOrder'
      BY <1>0, <2>2 DEF IdleInOrder, Residents
    <3>6. QED
      BY <3>3, <3>4, <3>5 DEF PinnedStaysOpen
  <2>5. QED
    BY <2>3, <2>4
<1>3. CASE Load(r)
  <2> DEFINE e == At(r)
  <2>1. /\ phase[r] = "load" /\ wants[r] # None /\ e \in Model
        /\ after[r] # "ready"
        /\ ~Resident(e) /\ loader[e] = r
    BY <1>0, <1>3, AskedFor DEF Load, Placed, OneLoads
  <2>2. /\ phase' = [phase EXCEPT ![r] = "evict"] /\ after' = [after EXCEPT ![r] = "ready"]
        /\ users' = [users EXCEPT ![e] = @ + 1] /\ loader' = [loader EXCEPT ![e] = None]
        /\ older' = Youngest(e) /\ UNCHANGED <<wants, waiters>>
        /\ slot' = [slot EXCEPT ![e] = [i \in 1..Slots[e] |-> Fresh]]
        /\ free' = [free EXCEPT ![e] = [i \in 1..Slots[e] |-> i]]
    BY <1>3 DEF Load, Moves, Pins, GiveLoadLock
  <2>3. slot'[e] # <<>> /\ \A m \in Model : m # e => slot'[m] = slot[m]
    <3>1. slot'[e] # <<>>
      BY <2>1, <2>2, PoolsOfMore
    <3>2. \A m \in Model : m # e => slot'[m] = slot[m]
      BY <2>1, <2>2, PoolsOfMore
    <3>3. QED
      BY <3>1, <3>2
  <2>4. PinsAreCounted' /\ PinnedIsResident'
    <3>1. r \notin Pinning(e)
      BY <2>1 DEF Pinning
    <3>2. \A m \in Model : Pinning(m)' = IF m = e THEN Pinning(m) \cup {r} ELSE Pinning(m)
      BY <1>0, <2>1, <2>2 DEF Pinning, At
    <3>3. PinsAreCounted'
      BY <1>0, <2>1, <2>2, <3>1, <3>2, PinAdded
    <3>4. PinnedIsResident'
      <4>1. \A m \in Model : Resident(m) => Resident(m)'
        BY <2>3 DEF Resident
      <4>2. \A m \in Model : m = e => Resident(m)'
        BY <2>3 DEF Resident
      <4>3. QED
        BY <1>0, <3>2, <4>1, <4>2 DEF PinnedIsResident
    <3>5. QED
      BY <3>3, <3>4
  <2>5. OneLoads'
    <3>1. ASSUME NEW q \in Request, phase'[q] = "load"
          PROVE  ~Resident(At(q))' /\ loader'[At(q)'] = q
      <4>1. phase[q] = "load" /\ q # r
        BY <1>0, <2>2, <3>1
      <4>2. At(q) \in Model /\ ~Resident(At(q)) /\ loader[At(q)] = q /\ At(q) # e
        BY <1>0, <1>10, <2>1, <4>1 DEF OneLoads
      <4>3. At(q)' = At(q) /\ loader'[At(q)] = q /\ slot'[At(q)] = slot[At(q)]
        BY <2>1, <2>2, <4>2, PoolsOfMore DEF At
      <4>4. QED
        BY <4>2, <4>3 DEF Resident
    <3>2. QED
      BY <3>1 DEF OneLoads
  <2>6. IdleInOrder'
    <3>1. Residents' \ {e} = Residents \ {e}
      BY <2>3 DEF Residents, Resident
    <3>2. QED
      BY <1>0, <2>1, <2>2, <3>1, YoungestInOrder
  <2>7. QED
    BY <2>4, <2>5, <2>6 DEF PinnedStaysOpen
<1>4. CASE LoadFails(r)
  <2>1. /\ phase[r] = "load" /\ At(r) \in Model /\ after[r] # "ready"
        /\ ~Resident(At(r)) /\ loader[At(r)] = r
    BY <1>0, <1>4, <1>10 DEF LoadFails, Placed, OneLoads
  <2>2. /\ phase' = [phase EXCEPT ![r] = "idle"] /\ wants' = [wants EXCEPT ![r] = None]
        /\ loader' = [loader EXCEPT ![At(r)] = None]
        /\ UNCHANGED <<users, older, after>>
        /\ \A m \in Model : Resident(m)' <=> Resident(m)
    BY <1>4 DEF LoadFails, Moves, GiveLoadLock, Leaves, pools, Resident
  <2>3. \A m \in Model : Pinning(m)' = Pinning(m)
    BY <1>0, <2>1, <2>2 DEF Pinning, At
  <2>4. ASSUME NEW q \in Request, phase'[q] = "load"
        PROVE  phase[q] = "load" /\ At(q)' = At(q) /\ At(q) \in Model /\ loader'[At(q)] = loader[At(q)]
    <3>1. phase[q] = "load" /\ q # r
      BY <1>0, <2>2, <2>4
    <3>2. loader[At(q)] = q /\ At(q) \in Model /\ At(q) # At(r)
      BY <1>0, <1>10, <2>1, <3>1 DEF OneLoads
    <3>3. QED
      BY <2>2, <3>1, <3>2 DEF At
  <2>5. QED
    BY <2>2, <2>3, <2>4, PinsStay
<1>5. CASE EvictLook(r)
  <2>1. /\ phase[r] = "evict" /\ UNCHANGED <<users, loader>>
        /\ \A q \in Request : phase'[q] = "load" =>
              phase[q] = "load" /\ At(q)' = At(q) /\ At(q) \in Model
    BY <1>0, <1>5, <1>10 DEF EvictLook, Moves, Leaves, At
  <2>2. ASSUME NEW m \in LongestIdle, TakeOut({m}), phase' = [phase EXCEPT ![r] = "close"],
               UNCHANGED <<wants, after>>
        PROVE  PinnedStaysOpen'
    <3>1. \A e \in Model : Pinning(e)' = Pinning(e)
      BY <1>0, <2>1, <2>2, SamePins
    <3>2. m \in Model /\ users[m] = 0
      BY <1>0, PinningIsFinite DEF LongestIdle, Evictable, Residents, InUse, PinsAreCounted
    <3>3. Pinning(m) = {}
      BY <1>0, <3>2, PinningIsFinite DEF PinsAreCounted
    <3>4. QED
      BY <2>1, <2>2, <3>1, <3>3, PinsOutlive
  <2>3. CASE /\ Moves(r, after[r]) /\ after' = [after EXCEPT ![r] = Idle]
             /\ IF after[r] = Idle THEN Leaves(r) ELSE UNCHANGED wants
             /\ UNCHANGED <<slot, free, older>>
    <3>1. \A e \in Model : Pinning(e)' = Pinning(e)
      BY <1>0, <2>1, <2>3 DEF Moves, Leaves, Pinning, At
    <3>2. QED
      BY <2>1, <2>3, <3>1, PinsStay DEF Resident
  <2>4. QED
    BY <1>5, <2>2, <2>3 DEF EvictLook, Moves
<1>6. CASE CloseVictim(r)
  <2>1. UNCHANGED <<wants, after, registry, slot>>
    BY <1>6 DEF CloseVictim, pools
  <2>2. \A q \in Request : phase'[q] \in InHand <=> phase[q] \in InHand
    BY <1>0, <1>6 DEF CloseVictim, Moves
  <2>3. \A q \in Request : phase'[q] = "load" => phase[q] = "load"
    BY <1>0, <1>6 DEF CloseVictim, Moves
  <2>4. QED
    BY <1>10, <2>1, <2>2, <2>3, PinsRest DEF Resident
<1>7. CASE Checkout(r)
  <2>1. UNCHANGED <<wants, after, registry, slot>>
    BY <1>7 DEF Checkout, pools
  <2>2. \A q \in Request : phase'[q] \in InHand <=> phase[q] \in InHand
    BY <1>0, <1>7 DEF Checkout, Take, Moves
  <2>3. \A q \in Request : phase'[q] = "load" => phase[q] = "load"
    BY <1>0, <1>7 DEF Checkout, Take, Moves
  <2>4. QED
    BY <1>10, <2>1, <2>2, <2>3, PinsRest DEF Resident
<1>8. CASE Refuse(r)
  <2>1. UNCHANGED <<wants, after, registry, slot>>
    BY <1>8 DEF Refuse, pools
  <2>2. \A q \in Request : phase'[q] \in InHand <=> phase[q] \in InHand
    BY <1>0, <1>8 DEF Refuse, Moves
  <2>3. \A q \in Request : phase'[q] = "load" => phase[q] = "load"
    BY <1>0, <1>8 DEF Refuse, Moves
  <2>4. QED
    BY <1>10, <2>1, <2>2, <2>3, PinsRest DEF Resident
<1>9. CASE TimesOut(r)
  <2>1. UNCHANGED <<wants, after, registry, slot>>
    BY <1>9 DEF TimesOut, pools
  <2>2. \A q \in Request : phase'[q] \in InHand <=> phase[q] \in InHand
    BY <1>0, <1>9 DEF TimesOut, Moves
  <2>3. \A q \in Request : phase'[q] = "load" => phase[q] = "load"
    BY <1>0, <1>9 DEF TimesOut, Moves
  <2>4. QED
    BY <1>10, <2>1, <2>2, <2>3, PinsRest DEF Resident
<1>11. CASE WakeUp(r)
  <2>1. UNCHANGED <<wants, after, registry, slot>>
    BY <1>11 DEF WakeUp, pools
  <2>2. \A q \in Request : phase'[q] \in InHand <=> phase[q] \in InHand
    BY <1>0, <1>11 DEF WakeUp, Take, Moves
  <2>3. \A q \in Request : phase'[q] = "load" => phase[q] = "load"
    BY <1>0, <1>11 DEF WakeUp, Take, Moves
  <2>4. QED
    BY <1>10, <2>1, <2>2, <2>3, PinsRest DEF Resident
<1>12. CASE Hangup(r)
  <2>1. UNCHANGED <<wants, after, registry, slot>>
    BY <1>12 DEF Hangup, pools
  <2>2. \A q \in Request : phase'[q] \in InHand <=> phase[q] \in InHand
    BY <1>0, <1>12 DEF Hangup, Moves
  <2>3. \A q \in Request : phase'[q] = "load" => phase[q] = "load"
    BY <1>0, <1>12 DEF Hangup, Moves
  <2>4. QED
    BY <1>10, <2>1, <2>2, <2>3, PinsRest DEF Resident
<1>13. CASE Generate(r)
  <2>1. UNCHANGED <<wants, after, registry>>
    BY <1>13 DEF Generate
  <2>2. \A q \in Request : phase'[q] \in InHand <=> phase[q] \in InHand
    BY <1>0, <1>13 DEF Generate, Moves, Notified
  <2>3. \A q \in Request : phase'[q] = "load" => phase[q] = "load"
    BY <1>0, <1>13 DEF Generate, Moves, Notified
  <2>4. phase[r] # "idle" /\ Becomes(r, [MySlot(r) EXCEPT !.busy = TRUE, !.cache = Mixed])
    BY <1>13 DEF Generate
  <2>5. \A m \in Model : Resident(m)' <=> Resident(m)
    BY <2>4, SlotStep, SettledIsASlot
  <2>6. QED
    BY <1>10, <2>1, <2>2, <2>3, <2>5, PinsRest
<1>14. CASE Finish(r)
  <2>1. UNCHANGED <<wants, after, registry>>
    BY <1>14 DEF Finish
  <2>2. \A q \in Request : phase'[q] \in InHand <=> phase[q] \in InHand
    BY <1>0, <1>14 DEF Finish, Moves, Notified
  <2>3. \A q \in Request : phase'[q] = "load" => phase[q] = "load"
    BY <1>0, <1>14 DEF Finish, Moves, Notified
  <2>4. phase[r] # "idle" /\ Becomes(r, [MySlot(r) EXCEPT !.busy = FALSE, !.cache = wants[r].key])
    BY <1>14 DEF Finish
  <2>5. \A m \in Model : Resident(m)' <=> Resident(m)
    BY <2>4, SlotStep, SettledIsASlot
  <2>6. QED
    BY <1>10, <2>1, <2>2, <2>3, <2>5, PinsRest
<1>15. CASE Raise(r)
  <2>1. UNCHANGED <<wants, after, registry>>
    BY <1>15 DEF Raise
  <2>2. \A q \in Request : phase'[q] \in InHand <=> phase[q] \in InHand
    BY <1>0, <1>15 DEF Raise, Moves, Notified
  <2>3. \A q \in Request : phase'[q] = "load" => phase[q] = "load"
    BY <1>0, <1>15 DEF Raise, Moves, Notified
  <2>4. phase[r] # "idle" /\ Becomes(r, [MySlot(r) EXCEPT !.busy = FALSE])
    BY <1>15 DEF Raise
  <2>5. \A m \in Model : Resident(m)' <=> Resident(m)
    BY <2>4, SlotStep, SettledIsASlot
  <2>6. QED
    BY <1>10, <2>1, <2>2, <2>3, <2>5, PinsRest
<1>16. CASE Return(r)
  <2>1. UNCHANGED <<wants, after, registry>>
    BY <1>16 DEF Return
  <2>2. \A q \in Request : phase'[q] \in InHand <=> phase[q] \in InHand
    BY <1>0, <1>16 DEF Return, Moves, Notified
  <2>3. \A q \in Request : phase'[q] = "load" => phase[q] = "load"
    BY <1>0, <1>16 DEF Return, Moves, Notified
  <2>4. phase[r] # "idle" /\ Becomes(r, Settled(r))
    BY <1>16 DEF Return
  <2>5. \A m \in Model : Resident(m)' <=> Resident(m)
    BY <2>4, SlotStep, SettledIsASlot
  <2>6. QED
    BY <1>10, <2>1, <2>2, <2>3, <2>5, PinsRest
<1>17. CASE Unpin(r)
  <2> DEFINE e == At(r)
  <2>1. /\ phase[r] = "unpin" /\ wants[r] # None /\ e \in Model /\ after[r] # "ready"
    BY <1>0, <1>17, AskedFor DEF Unpin, Placed
  <2>2. /\ phase' = [phase EXCEPT ![r] = "evict"] /\ users' = [users EXCEPT ![e] = @ - 1]
        /\ older' = (IF users[e] = 1 THEN Youngest(e) ELSE older)
        /\ UNCHANGED <<wants, after, loader, pools>>
        /\ \A m \in Model : Resident(m)' <=> Resident(m)
    BY <1>17 DEF Unpin, Moves, pools, Resident
  <2>3. PinsAreCounted' /\ PinnedIsResident'
    <3>1. r \in Pinning(e)
      BY <2>1 DEF Pinning
    <3>2. \A m \in Model : Pinning(m)' = IF m = e THEN Pinning(m) \ {r} ELSE Pinning(m)
      BY <1>0, <2>1, <2>2 DEF Pinning, At
    <3>3. PinsAreCounted'
      BY <1>0, <2>1, <2>2, <3>1, <3>2, PinDropped
    <3>4. PinnedIsResident'
      BY <1>0, <2>2, <3>2 DEF PinnedIsResident
    <3>5. QED
      BY <3>3, <3>4
  <2>4. OneLoads'
    BY <1>0, <2>2 DEF OneLoads, Resident, pools, At
  <2>5. IdleInOrder'
    <3>1. Residents' = Residents
      BY <2>2 DEF Residents
    <3>2. CASE older' = older
      BY <1>0, <3>1, <3>2 DEF IdleInOrder
    <3>3. CASE older' = Youngest(e)
      BY <1>0, <2>1, <3>1, <3>3, YoungestInOrder
    <3>4. QED
      BY <2>2, <3>2, <3>3
  <2>6. QED
    BY <2>3, <2>4, <2>5 DEF PinnedStaysOpen
<1>18. QED
  BY <1>1, <1>2, <1>3, <1>4, <1>5, <1>6, <1>7, <1>8, <1>9, <1>11, <1>12, <1>13, <1>14, <1>15, <1>16, <1>17 DEF Registering, Serving

LEMMA OthersKeepPins ==
  ASSUME Typed, Placed, PinnedStaysOpen,
         \/ \E m \in Model : \E i \in DOMAIN slot[m] : WorkerEnds(m, i)
         \/ \E taken \in SUBSET Evictable : Reap(taken)
         \/ CloseStale \/ StopServing \/ CloseRegistry \/ UNCHANGED vars
  PROVE  PinnedStaysOpen'
<1>1. \A q \in Request : phase[q] = "load" => At(q) \in Model
  BY AskedFor DEF Idle
<1>2. PinsAreCounted
  BY DEF PinnedStaysOpen
<1>3. ASSUME NEW m \in Model, NEW i \in DOMAIN slot[m], WorkerEnds(m, i)
      PROVE  PinnedStaysOpen'
  <2>1. slot[m][i] \in SlotState
    BY ElementOfSeq DEF Typed, TypedPools
  <2>2. [slot[m][i] EXCEPT !.busy = FALSE] \in SlotState
    BY <2>1 DEF SlotState
  <2>3. slot' = [slot EXCEPT ![m][i] = [slot[m][i] EXCEPT !.busy = FALSE]]
    BY <1>3 DEF WorkerEnds
  <2>4. \A e \in Model : Resident(e)' <=> Resident(e)
    BY <2>2, <2>3, PoolShape
  <2>5. UNCHANGED <<wants, after, phase, registry>>
    BY <1>3 DEF WorkerEnds
  <2>6. QED
    BY <1>1, <2>4, <2>5, PinsRest
<1>4. ASSUME NEW taken \in SUBSET Evictable, Reap(taken) PROVE PinnedStaysOpen'
  <2>1. UNCHANGED <<wants, after, phase, users, loader>> /\ TakeOut(taken)
    BY <1>4 DEF Reap
  <2>2. \A m \in taken : Pinning(m) = {}
    BY <1>2, PinningIsFinite DEF Evictable, Residents, InUse, PinsAreCounted
  <2>3. \A m \in Model : Pinning(m)' = Pinning(m)
    BY <2>1, SamePins
  <2>4. \A q \in Request : At(q)' = At(q)
    BY <2>1 DEF At
  <2>5. QED
    BY <1>1, <2>1, <2>2, <2>3, <2>4, PinsOutlive
<1>5. CASE CloseRegistry
  <2>1. UNCHANGED <<wants, after, phase, users, loader>> /\ TakeOut(Model)
    BY <1>5 DEF CloseRegistry
  <2>2. \A m \in Model : Pinning(m) = {}
    BY <1>5 DEF CloseRegistry, Pinning, Placed
  <2>3. \A m \in Model : Pinning(m)' = Pinning(m)
    BY <2>1, SamePins
  <2>4. \A q \in Request : At(q)' = At(q)
    BY <2>1 DEF At
  <2>5. QED
    BY <1>1, <2>1, <2>2, <2>3, <2>4, PinsOutlive
<1>6. CASE CloseStale \/ StopServing \/ UNCHANGED vars
  <2>1. UNCHANGED <<wants, after, phase, registry, slot>>
    BY <1>6 DEF CloseStale, StopServing, vars, registry, pools
  <2>2. QED
    BY <1>1, <2>1, PinsRest DEF Resident
<1>7. QED
  BY <1>3, <1>4, <1>5, <1>6

(* A model is open for as long as a request has it pinned, and only one    *)
(* thread loads it (ModelRegistry.acquire).                                *)
THEOREM ServerKeepsPinnedOpen == Spec => []PinnedStaysOpen
<1>1. Init => PinnedStaysOpen
  <2> SUFFICES ASSUME Init PROVE PinnedStaysOpen
    OBVIOUS
  <2>1. \A m \in Model : Pinning(m) = {} /\ ~Resident(m)
    BY DEF Init, Pinning, Resident
  <2>2. PinsAreCounted
    BY <2>1, FS_EmptySet DEF Init, PinsAreCounted
  <2>3. PinnedIsResident /\ IdleInOrder /\ OneLoads
    BY <2>1 DEF Init, Idle, PinnedIsResident, IdleInOrder, OneLoads, Residents
  <2>4. QED
    BY <2>2, <2>3 DEF PinnedStaysOpen
<1>2. Typed /\ Placed /\ PinnedStaysOpen /\ [Next]_vars => PinnedStaysOpen'
  BY RequestKeepsPins, OthersKeepPins DEF Next
<1>3. QED
  BY <1>1, <1>2, WellTyped, PTL DEF Spec

-----------------------------------------------------------------------------
(* The third layer: the limit comes back.                                  *)

Evicting == {"evict", "close"}

LEMMA ResidentsAreFinite == IsFiniteSet(Residents) /\ Cardinality(Residents) \in Nat
<1>1. Residents \subseteq Model /\ IsFiniteSet(Model)
  BY ServerAssumption DEF Residents
<1>2. QED
  BY <1>1, FS_Subset, FS_CardinalityType

LEMMA LimitStays ==
  ASSUME LimitComesBack, Residents' \subseteq Residents,
         \A m \in Model : InUse(m) => InUse(m)',
         \A q \in Request : phase[q] \in Evicting => phase'[q] \in Evicting
  PROVE  LimitComesBack'
<1>1. SUFFICES ASSUME Cardinality(Residents') > Limit, Evictable' # {}
               PROVE  \E q \in Request : phase'[q] \in Evicting
  BY DEF LimitComesBack, Evicting
<1>2. /\ Cardinality(Residents') <= Cardinality(Residents)
      /\ Cardinality(Residents) \in Nat /\ Cardinality(Residents') \in Nat
  BY ResidentsAreFinite, FS_Subset, FS_CardinalityType
<1>3. Cardinality(Residents) > Limit
  BY <1>1, <1>2, ServerAssumption
<1>4. Evictable # {}
  BY <1>1 DEF Evictable, Residents
<1>5. QED
  BY <1>3, <1>4 DEF LimitComesBack, Evicting

LEMMA RequestKeepsLimit ==
  ASSUME Typed, Placed, PinnedStaysOpen, LimitComesBack,
         NEW r \in Request, Registering(r) \/ Serving(r)
  PROVE  LimitComesBack'
<1> USE NamesOfPhases DEF PhaseNames, Idle, Evicting
<1>0. phase \in [Request -> Phases] /\ users \in [Model -> Int]
  BY DEF Typed, TypedThreads, TypedRegistry
<1>1. ASSUME NEW m \in Model, NEW k \in Keys, Arrive(r, m, k) PROVE LimitComesBack'
  <2>1. Residents' = Residents
    BY <1>1 DEF Arrive, pools, Residents, Resident
  <2>2. \A e \in Model : InUse(e) => InUse(e)'
    BY <1>0, <1>1 DEF Arrive, Pins, InUse
  <2>3. \A q \in Request : phase[q] \in Evicting => phase'[q] \in Evicting
    BY <1>0, <1>1 DEF Arrive, Moves
  <2>4. QED
    BY <2>1, <2>2, <2>3, LimitStays
<1>2. CASE TakeLoadLock(r)
  <2>1. Residents' = Residents /\ At(r) \in Model
    BY <1>2, AskedFor DEF TakeLoadLock, pools, Residents, Resident
  <2>2. \A e \in Model : InUse(e) => InUse(e)'
    BY <1>0, <1>2, <2>1 DEF TakeLoadLock, Pins, InUse
  <2>3. \A q \in Request : phase[q] \in Evicting => phase'[q] \in Evicting
    BY <1>0, <1>2 DEF TakeLoadLock, Moves
  <2>4. QED
    BY <2>1, <2>2, <2>3, LimitStays
<1>3. CASE Load(r) \/ CloseVictim(r) \/ Unpin(r)
  <2>1. phase'[r] = "evict"
    BY <1>0, <1>3 DEF Load, CloseVictim, Unpin, Moves
  <2>2. QED
    BY <2>1 DEF LimitComesBack
<1>4. CASE EvictLook(r)
  <2>1. CASE Moves(r, "close")
    <3>1. phase'[r] = "close"
      BY <1>0, <2>1 DEF Moves
    <3>2. QED
      BY <3>1 DEF LimitComesBack
  <2>2. CASE ~Moves(r, "close")
    <3>1. UNCHANGED <<users, slot>> /\ (Cardinality(Residents) <= Limit \/ Evictable = {})
      BY <1>4, <2>2 DEF EvictLook
    <3>2. Residents' = Residents /\ Evictable' = Evictable
      BY <3>1 DEF Residents, Evictable, Resident, InUse
    <3>3. QED
      BY <3>1, <3>2, ResidentsAreFinite, ServerAssumption DEF LimitComesBack
  <2>3. QED
    BY <2>1, <2>2
<1>5. CASE LoadFails(r)
  <2>1. UNCHANGED <<users, slot>>
    BY <1>5 DEF LoadFails, registry, pools
  <2>2. \A q \in Request : phase[q] \in Evicting => phase'[q] \in Evicting
    BY <1>0, <1>5 DEF LoadFails, Moves
  <2>3. QED
    BY <2>1, <2>2, LimitStays DEF Residents, Resident, InUse
<1>6. CASE Checkout(r)
  <2>1. UNCHANGED <<users, slot>>
    BY <1>6 DEF Checkout, registry, pools
  <2>2. \A q \in Request : phase[q] \in Evicting => phase'[q] \in Evicting
    BY <1>0, <1>6 DEF Checkout, Take, Moves
  <2>3. QED
    BY <2>1, <2>2, LimitStays DEF Residents, Resident, InUse
<1>7. CASE Refuse(r)
  <2>1. UNCHANGED <<users, slot>>
    BY <1>7 DEF Refuse, registry, pools
  <2>2. \A q \in Request : phase[q] \in Evicting => phase'[q] \in Evicting
    BY <1>0, <1>7 DEF Refuse, Moves
  <2>3. QED
    BY <2>1, <2>2, LimitStays DEF Residents, Resident, InUse
<1>8. CASE TimesOut(r)
  <2>1. UNCHANGED <<users, slot>>
    BY <1>8 DEF TimesOut, registry, pools
  <2>2. \A q \in Request : phase[q] \in Evicting => phase'[q] \in Evicting
    BY <1>0, <1>8 DEF TimesOut, Moves
  <2>3. QED
    BY <2>1, <2>2, LimitStays DEF Residents, Resident, InUse
<1>9. CASE WakeUp(r)
  <2>1. UNCHANGED <<users, slot>>
    BY <1>9 DEF WakeUp, registry, pools
  <2>2. \A q \in Request : phase[q] \in Evicting => phase'[q] \in Evicting
    BY <1>0, <1>9 DEF WakeUp, Take, Moves
  <2>3. QED
    BY <2>1, <2>2, LimitStays DEF Residents, Resident, InUse
<1>10. CASE Hangup(r)
  <2>1. UNCHANGED <<users, slot>>
    BY <1>10 DEF Hangup, registry, pools
  <2>2. \A q \in Request : phase[q] \in Evicting => phase'[q] \in Evicting
    BY <1>0, <1>10 DEF Hangup, Moves
  <2>3. QED
    BY <2>1, <2>2, LimitStays DEF Residents, Resident, InUse
<1>11. CASE Generate(r)
  <2>1. UNCHANGED users
    BY <1>11 DEF Generate, registry
  <2>2. \A q \in Request : phase[q] \in Evicting => phase'[q] \in Evicting
    BY <1>0, <1>11 DEF Generate, Moves, Notified
  <2>3. phase[r] # "idle" /\ Becomes(r, [MySlot(r) EXCEPT !.busy = TRUE, !.cache = Mixed])
    BY <1>11 DEF Generate
  <2>4. \A m \in Model : Resident(m)' <=> Resident(m)
    BY <2>3, SlotStep, SettledIsASlot
  <2>5. QED
    BY <2>1, <2>2, <2>4, LimitStays DEF Residents, InUse
<1>12. CASE Finish(r)
  <2>1. UNCHANGED users
    BY <1>12 DEF Finish, registry
  <2>2. \A q \in Request : phase[q] \in Evicting => phase'[q] \in Evicting
    BY <1>0, <1>12 DEF Finish, Moves, Notified
  <2>3. phase[r] # "idle" /\ Becomes(r, [MySlot(r) EXCEPT !.busy = FALSE, !.cache = wants[r].key])
    BY <1>12 DEF Finish
  <2>4. \A m \in Model : Resident(m)' <=> Resident(m)
    BY <2>3, SlotStep, SettledIsASlot
  <2>5. QED
    BY <2>1, <2>2, <2>4, LimitStays DEF Residents, InUse
<1>13. CASE Raise(r)
  <2>1. UNCHANGED users
    BY <1>13 DEF Raise, registry
  <2>2. \A q \in Request : phase[q] \in Evicting => phase'[q] \in Evicting
    BY <1>0, <1>13 DEF Raise, Moves, Notified
  <2>3. phase[r] # "idle" /\ Becomes(r, [MySlot(r) EXCEPT !.busy = FALSE])
    BY <1>13 DEF Raise
  <2>4. \A m \in Model : Resident(m)' <=> Resident(m)
    BY <2>3, SlotStep, SettledIsASlot
  <2>5. QED
    BY <2>1, <2>2, <2>4, LimitStays DEF Residents, InUse
<1>14. CASE Return(r)
  <2>1. UNCHANGED users
    BY <1>14 DEF Return, registry
  <2>2. \A q \in Request : phase[q] \in Evicting => phase'[q] \in Evicting
    BY <1>0, <1>14 DEF Return, Moves, Notified
  <2>3. phase[r] # "idle" /\ Becomes(r, Settled(r))
    BY <1>14 DEF Return
  <2>4. \A m \in Model : Resident(m)' <=> Resident(m)
    BY <2>3, SlotStep, SettledIsASlot
  <2>5. QED
    BY <2>1, <2>2, <2>4, LimitStays DEF Residents, InUse
<1>15. QED
  BY <1>1, <1>2, <1>3, <1>4, <1>5, <1>6, <1>7, <1>8, <1>9, <1>10, <1>11, <1>12, <1>13, <1>14 DEF Registering, Serving

LEMMA OthersKeepLimit ==
  ASSUME Typed, Placed, PinnedStaysOpen, LimitComesBack,
         \/ \E m \in Model : \E i \in DOMAIN slot[m] : WorkerEnds(m, i)
         \/ \E taken \in SUBSET Evictable : Reap(taken)
         \/ CloseStale \/ StopServing \/ CloseRegistry \/ UNCHANGED vars
  PROVE  LimitComesBack'
<1>1. ASSUME NEW m \in Model, NEW i \in DOMAIN slot[m], WorkerEnds(m, i)
      PROVE  LimitComesBack'
  <2>1. slot[m][i] \in SlotState
    BY ElementOfSeq DEF Typed, TypedPools
  <2>2. [slot[m][i] EXCEPT !.busy = FALSE] \in SlotState
    BY <2>1 DEF SlotState
  <2>3. slot' = [slot EXCEPT ![m][i] = [slot[m][i] EXCEPT !.busy = FALSE]]
    BY <1>1 DEF WorkerEnds
  <2>4. \A e \in Model : Resident(e)' <=> Resident(e)
    BY <2>2, <2>3, PoolShape
  <2>5. UNCHANGED <<phase, users>>
    BY <1>1 DEF WorkerEnds, registry
  <2>6. QED
    BY <2>4, <2>5, LimitStays DEF Residents, InUse
<1>2. ASSUME NEW taken, TakeOut(taken), UNCHANGED <<phase, users>> PROVE LimitComesBack'
  BY <1>2, TakeOutStep, LimitStays DEF Residents, InUse
<1>3. CASE CloseStale \/ StopServing \/ UNCHANGED vars
  <2>1. UNCHANGED <<phase, users, slot>>
    BY <1>3 DEF CloseStale, StopServing, vars, registry, pools
  <2>2. QED
    BY <2>1, LimitStays DEF Residents, Resident, InUse
<1>4. QED
  BY <1>1, <1>2, <1>3 DEF Reap, CloseRegistry

(* More models than the limit are resident only while each of them is in   *)
(* use or somebody is about to bring them down to it                       *)
(* (ModelRegistry._evict_over_limit).                                      *)
THEOREM ServerKeepsLimit == Spec => []LimitComesBack
<1>1. Init => LimitComesBack
  <2> SUFFICES ASSUME Init PROVE LimitComesBack
    OBVIOUS
  <2>1. Evictable = {}
    BY DEF Init, Evictable, Residents, Resident
  <2>2. QED
    BY <2>1 DEF LimitComesBack
<1>2. Typed /\ Placed /\ PinnedStaysOpen /\ LimitComesBack /\ [Next]_vars => LimitComesBack'
  BY RequestKeepsLimit, OthersKeepLimit DEF Next
<1>3. QED
  BY <1>1, <1>2, WellTyped, ServerKeepsPinnedOpen, PTL DEF Spec

-----------------------------------------------------------------------------
(* The fourth layer: slots are served, given back and remembered.          *)

Holds(r, m) == phase[r] \in Holding /\ At(r) = m

(* SlotsAreLeasedOnce, slot by slot and request by request.                *)
FreeOnce == \A m \in Model : IsInjective(free[m]) /\ ToSet(free[m]) \subseteq DOMAIN slot[m]
HeldIsNotFree ==
  \A m \in Model : \A r \in Request :
    Holds(r, m) => lease[r] \in DOMAIN slot[m] /\ lease[r] \notin ToSet(free[m])
NotFreeIsHeld ==
  \A m \in Model : \A i \in DOMAIN slot[m] :
    i \notin ToSet(free[m]) => \E r \in Request : Holds(r, m) /\ lease[r] = i
HeldByOne ==
  \A m \in Model : \A r, q \in Request :
    Holds(r, m) /\ Holds(q, m) /\ lease[r] = lease[q] => q = r

Shared == FreeOnce /\ HeldIsNotFree /\ NotFreeIsHeld /\ HeldByOne

LEMMA HoldersPin ==
  ASSUME Typed, Placed, NEW r \in Request, NEW m \in Model
  PROVE  Holds(r, m) <=> r \in Pinning(m) /\ phase[r] \in Holding
BY NamesOfPhases DEF PhaseNames, Idle, Holding, Holds, Pinning, Placed

LEMMA SharedIsLeasedOnce ==
  ASSUME Typed, Placed, Shared
  PROVE  SlotsAreLeasedOnce
<1>1. ASSUME NEW m \in Model
      PROVE  Leased(m) = DOMAIN slot[m] \ ToSet(free[m])
  <2>1. ASSUME NEW i \in Leased(m) PROVE i \in DOMAIN slot[m] /\ i \notin ToSet(free[m])
    <3>1. PICK r \in Pinning(m) : phase[r] \in Holding /\ i = lease[r]
      BY DEF Leased
    <3>2. r \in Request /\ Holds(r, m)
      BY <3>1 DEF Pinning, Holds
    <3>3. QED
      BY <3>1, <3>2 DEF Shared, HeldIsNotFree
  <2>2. ASSUME NEW i \in DOMAIN slot[m], i \notin ToSet(free[m]) PROVE i \in Leased(m)
    <3>1. PICK r \in Request : Holds(r, m) /\ lease[r] = i
      BY <2>2 DEF Shared, NotFreeIsHeld
    <3>2. r \in Pinning(m) /\ phase[r] \in Holding
      BY <3>1, HoldersPin
    <3>3. QED
      BY <3>1, <3>2 DEF Leased
  <2>3. QED
    BY <2>1, <2>2
<1>2. ASSUME NEW m \in Model, NEW r \in Pinning(m), NEW q \in Pinning(m),
             phase[r] \in Holding, phase[q] \in Holding, lease[r] = lease[q]
      PROVE  q = r
  <2>1. r \in Request /\ q \in Request /\ Holds(r, m) /\ Holds(q, m)
    BY <1>2 DEF Pinning, Holds
  <2>2. QED
    BY <1>2, <2>1 DEF Shared, HeldByOne
<1>3. QED
  BY <1>1, <1>2 DEF SlotsAreLeasedOnce, Shared, FreeOnce

(* A step that leases and gives back nothing.                              *)
LEMMA LeasesStay ==
  ASSUME Shared, UNCHANGED <<lease, free>>,
         \A m \in Model : DOMAIN slot'[m] = DOMAIN slot[m],
         \A q \in Request : \A m \in Model : Holds(q, m)' <=> Holds(q, m)
  PROVE  Shared'
<1>1. FreeOnce'
  BY DEF Shared, FreeOnce
<1>2. HeldIsNotFree'
  BY DEF Shared, HeldIsNotFree
<1>3. NotFreeIsHeld'
  BY DEF Shared, NotFreeIsHeld
<1>4. HeldByOne'
  BY DEF Shared, HeldByOne
<1>5. QED
  BY <1>1, <1>2, <1>3, <1>4 DEF Shared

(* A step that opens, or closes, models whose slots nobody holds.          *)
LEMMA LeasesOfOthers ==
  ASSUME Shared, UNCHANGED lease,
         \A q \in Request : \A m \in Model : Holds(q, m)' <=> Holds(q, m),
         NEW S, \A m \in Model : m \in S =>
                  /\ \A q \in Request : ~Holds(q, m)
                  /\ IsInjective(free'[m]) /\ ToSet(free'[m]) = DOMAIN slot'[m],
         \A m \in Model : m \notin S => slot'[m] = slot[m] /\ free'[m] = free[m]
  PROVE  Shared'
<1>1. FreeOnce'
  <2>1. ASSUME NEW m \in Model
        PROVE  IsInjective(free'[m]) /\ ToSet(free'[m]) \subseteq DOMAIN slot'[m]
    <3>1. CASE m \in S
      BY <3>1
    <3>2. CASE m \notin S
      BY <3>2 DEF Shared, FreeOnce
    <3>3. QED
      BY <3>1, <3>2
  <2>2. QED
    BY <2>1 DEF FreeOnce
<1>2. HeldIsNotFree'
  BY DEF Shared, HeldIsNotFree
<1>3. NotFreeIsHeld'
  <2>1. ASSUME NEW m \in Model, NEW i \in DOMAIN slot'[m], i \notin ToSet(free'[m])
        PROVE  \E r \in Request : Holds(r, m)' /\ lease'[r] = i
    <3>1. m \notin S /\ i \in DOMAIN slot[m] /\ i \notin ToSet(free[m])
      BY <2>1
    <3>2. PICK r \in Request : Holds(r, m) /\ lease[r] = i
      BY <3>1 DEF Shared, NotFreeIsHeld
    <3>3. QED
      BY <3>2
  <2>2. QED
    BY <2>1 DEF NotFreeIsHeld
<1>4. HeldByOne'
  BY DEF Shared, HeldByOne
<1>5. QED
  BY <1>1, <1>2, <1>3, <1>4 DEF Shared

LEMMA LeaseTaken ==
  ASSUME Typed, Placed, Shared, NEW r \in Request, phase[r] # Idle, phase[r] \notin Holding,
         Take(r), UNCHANGED <<wants, slot>>
  PROVE  Shared'
<1> USE NamesOfPhases DEF PhaseNames, Idle, Holding
<1> DEFINE e == At(r)
<1>1. e \in Model
  BY AskedFor
<1>2. /\ phase' = [phase EXCEPT ![r] = "leased"] /\ phase \in [Request -> Phases]
      /\ \A q \in Request : At(q)' = At(q)
  BY DEF Take, Moves, Typed, TypedThreads, At
<1>3. /\ \A m \in Model : m # e => free'[m] = free[m]
      /\ \A q \in Request : q # r => lease'[q] = lease[q]
      /\ lease'[r] \in ToSet(free[e])
  BY TakeStep
<1>4. IsInjective(free[e]) /\ ToSet(free[e]) \subseteq DOMAIN slot[e]
  BY <1>1 DEF Shared, FreeOnce
<1>5. IsInjective(free'[e]) /\ ToSet(free'[e]) = ToSet(free[e]) \ {lease'[r]}
  BY <1>4, TakeStep
<1>6. \A q \in Request : \A m \in Model :
        Holds(q, m)' <=> (Holds(q, m) \/ (q = r /\ m = e))
  BY <1>2 DEF Holds
<1>7. ~Holds(r, e)
  BY DEF Holds
<1> HIDE DEF e
<1>8. FreeOnce'
  BY <1>3, <1>4, <1>5 DEF Shared, FreeOnce
<1>9. HeldIsNotFree'
  <2>1. ASSUME NEW m \in Model, NEW q \in Request, Holds(q, m)'
        PROVE  lease'[q] \in DOMAIN slot'[m] /\ lease'[q] \notin ToSet(free'[m])
    <3>1. CASE q = r
      <4>1. m = e
        BY <1>2, <2>1, <3>1 DEF Holds, e
      <4>2. QED
        BY <1>3, <1>4, <1>5, <3>1, <4>1
    <3>2. CASE q # r
      <4>1. Holds(q, m) /\ lease'[q] = lease[q]
        BY <1>3, <1>6, <2>1, <3>2
      <4>2. lease[q] \in DOMAIN slot[m] /\ lease[q] \notin ToSet(free[m])
        BY <4>1 DEF Shared, HeldIsNotFree
      <4>3. QED
        BY <1>3, <1>5, <4>1, <4>2
    <3>3. QED
      BY <3>1, <3>2
  <2>2. QED
    BY <2>1 DEF HeldIsNotFree
<1>10. NotFreeIsHeld'
  <2>1. ASSUME NEW m \in Model, NEW i \in DOMAIN slot'[m], i \notin ToSet(free'[m])
        PROVE  \E q \in Request : Holds(q, m)' /\ lease'[q] = i
    <3>1. CASE m = e /\ i = lease'[r]
      BY <1>6, <3>1
    <3>2. CASE ~(m = e /\ i = lease'[r])
      <4>1. i \in DOMAIN slot[m] /\ i \notin ToSet(free[m])
        BY <1>3, <1>5, <2>1, <3>2
      <4>2. PICK q \in Request : Holds(q, m) /\ lease[q] = i
        BY <4>1 DEF Shared, NotFreeIsHeld
      <4>3. q # r
        BY <4>2 DEF Holds
      <4>4. QED
        BY <1>3, <1>6, <4>2, <4>3
    <3>3. QED
      BY <3>1, <3>2
  <2>2. QED
    BY <2>1 DEF NotFreeIsHeld
<1>11. HeldByOne'
  <2>1. ASSUME NEW m \in Model, NEW p \in Request, NEW q \in Request,
               Holds(p, m)', Holds(q, m)', lease'[p] = lease'[q]
        PROVE  p = q
    <3>1. ASSUME NEW x \in Request, x # r, Holds(x, m)', m = e PROVE lease'[x] # lease'[r]
      <4>1. lease'[x] \notin ToSet(free[e])
        BY <1>3, <1>6, <3>1 DEF Shared, HeldIsNotFree
      <4>2. QED
        BY <1>3, <4>1
    <3>2. CASE p = r \/ q = r
      <4>1. m = e
        BY <1>2, <2>1, <3>2 DEF Holds, e
      <4>2. QED
        BY <2>1, <3>1, <3>2, <4>1
    <3>3. CASE p # r /\ q # r
      BY <1>3, <1>6, <2>1, <3>3 DEF Shared, HeldByOne
    <3>4. QED
      BY <3>2, <3>3
  <2>2. QED
    BY <2>1 DEF HeldByOne
<1>12. QED
  BY <1>8, <1>9, <1>10, <1>11 DEF Shared

LEMMA LeaseReturned ==
  ASSUME Typed, Placed, Shared, NEW r \in Request, Return(r)
  PROVE  Shared'
<1> USE NamesOfPhases DEF PhaseNames, Idle, Holding
<1> DEFINE e == At(r)
           i == lease[r]
<1>1. e \in Model /\ Holds(r, e)
  BY AskedFor DEF Return, Holds
<1>2. /\ phase' = [q \in Request |->
                     IF q = r THEN "unpin"
                     ELSE IF q \in Notified(e) /\ phase[q] = "wait" THEN "woken" ELSE phase[q]]
      /\ \A q \in Request : At(q)' = At(q)
  BY DEF Return, At
<1>3. \A q \in Request : \A m \in Model : Holds(q, m)' <=> Holds(q, m) /\ q # r
  BY <1>2 DEF Holds
<1>4. lease \in [Request -> Leases] /\ free \in [Model -> Seq(Nat)]
  BY DEF Typed, TypedThreads, TypedPools
<1>5. /\ i \in DOMAIN slot[e] /\ i \notin ToSet(free[e])
      /\ IsInjective(free[e]) /\ ToSet(free[e]) \subseteq DOMAIN slot[e]
  BY <1>1 DEF Shared, FreeOnce, HeldIsNotFree
<1>6. i \in Nat
  BY <1>1, ServerAssumption DEF Placed, Return
<1>7. /\ IsInjective(Append(free[e], i))
      /\ ToSet(Append(free[e], i)) = ToSet(free[e]) \cup {i}
  BY <1>1, <1>4, <1>5, <1>6, AppendSet
<1>8. /\ IsInjective(free'[e]) /\ ToSet(free'[e]) = ToSet(free[e]) \cup {i}
      /\ \A m \in Model : m # e => free'[m] = free[m]
      /\ \A q \in Request : q # r => lease'[q] = lease[q]
  BY <1>1, <1>4, <1>7 DEF Return
<1>9. \A m \in Model : DOMAIN slot'[m] = DOMAIN slot[m]
  <2>1. phase[r] # "idle" /\ Becomes(r, Settled(r))
    BY DEF Return
  <2>2. QED
    BY <2>1, SlotStep, SettledIsASlot
<1> HIDE DEF e, i
<1>10. FreeOnce'
  BY <1>5, <1>8, <1>9 DEF Shared, FreeOnce
<1>11. HeldIsNotFree'
  <2>1. ASSUME NEW m \in Model, NEW q \in Request, Holds(q, m)'
        PROVE  lease'[q] \in DOMAIN slot'[m] /\ lease'[q] \notin ToSet(free'[m])
    <3>1. Holds(q, m) /\ q # r /\ lease'[q] = lease[q]
      BY <1>3, <1>8, <2>1
    <3>2. lease[q] \in DOMAIN slot[m] /\ lease[q] \notin ToSet(free[m])
      BY <3>1 DEF Shared, HeldIsNotFree
    <3>3. m = e => lease[q] # i
      BY <1>1, <3>1 DEF Shared, HeldByOne, i
    <3>4. QED
      BY <1>8, <1>9, <3>1, <3>2, <3>3
  <2>2. QED
    BY <2>1 DEF HeldIsNotFree
<1>12. NotFreeIsHeld'
  <2>1. ASSUME NEW m \in Model, NEW j \in DOMAIN slot'[m], j \notin ToSet(free'[m])
        PROVE  \E q \in Request : Holds(q, m)' /\ lease'[q] = j
    <3>1. j \in DOMAIN slot[m] /\ j \notin ToSet(free[m]) /\ (m = e => j # i)
      BY <1>8, <1>9, <2>1
    <3>2. PICK q \in Request : Holds(q, m) /\ lease[q] = j
      BY <3>1 DEF Shared, NotFreeIsHeld
    <3>3. q # r
      BY <3>1, <3>2 DEF Holds, e, i
    <3>4. QED
      BY <1>3, <1>8, <3>2, <3>3
  <2>2. QED
    BY <2>1 DEF NotFreeIsHeld
<1>13. HeldByOne'
  BY <1>3, <1>8 DEF Shared, HeldByOne
<1>14. QED
  BY <1>10, <1>11, <1>12, <1>13 DEF Shared

(* A finished run is what its handle's cache was built from.               *)
RunsAreBuilt ==
  \A r \in Request :
    phase[r] = "done" => ~MySlot(r).busy /\ MySlot(r).cache = wants[r].key

Sound == Shared /\ RunsAreBuilt /\ FreeSlotsRememberTruly

(* A step on a slot that is leased leaves every other slot as it is.       *)
LEMMA BecomesOnly ==
  ASSUME Typed, Placed, Shared, NEW r \in Request, phase[r] \in Holding,
         NEW x, Becomes(r, x)
  PROVE  /\ At(r) \in Model /\ lease[r] \in DOMAIN slot[At(r)] /\ MySlot(r) \in SlotState
         /\ slot'[At(r)][lease[r]] = x
         /\ \A m \in Model : m # At(r) => slot'[m] = slot[m]
         /\ \A i \in DOMAIN slot[At(r)] : i # lease[r] => slot'[At(r)][i] = slot[At(r)][i]
<1>1. phase[r] # Idle /\ At(r) \in Model
  BY AskedFor DEF Holding, Idle
<1>2. lease[r] \in DOMAIN slot[At(r)]
  BY <1>1 DEF Shared, HeldIsNotFree, Holds
<1>3. slot \in [Model -> Seq(SlotState)]
  BY DEF Typed, TypedPools
<1>4. MySlot(r) \in SlotState
  BY <1>1, <1>2, <1>3, ElementOfSeq DEF MySlot
<1>5. slot' = [slot EXCEPT ![At(r)] = [slot[At(r)] EXCEPT ![lease[r]] = x]]
  BY DEF Becomes
<1>6. slot'[At(r)] = [slot[At(r)] EXCEPT ![lease[r]] = x]
  BY <1>1, <1>3, <1>5
<1>7. QED
  BY <1>1, <1>2, <1>3, <1>4, <1>5, <1>6

(* A step that runs, finishes and settles nothing.                         *)
LEMMA ContentsStay ==
  ASSUME Sound, Shared', UNCHANGED slot,
         \A m \in Model : ToSet(free'[m]) \subseteq ToSet(free[m]),
         \A q \in Request : phase'[q] = "done" =>
           phase[q] = "done" /\ wants'[q] = wants[q] /\ lease'[q] = lease[q]
  PROVE  Sound'
<1>1. RunsAreBuilt'
  BY DEF Sound, RunsAreBuilt, MySlot, At
<1>2. FreeSlotsRememberTruly'
  BY DEF Sound, FreeSlotsRememberTruly
<1>3. QED
  BY <1>1, <1>2 DEF Sound

(* What a request does to the slot it holds.                               *)
LEMMA ContentsOfOwn ==
  ASSUME Typed, Placed, Sound, NEW r \in Request, phase[r] \in Holding,
         NEW x, MySlot(r) \in SlotState => x \in SlotState, Becomes(r, x),
         UNCHANGED <<wants, lease, free>>,
         NEW to \in Holding, phase' = [phase EXCEPT ![r] = to],
         to = "done" => ~x.busy /\ x.cache = wants[r].key
  PROVE  Sound'
<1> USE NamesOfPhases DEF PhaseNames, Idle, Holding
<1>1. Shared /\ phase \in [Request -> Phases]
  BY DEF Sound, Typed, TypedThreads
<1>2. /\ At(r) \in Model /\ lease[r] \in DOMAIN slot[At(r)]
      /\ slot'[At(r)][lease[r]] = x
      /\ \A m \in Model : m # At(r) => slot'[m] = slot[m]
      /\ \A i \in DOMAIN slot[At(r)] : i # lease[r] => slot'[At(r)][i] = slot[At(r)][i]
  BY <1>1, BecomesOnly
<1>3. \A q \in Request : At(q)' = At(q)
  BY DEF At
<1>4. Shared'
  <2>1. \A m \in Model : DOMAIN slot'[m] = DOMAIN slot[m]
    BY SlotStep
  <2>2. \A q \in Request : phase'[q] \in Holding <=> phase[q] \in Holding
    BY <1>1
  <2>3. \A q \in Request : \A m \in Model : Holds(q, m)' <=> Holds(q, m)
    BY <1>3, <2>2 DEF Holds
  <2>4. QED
    BY <1>1, <2>1, <2>3, LeasesStay
<1>5. RunsAreBuilt'
  <2>1. ASSUME NEW q \in Request, phase'[q] = "done"
        PROVE  ~slot'[At(q)][lease[q]].busy /\ slot'[At(q)][lease[q]].cache = wants[q].key
    <3>1. CASE q = r
      BY <1>1, <1>2, <2>1, <3>1
    <3>2. CASE q # r
      <4>1. phase[q] = "done" /\ At(q) \in Model
        BY <1>1, <2>1, <3>2, AskedFor
      <4>2. ~slot[At(q)][lease[q]].busy /\ slot[At(q)][lease[q]].cache = wants[q].key
        BY <4>1 DEF Sound, RunsAreBuilt, MySlot
      <4>3. lease[q] \in DOMAIN slot[At(q)] /\ (At(q) = At(r) => lease[q] # lease[r])
        BY <1>1, <3>2, <4>1 DEF Shared, HeldIsNotFree, HeldByOne, Holds
      <4>4. slot'[At(q)][lease[q]] = slot[At(q)][lease[q]]
        BY <1>2, <4>1, <4>3
      <4>5. QED
        BY <4>2, <4>4
    <3>3. QED
      BY <3>1, <3>2
  <2>2. QED
    BY <1>3, <2>1 DEF RunsAreBuilt, MySlot
<1>6. FreeSlotsRememberTruly'
  <2>1. ASSUME NEW m \in Model, NEW i \in ToSet(free'[m])
        PROVE  ~slot'[m][i].busy /\ slot'[m][i].cache = slot'[m][i].affinity
    <3>1. /\ i \in ToSet(free[m]) /\ (m = At(r) => i # lease[r])
          /\ i \in DOMAIN slot[m]
      BY <1>1 DEF Shared, FreeOnce, HeldIsNotFree, Holds
    <3>2. slot'[m][i] = slot[m][i]
      BY <1>2, <3>1
    <3>3. QED
      BY <3>1, <3>2 DEF Sound, FreeSlotsRememberTruly
  <2>2. QED
    BY <2>1 DEF FreeSlotsRememberTruly
<1>7. QED
  BY <1>4, <1>5, <1>6 DEF Sound

LEMMA SoundAfterReturn ==
  ASSUME Typed, Placed, Sound, NEW r \in Request, Return(r)
  PROVE  Sound'
<1> USE NamesOfPhases DEF PhaseNames, Idle, Holding
<1>1. /\ Shared /\ phase[r] \in {"done", "failed"} /\ Becomes(r, Settled(r))
      /\ wants' = wants
  BY DEF Sound, Return
<1>2. /\ At(r) \in Model /\ lease[r] \in DOMAIN slot[At(r)] /\ MySlot(r) \in SlotState
      /\ slot'[At(r)][lease[r]] = Settled(r)
      /\ \A m \in Model : m # At(r) => slot'[m] = slot[m]
      /\ \A i \in DOMAIN slot[At(r)] : i # lease[r] => slot'[At(r)][i] = slot[At(r)][i]
  BY <1>1, BecomesOnly
<1>3. Shared'
  BY <1>1, LeaseReturned
<1>4. ~Settled(r).busy /\ Settled(r).cache = Settled(r).affinity
  <2>1. ~MySlot(r).busy /\ (phase[r] = "done" => MySlot(r).cache = wants[r].key)
    BY <1>1 DEF Return, Sound, RunsAreBuilt
  <2>2. QED
    BY <1>2, <2>1 DEF Settled, SlotState
<1>5. \A q \in Request : phase'[q] = "done" =>
        /\ phase[q] = "done" /\ q # r /\ lease'[q] = lease[q] /\ At(q)' = At(q)
  BY DEF Return, Typed, TypedThreads, At
<1>6. RunsAreBuilt'
  <2>1. ASSUME NEW q \in Request, phase'[q] = "done"
        PROVE  ~slot'[At(q)][lease'[q]].busy /\ slot'[At(q)][lease'[q]].cache = wants[q].key
    <3>1. phase[q] = "done" /\ q # r /\ At(q) \in Model
      BY <1>5, <2>1, AskedFor
    <3>2. ~slot[At(q)][lease[q]].busy /\ slot[At(q)][lease[q]].cache = wants[q].key
      BY <3>1 DEF Sound, RunsAreBuilt, MySlot
    <3>3. lease[q] \in DOMAIN slot[At(q)] /\ (At(q) = At(r) => lease[q] # lease[r])
      BY <1>1, <1>2, <3>1 DEF Shared, HeldIsNotFree, HeldByOne, Holds
    <3>4. QED
      BY <1>2, <1>5, <2>1, <3>1, <3>2, <3>3
  <2>2. QED
    BY <1>1, <1>5, <2>1 DEF RunsAreBuilt, MySlot
<1>7. FreeSlotsRememberTruly'
  <2>1. ASSUME NEW m \in Model, NEW i \in ToSet(free'[m])
        PROVE  ~slot'[m][i].busy /\ slot'[m][i].cache = slot'[m][i].affinity
    <3>1. CASE m = At(r) /\ i = lease[r]
      BY <1>2, <1>4, <3>1
    <3>2. CASE ~(m = At(r) /\ i = lease[r])
      <4>1. ToSet(free'[m]) \subseteq ToSet(free[m]) \cup (IF m = At(r) THEN {lease[r]} ELSE {})
        <5>1. free \in [Model -> Seq(Nat)] /\ lease[r] \in Nat
          BY <1>1, <1>2, ServerAssumption DEF Typed, TypedPools, Placed
        <5>2. ToSet(Append(free[At(r)], lease[r])) = ToSet(free[At(r)]) \cup {lease[r]}
          BY <1>2, <5>1, AppendSet
        <5>3. QED
          BY <1>2, <5>1, <5>2 DEF Return
      <4>2. i \in ToSet(free[m])
        BY <3>2, <4>1
      <4>3. i \in DOMAIN slot[m]
        BY <1>1, <4>2 DEF Shared, FreeOnce
      <4>4. slot'[m][i] = slot[m][i]
        BY <1>2, <3>2, <4>3
      <4>5. QED
        BY <4>2, <4>4 DEF Sound, FreeSlotsRememberTruly
    <3>3. QED
      BY <3>1, <3>2
  <2>2. QED
    BY <2>1 DEF FreeSlotsRememberTruly
<1>8. QED
  BY <1>3, <1>6, <1>7 DEF Sound

LEMMA SoundAfterLoad ==
  ASSUME Typed, Placed, PinnedStaysOpen, Sound, NEW r \in Request, Load(r)
  PROVE  Sound'
<1> USE NamesOfPhases DEF PhaseNames, Idle, Holding
<1> DEFINE e == At(r)
<1>1. e \in Model /\ ~Resident(e) /\ phase \in [Request -> Phases] /\ Shared
  BY AskedFor DEF Load, PinnedStaysOpen, OneLoads, Sound, Typed, TypedThreads
<1>2. /\ phase' = [phase EXCEPT ![r] = "evict"] /\ phase[r] = "load"
      /\ UNCHANGED <<wants, lease, waiters>>
      /\ slot' = [slot EXCEPT ![e] = [i \in 1..Slots[e] |-> Fresh]]
      /\ free' = [free EXCEPT ![e] = [i \in 1..Slots[e] |-> i]]
  BY DEF Load, Moves
<1>3. \A m \in Model : m # e => slot'[m] = slot[m] /\ free'[m] = free[m]
  BY <1>1, <1>2, PoolsOfMore
<1>4. /\ IsInjective(free'[e]) /\ ToSet(free'[e]) = DOMAIN slot'[e]
      /\ slot'[e] = [i \in 1..Slots[e] |-> Fresh]
  BY <1>1, <1>2, PoolsOfMore
<1>5. \A q \in Request : ~Holds(q, e)
  BY <1>1, HoldersPin DEF PinnedStaysOpen, PinnedIsResident
<1>6. \A q \in Request : At(q)' = At(q)
  BY <1>2 DEF At
<1>7. \A q \in Request : \A m \in Model : Holds(q, m)' <=> Holds(q, m)
  BY <1>1, <1>2, <1>6 DEF Holds
<1> HIDE DEF e
<1>8. Shared'
  <2>1. \A m \in Model : m \in {e} =>
          /\ \A q \in Request : ~Holds(q, m)
          /\ IsInjective(free'[m]) /\ ToSet(free'[m]) = DOMAIN slot'[m]
    BY <1>4, <1>5
  <2>2. \A m \in Model : m \notin {e} => slot'[m] = slot[m] /\ free'[m] = free[m]
    BY <1>3
  <2>3. QED
    BY <1>1, <1>2, <1>7, <2>1, <2>2, LeasesOfOthers
<1>9. RunsAreBuilt'
  <2>1. ASSUME NEW q \in Request, phase'[q] = "done"
        PROVE  ~slot'[At(q)][lease[q]].busy /\ slot'[At(q)][lease[q]].cache = wants[q].key
    <3>1. phase[q] = "done" /\ At(q) \in Model
      BY <1>1, <1>2, <2>1, AskedFor
    <3>2. At(q) # e
      BY <1>5, <3>1 DEF Holds
    <3>3. QED
      BY <1>3, <3>1, <3>2 DEF Sound, RunsAreBuilt, MySlot
  <2>2. QED
    BY <1>2, <1>6, <2>1 DEF RunsAreBuilt, MySlot
<1>10. FreeSlotsRememberTruly'
  <2>1. ASSUME NEW m \in Model, NEW i \in ToSet(free'[m])
        PROVE  ~slot'[m][i].busy /\ slot'[m][i].cache = slot'[m][i].affinity
    <3>1. CASE m = e
      <4>1. slot'[m][i] = Fresh
        BY <1>4, <3>1
      <4>2. QED
        BY <4>1 DEF Fresh
    <3>2. CASE m # e
      BY <1>3, <3>2 DEF Sound, FreeSlotsRememberTruly
    <3>3. QED
      BY <3>1, <3>2
  <2>2. QED
    BY <2>1 DEF FreeSlotsRememberTruly
<1>11. QED
  BY <1>8, <1>9, <1>10 DEF Sound

LEMMA SoundAfterClosing ==
  ASSUME Typed, Placed, Sound, NEW taken, TakeOut(taken), UNCHANGED lease,
         \A m \in taken \cap Model : Pinning(m) = {},
         \A q \in Request : \A m \in Model : Holds(q, m)' <=> Holds(q, m),
         \A q \in Request : phase'[q] = "done" =>
           phase[q] = "done" /\ wants'[q] = wants[q]
  PROVE  Sound'
<1>1. \A m \in Model : m \in taken => \A q \in Request : ~Holds(q, m)
  BY HoldersPin
<1>2. IsInjective(<<>>) /\ ToSet(<<>>) = {} /\ DOMAIN <<>> = {}
  BY DEF IsInjective, ToSet
<1>3. \A m \in Model : m \in taken => slot'[m] = <<>> /\ free'[m] = <<>>
  BY TakeOutStep
<1>4. \A m \in Model : m \notin taken => slot'[m] = slot[m] /\ free'[m] = free[m]
  BY TakeOutStep
<1>5. Shared'
  <2>1. \A m \in Model : m \in taken => IsInjective(free'[m]) /\ ToSet(free'[m]) = DOMAIN slot'[m]
    BY <1>2, <1>3
  <2>2. \A m \in Model : m \in taken =>
          /\ \A q \in Request : ~Holds(q, m)
          /\ IsInjective(free'[m]) /\ ToSet(free'[m]) = DOMAIN slot'[m]
    BY <1>1, <2>1
  <2>3. Shared
    BY DEF Sound
  <2>4. QED
    BY <1>4, <2>2, <2>3, LeasesOfOthers
<1>6. RunsAreBuilt'
  <2>1. ASSUME NEW q \in Request, phase'[q] = "done"
        PROVE  ~slot'[At(q)'][lease[q]].busy /\ slot'[At(q)'][lease[q]].cache = wants'[q].key
    <3>1. phase[q] = "done" /\ wants'[q] = wants[q] /\ At(q) \in Model /\ At(q)' = At(q)
      BY <2>1, AskedFor DEF Idle, At
    <3>2. At(q) \notin taken
      BY <1>1, <3>1 DEF Holds, Holding
    <3>3. QED
      BY <1>4, <3>1, <3>2 DEF Sound, RunsAreBuilt, MySlot
  <2>2. QED
    BY <2>1 DEF RunsAreBuilt, MySlot
<1>7. FreeSlotsRememberTruly'
  <2>1. ASSUME NEW m \in Model, NEW i \in ToSet(free'[m])
        PROVE  ~slot'[m][i].busy /\ slot'[m][i].cache = slot'[m][i].affinity
    <3>1. m \notin taken
      BY <1>2, <1>3
    <3>2. QED
      BY <1>4, <3>1 DEF Sound, FreeSlotsRememberTruly
  <2>2. QED
    BY <2>1 DEF FreeSlotsRememberTruly
<1>8. QED
  BY <1>5, <1>6, <1>7 DEF Sound

(* A step that concerns no slot.                                           *)
LEMMA SoundRest ==
  ASSUME Sound, UNCHANGED <<slot, lease, free>>,
         \A q \in Request : phase[q] \in Holding \/ phase'[q] \in Holding =>
           phase'[q] = phase[q] /\ wants'[q] = wants[q]
  PROVE  Sound'
<1>1. \A q \in Request : \A m \in Model : Holds(q, m)' <=> Holds(q, m)
  BY DEF Holds, At
<1>2. Shared'
  BY <1>1, LeasesStay DEF Sound
<1>3. \A q \in Request : phase'[q] = "done" =>
        phase[q] = "done" /\ wants'[q] = wants[q] /\ lease'[q] = lease[q]
  BY DEF Holding
<1>4. QED
  BY <1>2, <1>3, ContentsStay

LEMMA SoundAfterTake ==
  ASSUME Typed, Placed, Sound, NEW r \in Request, phase[r] # Idle, phase[r] \notin Holding,
         Take(r), UNCHANGED <<wants, slot>>
  PROVE  Sound'
<1>1. Shared'
  BY LeaseTaken DEF Sound
<1>2. \A m \in Model : ToSet(free'[m]) \subseteq ToSet(free[m])
  <2>1. ToSet(free'[At(r)]) \subseteq ToSet(free[At(r)])
    BY TakeStep
  <2>2. \A m \in Model : m # At(r) => free'[m] = free[m]
    BY TakeStep
  <2>3. QED
    BY <2>1, <2>2
<1>3. \A q \in Request : q # r => lease'[q] = lease[q]
  BY TakeStep
<1>4. \A q \in Request : phase'[q] = "done" => phase[q] = "done" /\ q # r
  BY DEF Take, Moves, Typed, TypedThreads
<1>5. QED
  BY <1>1, <1>2, <1>3, <1>4, ContentsStay

LEMMA RequestKeepsSound ==
  ASSUME Typed, Placed, PinnedStaysOpen, Sound,
         NEW r \in Request, Registering(r) \/ Serving(r)
  PROVE  Sound'
<1> USE NamesOfPhases DEF PhaseNames, Idle, Holding
<1>0. /\ phase \in [Request -> Phases] /\ wants \in [Request -> Wants \cup {None}]
      /\ after \in [Request -> {"ready", "idle"}]
  BY DEF Typed, TypedThreads
<1>1. ASSUME NEW m \in Model, NEW k \in Keys, Arrive(r, m, k) PROVE Sound'
  <2>1. UNCHANGED <<slot, lease, free>>
    BY <1>1 DEF Arrive, pools
  <2>2. \A q \in Request : phase[q] \in Holding \/ phase'[q] \in Holding =>
          phase'[q] = phase[q] /\ wants'[q] = wants[q]
    BY <1>0, <1>1 DEF Arrive, Moves
  <2>3. QED
    BY <2>1, <2>2, SoundRest
<1>2. CASE TakeLoadLock(r)
  <2>1. UNCHANGED <<slot, lease, free>>
    BY <1>2 DEF TakeLoadLock, pools
  <2>2. \A q \in Request : phase[q] \in Holding \/ phase'[q] \in Holding =>
          phase'[q] = phase[q] /\ wants'[q] = wants[q]
    BY <1>0, <1>2 DEF TakeLoadLock, Moves
  <2>3. QED
    BY <2>1, <2>2, SoundRest
<1>3. CASE LoadFails(r)
  <2>1. UNCHANGED <<slot, lease, free>>
    BY <1>3 DEF LoadFails, pools
  <2>2. \A q \in Request : phase[q] \in Holding \/ phase'[q] \in Holding =>
          phase'[q] = phase[q] /\ wants'[q] = wants[q]
    BY <1>0, <1>3 DEF LoadFails, Moves, Leaves
  <2>3. QED
    BY <2>1, <2>2, SoundRest
<1>4. CASE CloseVictim(r)
  <2>1. UNCHANGED <<slot, lease, free>>
    BY <1>4 DEF CloseVictim, pools
  <2>2. \A q \in Request : phase[q] \in Holding \/ phase'[q] \in Holding =>
          phase'[q] = phase[q] /\ wants'[q] = wants[q]
    BY <1>0, <1>4 DEF CloseVictim, Moves
  <2>3. QED
    BY <2>1, <2>2, SoundRest
<1>5. CASE Refuse(r)
  <2>1. UNCHANGED <<slot, lease, free>>
    BY <1>5 DEF Refuse, pools
  <2>2. \A q \in Request : phase[q] \in Holding \/ phase'[q] \in Holding =>
          phase'[q] = phase[q] /\ wants'[q] = wants[q]
    BY <1>0, <1>5 DEF Refuse, Moves
  <2>3. QED
    BY <2>1, <2>2, SoundRest
<1>6. CASE TimesOut(r)
  <2>1. UNCHANGED <<slot, lease, free>>
    BY <1>6 DEF TimesOut, pools
  <2>2. \A q \in Request : phase[q] \in Holding \/ phase'[q] \in Holding =>
          phase'[q] = phase[q] /\ wants'[q] = wants[q]
    BY <1>0, <1>6 DEF TimesOut, Moves
  <2>3. QED
    BY <2>1, <2>2, SoundRest
<1>7. CASE Unpin(r)
  <2>1. UNCHANGED <<slot, lease, free>>
    BY <1>7 DEF Unpin, pools
  <2>2. \A q \in Request : phase[q] \in Holding \/ phase'[q] \in Holding =>
          phase'[q] = phase[q] /\ wants'[q] = wants[q]
    BY <1>0, <1>7 DEF Unpin, Moves
  <2>3. QED
    BY <2>1, <2>2, SoundRest
<1>8. CASE Load(r)
  BY <1>8, SoundAfterLoad
<1>9. CASE EvictLook(r)
  <2>1. phase[r] = "evict" /\ UNCHANGED lease
    BY <1>9 DEF EvictLook
  <2>2. ASSUME NEW m \in LongestIdle, TakeOut({m}), phase' = [phase EXCEPT ![r] = "close"],
               UNCHANGED wants
        PROVE  Sound'
    <3>1. m \in Model /\ Pinning(m) = {}
      BY PinningIsFinite DEF LongestIdle, Evictable, Residents, InUse, PinsAreCounted, PinnedStaysOpen
    <3>2. \A q \in Request : \A e \in Model : Holds(q, e)' <=> Holds(q, e)
      BY <1>0, <2>1, <2>2 DEF Holds, At
    <3>3. \A q \in Request : phase'[q] = "done" => phase[q] = "done" /\ wants'[q] = wants[q]
      BY <1>0, <2>1, <2>2
    <3>4. \A e \in {m} \cap Model : Pinning(e) = {}
      BY <3>1
    <3>5. QED
      BY <2>1, <2>2, <3>2, <3>3, <3>4, SoundAfterClosing
  <2>3. CASE /\ Moves(r, after[r])
             /\ IF after[r] = Idle THEN Leaves(r) ELSE UNCHANGED wants
             /\ UNCHANGED <<slot, free>>
    <3>1. \A q \in Request : phase[q] \in Holding \/ phase'[q] \in Holding =>
            phase'[q] = phase[q] /\ wants'[q] = wants[q]
      BY <1>0, <2>1, <2>3 DEF Moves, Leaves
    <3>2. QED
      BY <2>1, <2>3, <3>1, SoundRest
  <2>4. QED
    BY <1>9, <2>2, <2>3 DEF EvictLook, Moves
<1>10. CASE Checkout(r)
  <2>1. phase[r] # "idle" /\ phase[r] \notin Holding /\ UNCHANGED <<wants, slot>>
    BY <1>10 DEF Checkout
  <2>2. CASE Take(r)
    BY <2>1, <2>2, SoundAfterTake
  <2>3. CASE ~Take(r)
    <3>1. UNCHANGED <<lease, free>>
      BY <1>10, <2>3 DEF Checkout
    <3>2. \A q \in Request : phase[q] \in Holding \/ phase'[q] \in Holding => phase'[q] = phase[q]
      BY <1>0, <1>10, <2>3 DEF Checkout, Moves
    <3>3. QED
      BY <2>1, <3>1, <3>2, SoundRest
  <2>4. QED
    BY <2>2, <2>3
<1>11. CASE WakeUp(r)
  <2>1. phase[r] # "idle" /\ phase[r] \notin Holding /\ UNCHANGED <<wants, slot>>
    BY <1>11 DEF WakeUp
  <2>2. CASE Take(r)
    BY <2>1, <2>2, SoundAfterTake
  <2>3. CASE ~Take(r)
    <3>1. UNCHANGED <<lease, free>>
      BY <1>11, <2>3 DEF WakeUp
    <3>2. \A q \in Request : phase[q] \in Holding \/ phase'[q] \in Holding => phase'[q] = phase[q]
      BY <1>0, <1>11, <2>3 DEF WakeUp, Moves
    <3>3. QED
      BY <2>1, <3>1, <3>2, SoundRest
  <2>4. QED
    BY <2>2, <2>3
<1>12. CASE Generate(r)
  <2> DEFINE x == [MySlot(r) EXCEPT !.busy = TRUE, !.cache = Mixed]
  <2>1. /\ phase[r] \in Holding /\ phase[r] # "idle" /\ Becomes(r, x)
        /\ UNCHANGED <<wants, lease, free>>
    BY <1>12 DEF Generate
  <2>2. phase' = [phase EXCEPT ![r] = "running"]
    BY <1>12 DEF Generate, Moves
  <2>3. MySlot(r) \in SlotState => x \in SlotState
    BY <2>1, SettledIsASlot
  <2> HIDE DEF x
  <2>5. QED
    BY <2>1, <2>2, <2>3, ContentsOfOwn
<1>13. CASE Finish(r)
  <2> DEFINE x == [MySlot(r) EXCEPT !.busy = FALSE, !.cache = wants[r].key]
  <2>1. /\ phase[r] \in Holding /\ phase[r] # "idle" /\ Becomes(r, x)
        /\ UNCHANGED <<wants, lease, free>>
    BY <1>13 DEF Finish
  <2>2. phase' = [phase EXCEPT ![r] = "done"]
    BY <1>13 DEF Finish, Moves
  <2>3. MySlot(r) \in SlotState => x \in SlotState
    BY <2>1, SettledIsASlot
  <2>4. ~x.busy /\ x.cache = wants[r].key
    <3>1. MySlot(r) \in SlotState
      BY <2>1, BecomesOnly DEF Sound
    <3>2. QED
      BY <3>1 DEF SlotState
  <2> HIDE DEF x
  <2>5. QED
    BY <2>1, <2>2, <2>3, <2>4, ContentsOfOwn
<1>14. CASE Raise(r)
  <2> DEFINE x == [MySlot(r) EXCEPT !.busy = FALSE]
  <2>1. /\ phase[r] \in Holding /\ phase[r] # "idle" /\ Becomes(r, x)
        /\ UNCHANGED <<wants, lease, free>>
    BY <1>14 DEF Raise
  <2>2. phase' = [phase EXCEPT ![r] = "failed"]
    BY <1>14 DEF Raise, Moves
  <2>3. MySlot(r) \in SlotState => x \in SlotState
    BY <2>1, SettledIsASlot
  <2> HIDE DEF x
  <2>5. QED
    BY <2>1, <2>2, <2>3, ContentsOfOwn
<1>15. CASE Hangup(r)
  <2>1. UNCHANGED <<wants, slot, lease, free>>
    BY <1>15 DEF Hangup, pools
  <2>2. \A q \in Request : phase'[q] \in Holding <=> phase[q] \in Holding
    BY <1>0, <1>15 DEF Hangup, Moves
  <2>3. \A q \in Request : phase'[q] = "done" => phase[q] = "done"
    BY <1>0, <1>15 DEF Hangup, Moves
  <2>4. \A q \in Request : \A m \in Model : Holds(q, m)' <=> Holds(q, m)
    BY <2>1, <2>2 DEF Holds, At
  <2>5. Shared'
    BY <2>1, <2>4, LeasesStay DEF Sound
  <2>6. QED
    BY <2>1, <2>3, <2>5, ContentsStay
<1>16. CASE Return(r)
  BY <1>16, SoundAfterReturn
<1>17. QED
  BY <1>1, <1>2, <1>3, <1>4, <1>5, <1>6, <1>7, <1>8, <1>9, <1>10, <1>11, <1>12, <1>13, <1>14, <1>15, <1>16 DEF Registering, Serving

LEMMA WorkerKeepsSound ==
  ASSUME Typed, Placed, Sound, NEW m \in Model, NEW i \in DOMAIN slot[m], WorkerEnds(m, i)
  PROVE  Sound'
<1> DEFINE x == [slot[m][i] EXCEPT !.busy = FALSE]
<1>1. slot[m][i] \in SlotState /\ slot[m][i].busy
  BY ElementOfSeq DEF Typed, TypedPools, WorkerEnds
<1>2. x \in SlotState /\ ~x.busy /\ x.cache = slot[m][i].cache
  BY <1>1 DEF SlotState
<1>3. slot' = [slot EXCEPT ![m][i] = x] /\ slot \in [Model -> Seq(SlotState)]
  BY DEF WorkerEnds, Typed, TypedPools
<1>4. UNCHANGED <<phase, wants, lease, free>>
  BY DEF WorkerEnds
<1> HIDE DEF x
<1>5. \A e \in Model : DOMAIN slot'[e] = DOMAIN slot[e]
  BY <1>2, <1>3, PoolShape
<1>6. \A e \in Model : \A j \in DOMAIN slot[e] :
        ~(e = m /\ j = i) => slot'[e][j] = slot[e][j]
  <2>1. slot' = [slot EXCEPT ![m] = [slot[m] EXCEPT ![i] = x]]
    BY <1>3
  <2>2. slot'[m] = [slot[m] EXCEPT ![i] = x] /\ \A e \in Model : e # m => slot'[e] = slot[e]
    BY <1>3, <2>1
  <2>3. QED
    BY <2>2
<1>7. Shared'
  <2>1. \A q \in Request : \A e \in Model : Holds(q, e)' <=> Holds(q, e)
    BY <1>4 DEF Holds, At
  <2>2. QED
    BY <1>4, <1>5, <2>1, LeasesStay DEF Sound
<1>8. RunsAreBuilt'
  <2>1. ASSUME NEW q \in Request, phase[q] = "done"
        PROVE  ~slot'[At(q)][lease[q]].busy /\ slot'[At(q)][lease[q]].cache = wants[q].key
    <3>1. At(q) \in Model
      BY <2>1, AskedFor DEF Idle
    <3>2. ~slot[At(q)][lease[q]].busy /\ slot[At(q)][lease[q]].cache = wants[q].key
      BY <2>1 DEF Sound, RunsAreBuilt, MySlot
    <3>3. ~(At(q) = m /\ lease[q] = i) /\ lease[q] \in DOMAIN slot[At(q)]
      BY <1>1, <2>1, <3>1, <3>2 DEF Sound, Shared, HeldIsNotFree, Holds, Holding
    <3>4. QED
      BY <1>6, <3>1, <3>2, <3>3
  <2>2. QED
    BY <1>4, <2>1 DEF RunsAreBuilt, MySlot, At
<1>9. FreeSlotsRememberTruly'
  <2>1. ASSUME NEW e \in Model, NEW j \in ToSet(free[e])
        PROVE  ~slot'[e][j].busy /\ slot'[e][j].cache = slot'[e][j].affinity
    <3>1. ~slot[e][j].busy /\ slot[e][j].cache = slot[e][j].affinity
      BY DEF Sound, FreeSlotsRememberTruly
    <3>2. ~(e = m /\ j = i) /\ j \in DOMAIN slot[e]
      BY <1>1, <3>1 DEF Sound, Shared, FreeOnce
    <3>3. QED
      BY <1>6, <3>1, <3>2
  <2>2. QED
    BY <1>4, <2>1 DEF FreeSlotsRememberTruly
<1>10. QED
  BY <1>7, <1>8, <1>9 DEF Sound

LEMMA OthersKeepSound ==
  ASSUME Typed, Placed, PinnedStaysOpen, Sound,
         \/ \E m \in Model : \E i \in DOMAIN slot[m] : WorkerEnds(m, i)
         \/ \E taken \in SUBSET Evictable : Reap(taken)
         \/ CloseStale \/ StopServing \/ CloseRegistry \/ UNCHANGED vars
  PROVE  Sound'
<1>1. ASSUME NEW taken, TakeOut(taken), UNCHANGED <<phase, wants, lease>>,
             \A m \in taken \cap Model : Pinning(m) = {}
      PROVE  Sound'
  BY <1>1, SoundAfterClosing DEF Holds, At
<1>2. ASSUME NEW taken \in SUBSET Evictable, Reap(taken) PROVE Sound'
  <2>1. \A m \in taken \cap Model : Pinning(m) = {}
    BY <1>2, PinningIsFinite DEF Evictable, Residents, InUse, PinsAreCounted, PinnedStaysOpen
  <2>2. QED
    BY <1>1, <1>2, <2>1 DEF Reap
<1>3. CASE CloseRegistry
  <2>1. \A m \in Model : Pinning(m) = {}
    BY <1>3 DEF CloseRegistry, Pinning, Placed
  <2>2. QED
    BY <1>1, <1>3, <2>1 DEF CloseRegistry
<1>4. CASE CloseStale \/ StopServing \/ UNCHANGED vars
  <2>1. UNCHANGED <<phase, wants, slot, lease, free>>
    BY <1>4 DEF CloseStale, StopServing, vars, pools
  <2>2. QED
    BY <2>1, SoundRest
<1>5. QED
  BY <1>2, <1>3, <1>4, WorkerKeepsSound

(* A slot serves one request at a time and is never lost, and a free slot  *)
(* remembers what its cache was built from (SlotPool.checkout).            *)
THEOREM ServerSlotsAreSound == Spec => []SlotsAreSound
<1>1. Init => Sound
  <2> SUFFICES ASSUME Init PROVE Sound
    OBVIOUS
  <2>1. \A m \in Model : IsInjective(free[m]) /\ ToSet(free[m]) = {} /\ DOMAIN slot[m] = {}
    BY DEF Init, IsInjective, ToSet
  <2>2. \A r \in Request : phase[r] \notin Holding
    BY DEF Init, Idle, Holding
  <2>3. Shared
    BY <2>1, <2>2 DEF Shared, FreeOnce, HeldIsNotFree, NotFreeIsHeld, HeldByOne, Holds
  <2>4. RunsAreBuilt /\ FreeSlotsRememberTruly
    BY <2>1, <2>2 DEF RunsAreBuilt, FreeSlotsRememberTruly, Holding
  <2>5. QED
    BY <2>3, <2>4 DEF Sound
<1>2. Typed /\ Placed /\ PinnedStaysOpen /\ Sound /\ [Next]_vars => Sound'
  BY RequestKeepsSound, OthersKeepSound DEF Next
<1>3. Typed /\ Placed /\ PinnedStaysOpen /\ Sound => SlotsAreSound
  <2> SUFFICES ASSUME Typed, Placed, PinnedStaysOpen, Sound PROVE SlotsAreSound
    OBVIOUS
  <2>1. users \in [Model -> 0..Cardinality(Request)]
    BY PinningIsFinite DEF Typed, TypedRegistry, PinnedStaysOpen, PinsAreCounted
  <2>2. TypeOK
    BY <2>1 DEF TypeOK, Typed, TypedThreads, TypedRegistry, TypedPools, Phases, Wants, Leases, SlotState
  <2>3. SlotsAreLeasedOnce
    BY SharedIsLeasedOnce DEF Sound
  <2>4. QED
    BY <2>2, <2>3 DEF SlotsAreSound, Sound
<1>4. QED
  BY <1>1, <1>2, <1>3, WellTyped, ServerKeepsPinnedOpen, PTL DEF Spec

-----------------------------------------------------------------------------
(* The fifth layer: nobody sleeps beside a free slot.                      *)

(* Whoever waits is in the queue of the pool, once, or was notified, or    *)
(* timed out.                                                              *)
Queued ==
  /\ \A m \in Model : IsInjective(waiters[m])
  /\ \A m \in Model : \A r \in ToSet(waiters[m]) :
       phase[r] \in {"wait", "late"} /\ At(r) = m
  /\ \A r \in Request : phase[r] = "wait" => r \in ToSet(waiters[At(r)])

Sleeps(r, m) == phase[r] = "wait" /\ At(r) = m
Looks(r, m) ==
  /\ At(r) = m
  /\ phase[r] = "woken" \/ (phase[r] = "late" /\ r \notin ToSet(waiters[m]))
Looking(m) == {r \in Request : Looks(r, m)}

(* A notification that went to somebody who had timed out still makes that *)
(* one look: what is free is covered by those who are going to look.       *)
WakeUpsSuffice ==
  \A m \in Model :
    (\E r \in Request : Sleeps(r, m)) => Len(free[m]) <= Cardinality(Looking(m))

Awake == Queued /\ WakeUpsSuffice

LEMMA LookingIsFinite ==
  ASSUME NEW m \in Model
  PROVE  IsFiniteSet(Looking(m)) /\ Cardinality(Looking(m)) \in Nat
<1>1. Looking(m) \subseteq Request /\ IsFiniteSet(Request)
  BY ServerAssumption DEF Looking
<1>2. QED
  BY <1>1, FS_Subset, FS_CardinalityType

LEMMA OneLess ==
  ASSUME NEW S, NEW x, IsFiniteSet(S)
  PROVE  Cardinality(S \ {x}) >= Cardinality(S) - 1
<1>1. Cardinality(S) \in Nat
  BY FS_CardinalityType
<1>2. Cardinality(S \ {x}) = Cardinality(S) - 1 \/ Cardinality(S \ {x}) = Cardinality(S)
  BY FS_RemoveElement
<1>3. QED
  BY <1>1, <1>2

LEMMA AwakeStep ==
  ASSUME Typed, Typed', WakeUpsSuffice, NEW r,
         \A m \in Model :
           \/ \A q \in Request : ~Sleeps(q, m)'
           \/ Len(free'[m]) = 0
           \/ /\ \E q \in Request : Sleeps(q, m)
              /\ \/ Looking(m)' = Looking(m) /\ Len(free'[m]) <= Len(free[m])
                 \/ Looking(m)' = Looking(m) \ {r} /\ Len(free'[m]) = Len(free[m]) - 1
                 \/ /\ r \notin Looking(m) /\ Looking(m)' = Looking(m) \cup {r}
                    /\ Len(free'[m]) = Len(free[m]) + 1
  PROVE  WakeUpsSuffice'
<1>1. SUFFICES ASSUME NEW m \in Model, \E q \in Request : Sleeps(q, m)'
               PROVE  Len(free'[m]) <= Cardinality(Looking(m)')
  BY DEF WakeUpsSuffice
<1>2. /\ free \in [Model -> Seq(Nat)] /\ free' \in [Model -> Seq(Nat)]
  BY DEF Typed, TypedPools
<1>3. Len(free[m]) \in Nat /\ Len(free'[m]) \in Nat
  BY <1>2
<1>4. IsFiniteSet(Looking(m)) /\ Cardinality(Looking(m)) \in Nat
  BY LookingIsFinite
<1>5. IsFiniteSet(Looking(m)') /\ Cardinality(Looking(m)') \in Nat
  <2>1. Looking(m)' \subseteq Request /\ IsFiniteSet(Request)
    BY ServerAssumption DEF Looking
  <2>2. QED
    BY <2>1, FS_Subset, FS_CardinalityType
<1>6. CASE Len(free'[m]) = 0
  BY <1>5, <1>6
<1>7. CASE \E q \in Request : Sleeps(q, m)
  <2>1. Len(free[m]) <= Cardinality(Looking(m))
    BY <1>7 DEF WakeUpsSuffice
  <2>2. CASE Looking(m)' = Looking(m) /\ Len(free'[m]) <= Len(free[m])
    BY <1>3, <1>4, <2>1, <2>2
  <2>3. CASE Looking(m)' = Looking(m) \ {r} /\ Len(free'[m]) = Len(free[m]) - 1
    <3>1. Cardinality(Looking(m)') >= Cardinality(Looking(m)) - 1
      BY <1>4, <2>3, OneLess
    <3>2. QED
      BY <1>3, <1>4, <1>5, <2>1, <2>3, <3>1
  <2>4. CASE /\ r \notin Looking(m) /\ Looking(m)' = Looking(m) \cup {r}
             /\ Len(free'[m]) = Len(free[m]) + 1
    <3>1. Cardinality(Looking(m)') = Cardinality(Looking(m)) + 1
      BY <1>4, <2>4, FS_AddElement
    <3>2. QED
      BY <1>3, <1>4, <2>1, <2>4, <3>1
  <2>5. QED
    BY <1>1, <1>3, <1>5, <1>6, <2>2, <2>3, <2>4
<1>8. QED
  BY <1>1, <1>6, <1>7

(* A step of none of those who wait.                                       *)
Dozing == {"wait", "woken", "late"}

LEMMA AwakeRest ==
  ASSUME Typed, Typed', Awake, UNCHANGED waiters,
         \A q \in Request : phase[q] \in Dozing \/ phase'[q] \in Dozing =>
           phase'[q] = phase[q] /\ wants'[q] = wants[q],
         \A m \in Model : \/ Len(free'[m]) <= Len(free[m])
                         \/ \A q \in Request : ~Sleeps(q, m)
  PROVE  Awake'
<1>1. Queued'
  <2>1. \A m \in Model : \A q \in ToSet(waiters[m]) : q \in Request
    <3>1. waiters \in [Model -> Seq(Request)]
      BY DEF Typed, TypedPools
    <3>2. QED
      BY <3>1 DEF ToSet
  <2>2. QED
    BY <2>1 DEF Awake, Queued, Dozing, At
<1>2. \A q \in Request : \A m \in Model : Sleeps(q, m)' <=> Sleeps(q, m)
  BY DEF Sleeps, Dozing, At
<1>3. \A q \in Request : \A m \in Model : Looks(q, m)' <=> Looks(q, m)
  BY DEF Looks, Dozing, At
<1>4. \A m \in Model : Looking(m)' = Looking(m)
  BY <1>3 DEF Looking
<1>5. \A m \in Model : free[m] \in Seq(Nat) /\ Len(free[m]) \in Nat
  BY DEF Typed, TypedPools
<1>6. ASSUME NEW m \in Model
      PROVE  \/ \A q \in Request : ~Sleeps(q, m)'
             \/ Len(free'[m]) = 0
             \/ /\ \E q \in Request : Sleeps(q, m)
                /\ Looking(m)' = Looking(m) /\ Len(free'[m]) <= Len(free[m])
  BY <1>2, <1>4, <1>5
<1>7. WakeUpsSuffice'
  BY <1>6, AwakeStep DEF Awake
<1>8. QED
  BY <1>1, <1>7 DEF Awake

LEMMA QueueFacts ==
  ASSUME Typed, Placed, Awake, NEW m \in Model
  PROVE  /\ waiters[m] \in Seq(Request) /\ IsInjective(waiters[m]) /\ free[m] \in Seq(Nat)
         /\ Len(free[m]) \in Nat
         /\ \A q \in ToSet(waiters[m]) :
              q \in Request /\ phase[q] \in {"wait", "late"} /\ At(q) = m
         /\ \A q \in Request : phase[q] = "wait" /\ At(q) = m => q \in ToSet(waiters[m])
<1>1. waiters[m] \in Seq(Request) /\ free[m] \in Seq(Nat) /\ Len(free[m]) \in Nat
  BY DEF Typed, TypedPools
<1>2. \A q \in ToSet(waiters[m]) : q \in Request
  BY <1>1 DEF ToSet
<1>3. QED
  BY <1>1, <1>2 DEF Awake, Queued

(* Joining the queue of a pool that has nothing free.                      *)
LEMMA AwakeAfterJoin ==
  ASSUME Typed, Placed, Typed', Awake, NEW r \in Request, phase[r] \in {"ready", "woken"},
         free[At(r)] = <<>>, waiters' = [waiters EXCEPT ![At(r)] = Append(@, r)],
         phase' = [phase EXCEPT ![r] = "wait"], UNCHANGED <<wants, free>>
  PROVE  Awake'
<1> USE NamesOfPhases DEF PhaseNames, Idle
<1> DEFINE e == At(r)
<1>1. /\ e \in Model /\ phase \in [Request -> Phases] /\ phase[r] # "idle"
      /\ \A q \in Request : At(q)' = At(q)
  BY AskedFor DEF Typed, TypedThreads, At
<1>2. \A m \in Model : m # e => waiters'[m] = waiters[m]
  BY <1>1, JoinStep
<1>3. ToSet(waiters'[e]) = ToSet(waiters[e]) \cup {r}
  BY <1>1, JoinStep
<1>4. IsInjective(waiters'[e])
  <2>1. r \notin ToSet(waiters[e]) /\ IsInjective(waiters[e])
    BY <1>1, QueueFacts
  <2>2. QED
    BY <1>1, <2>1, JoinStep
<1>5. Len(free'[e]) = 0
  BY EmptySeq
<1> HIDE DEF e
<1>6. Queued'
  <2>1. \A m \in Model : IsInjective(waiters'[m])
    BY <1>2, <1>4, QueueFacts
  <2>2. ASSUME NEW m \in Model, NEW q \in ToSet(waiters'[m])
        PROVE  phase'[q] \in {"wait", "late"} /\ At(q)' = m
    <3>1. CASE q = r /\ m = e
      BY <1>1, <3>1 DEF e
    <3>2. CASE ~(q = r /\ m = e)
      <4>1. q \in ToSet(waiters[m])
        BY <1>2, <1>3, <2>2, <3>2
      <4>2. q \in Request /\ phase[q] \in {"wait", "late"} /\ At(q) = m
        BY <4>1, QueueFacts
      <4>3. QED
        BY <1>1, <4>2
    <3>3. QED
      BY <3>1, <3>2
  <2>3. ASSUME NEW q \in Request, phase'[q] = "wait" PROVE q \in ToSet(waiters'[At(q)])
    <3>1. CASE q = r
      BY <1>3, <3>1 DEF e
    <3>2. CASE q # r
      <4>1. phase[q] = "wait" /\ At(q) \in Model
        BY <1>1, <2>3, <3>2, AskedFor
      <4>2. q \in ToSet(waiters[At(q)])
        BY <4>1, QueueFacts
      <4>3. QED
        BY <1>2, <1>3, <4>1, <4>2
    <3>3. QED
      BY <3>1, <3>2
  <2>4. QED
    BY <1>1, <2>1, <2>2, <2>3 DEF Queued
<1>7. ASSUME NEW m \in Model, m # e
      PROVE  /\ \A q \in Request : Sleeps(q, m)' <=> Sleeps(q, m)
             /\ Looking(m)' = Looking(m) /\ Len(free'[m]) <= Len(free[m])
  <2>1. \A q \in Request : Sleeps(q, m)' <=> Sleeps(q, m)
    BY <1>1, <1>7 DEF Sleeps, e
  <2>2. \A q \in Request : Looks(q, m)' <=> Looks(q, m)
    BY <1>1, <1>2, <1>7 DEF Looks, e
  <2>3. QED
    BY <2>1, <2>2, QueueFacts DEF Looking
<1>8. \A m \in Model :
        \/ \A q \in Request : ~Sleeps(q, m)'
        \/ Len(free'[m]) = 0
        \/ /\ \E q \in Request : Sleeps(q, m)
           /\ Looking(m)' = Looking(m) /\ Len(free'[m]) <= Len(free[m])
  BY <1>5, <1>7
<1>9. WakeUpsSuffice'
  BY <1>8, AwakeStep DEF Awake
<1>10. QED
  BY <1>6, <1>9 DEF Awake

(* Leaving the queue, with a slot or because there is none.                *)
LEMMA AwakeAfterLook ==
  ASSUME Typed, Placed, Typed', Awake, NEW r \in Request, phase[r] \in {"woken", "late"},
         Withdraw(r), UNCHANGED wants,
         NEW to \in {"leased", "unpin"}, phase' = [phase EXCEPT ![r] = to],
         \/ free[At(r)] = <<>> /\ UNCHANGED free
         \/ Take(r)
  PROVE  Awake'
<1> USE NamesOfPhases DEF PhaseNames, Idle
<1> DEFINE e == At(r)
<1>1. /\ e \in Model /\ phase \in [Request -> Phases] /\ phase[r] # "idle"
      /\ \A q \in Request : At(q)' = At(q)
  BY AskedFor DEF Typed, TypedThreads, At
<1>2. \A m \in Model : m # e => waiters'[m] = waiters[m] /\ free'[m] = free[m]
  <2>1. \A m \in Model : m # e => waiters'[m] = waiters[m]
    BY <1>1, WithdrawStep
  <2>2. \A m \in Model : m # e => free'[m] = free[m]
    BY <1>1, TakeStep
  <2>3. QED
    BY <2>1, <2>2
<1>3. IsInjective(waiters'[e]) /\ ToSet(waiters'[e]) = ToSet(waiters[e]) \ {r}
  BY <1>1, QueueFacts, WithdrawStep
<1>4. Len(free'[e]) = 0 \/ Len(free'[e]) = Len(free[e]) - 1
  BY <1>1, TakeStep, EmptySeq
<1> HIDE DEF e
<1>5. Queued'
  <2>1. \A m \in Model : IsInjective(waiters'[m])
    BY <1>2, <1>3, QueueFacts
  <2>2. ASSUME NEW m \in Model, NEW q \in ToSet(waiters'[m])
        PROVE  phase'[q] \in {"wait", "late"} /\ At(q)' = m
    <3>1. q \in ToSet(waiters[m]) /\ (m = e => q # r)
      BY <1>2, <1>3
    <3>2. q \in Request /\ phase[q] \in {"wait", "late"} /\ At(q) = m
      BY <3>1, QueueFacts
    <3>3. q # r
      BY <3>1, <3>2 DEF e
    <3>4. QED
      BY <1>1, <3>2, <3>3
  <2>3. ASSUME NEW q \in Request, phase'[q] = "wait" PROVE q \in ToSet(waiters'[At(q)])
    <3>1. q # r /\ phase[q] = "wait" /\ At(q) \in Model
      BY <1>1, <2>3, AskedFor
    <3>2. q \in ToSet(waiters[At(q)])
      BY <3>1, QueueFacts
    <3>3. QED
      BY <1>2, <1>3, <3>1, <3>2
  <2>4. QED
    BY <1>1, <2>1, <2>2, <2>3 DEF Queued
<1>6. \A q \in Request : \A m \in Model : Sleeps(q, m)' <=> Sleeps(q, m)
  BY <1>1 DEF Sleeps
<1>7. \A m \in Model : m # e => Looking(m)' = Looking(m) /\ Len(free'[m]) <= Len(free[m])
  <2>1. ASSUME NEW m \in Model, m # e
        PROVE  \A q \in Request : Looks(q, m)' <=> Looks(q, m)
    BY <1>1, <1>2, <2>1 DEF Looks, e
  <2>2. QED
    BY <1>2, <2>1, QueueFacts DEF Looking
<1>8. Looking(e)' = Looking(e) \ {r}
  <2>1. e' = e
    BY <1>1 DEF e
  <2>2. \A q \in Request : At(q)' = e /\ (phase'[q] = "woken" \/ (phase'[q] = "late" /\ q \notin ToSet(waiters'[e])))
                          <=> Looks(q, e) /\ q # r
    BY <1>1, <1>3 DEF Looks
  <2>3. QED
    BY <2>1, <2>2 DEF Looking, Looks
<1>9. ASSUME NEW m \in Model
      PROVE  \/ \A q \in Request : ~Sleeps(q, m)'
             \/ Len(free'[m]) = 0
             \/ /\ \E q \in Request : Sleeps(q, m)
                /\ \/ Looking(m)' = Looking(m) /\ Len(free'[m]) <= Len(free[m])
                   \/ Looking(m)' = Looking(m) \ {r} /\ Len(free'[m]) = Len(free[m]) - 1
  <2>1. CASE m = e
    <3>1. Looking(m)' = Looking(m) \ {r}
      BY <1>1, <1>8, <2>1 DEF e, Looking, Looks
    <3>2. QED
      BY <1>4, <1>6, <2>1, <3>1
  <2>2. CASE m # e
    BY <1>6, <1>7, <2>2
  <2>3. QED
    BY <2>1, <2>2
<1>10. WakeUpsSuffice'
  BY <1>9, AwakeStep DEF Awake
<1>11. QED
  BY <1>5, <1>10 DEF Awake

(* Time runs out for one who is still in the queue.                        *)
LEMMA AwakeAfterTimeOut ==
  ASSUME Typed, Placed, Typed', Awake, NEW r \in Request, TimesOut(r)
  PROVE  Awake'
<1> USE NamesOfPhases DEF PhaseNames, Idle
<1>1. /\ phase[r] = "wait" /\ phase' = [phase EXCEPT ![r] = "late"]
      /\ phase \in [Request -> Phases] /\ UNCHANGED <<wants, free, waiters>>
      /\ \A q \in Request : At(q)' = At(q)
  BY DEF TimesOut, Moves, pools, Typed, TypedThreads, At
<1>2. At(r) \in Model /\ r \in ToSet(waiters[At(r)])
  BY <1>1, AskedFor, QueueFacts
<1>3. Queued'
  <2>1. ASSUME NEW m \in Model, NEW q \in ToSet(waiters[m])
        PROVE  phase'[q] \in {"wait", "late"} /\ At(q)' = m
    <3>1. q \in Request /\ phase[q] \in {"wait", "late"} /\ At(q) = m
      BY QueueFacts
    <3>2. QED
      BY <1>1, <3>1
  <2>2. ASSUME NEW q \in Request, phase'[q] = "wait" PROVE q \in ToSet(waiters[At(q)])
    BY <1>1, <2>2 DEF Awake, Queued
  <2>3. QED
    BY <1>1, <2>1, <2>2 DEF Awake, Queued
<1>4. \A q \in Request : \A m \in Model : Sleeps(q, m)' => Sleeps(q, m)
  BY <1>1 DEF Sleeps
<1>5. \A q \in Request : \A m \in Model : Looks(q, m)' <=> Looks(q, m)
  BY <1>1, <1>2 DEF Looks
<1>6. \A m \in Model : Looking(m)' = Looking(m)
  BY <1>5 DEF Looking
<1>7. ASSUME NEW m \in Model
      PROVE  \/ \A q \in Request : ~Sleeps(q, m)'
             \/ /\ \E q \in Request : Sleeps(q, m)
                /\ Looking(m)' = Looking(m) /\ Len(free'[m]) <= Len(free[m])
  BY <1>1, <1>4, <1>6, QueueFacts
<1>8. WakeUpsSuffice'
  BY <1>7, AwakeStep DEF Awake
<1>9. QED
  BY <1>3, <1>8 DEF Awake

(* A slot is given back, and the first in the queue is told.               *)
LEMMA AwakeAfterReturn ==
  ASSUME Typed, Placed, Typed', Awake, NEW r \in Request, Return(r)
  PROVE  Awake'
<1> USE NamesOfPhases DEF PhaseNames, Idle
<1> DEFINE e == At(r)
           s == waiters[e]
<1>1. /\ e \in Model /\ phase \in [Request -> Phases] /\ phase[r] \in {"done", "failed"}
      /\ \A q \in Request : At(q)' = At(q)
      /\ s \in Seq(Request) /\ IsInjective(s) /\ waiters \in [Model -> Seq(Request)]
      /\ free \in [Model -> Seq(Nat)]
  <2>1. e \in Model /\ phase \in [Request -> Phases] /\ phase[r] \in {"done", "failed"}
    BY AskedFor DEF Return, Typed, TypedThreads
  <2>2. \A q \in Request : At(q)' = At(q)
    BY DEF Return, At
  <2>3. QED
    BY <2>1, <2>2, QueueFacts DEF Typed, TypedPools
<1>2. /\ phase' = [q \in Request |->
                     IF q = r THEN "unpin"
                     ELSE IF q \in Notified(e) /\ phase[q] = "wait" THEN "woken" ELSE phase[q]]
      /\ waiters' = [waiters EXCEPT ![e] = IF s = <<>> THEN s ELSE Tail(s)]
      /\ free' = [free EXCEPT ![e] = Append(@, lease[r])]
  BY DEF Return
<1>3. Notified(e) = IF s = <<>> THEN {} ELSE {Head(s)}
  BY DEF Notified
<1>4. \A m \in Model : m # e => waiters'[m] = waiters[m] /\ free'[m] = free[m]
  BY <1>1, <1>2
<1>5. waiters'[e] = IF s = <<>> THEN s ELSE Tail(s)
  BY <1>1, <1>2
<1>6. Len(free'[e]) = Len(free[e]) + 1
  <2>1. lease[r] \in Nat
    BY <1>1, ServerAssumption DEF Placed, Holding
  <2>2. Len(Append(free[e], lease[r])) = Len(free[e]) + 1
    BY <1>1, <2>1, AppendProperties
  <2>3. QED
    BY <1>1, <1>2, <2>2
<1>7. \A q \in ToSet(s) : q \in Request /\ phase[q] \in {"wait", "late"} /\ At(q) = e
  BY <1>1, QueueFacts
<1>8. s # <<>> => Head(s) \in ToSet(s) /\ ToSet(Tail(s)) = ToSet(s) \ {Head(s)}
                  /\ IsInjective(Tail(s))
  BY <1>1, TailSet
<1>9. /\ IsInjective(waiters'[e])
      /\ ToSet(waiters'[e]) = ToSet(s) \ Notified(e)
  BY <1>1, <1>3, <1>5, <1>8
<1>10. Notified(e) \subseteq ToSet(s)
  BY <1>3, <1>8
<1>11. \A q \in Request : q # r /\ q \notin Notified(e) => phase'[q] = phase[q]
  BY <1>2
<1>12. \A q \in Notified(e) : q # r /\ phase'[q] = IF phase[q] = "wait" THEN "woken" ELSE "late"
  BY <1>1, <1>2, <1>7, <1>10
<1>13. phase'[r] = "unpin"
  BY <1>2
<1> HIDE DEF e, s
<1>14. ToSet(s) = ToSet(waiters[e])
  BY DEF s
<1>15. Queued'
  <2>1. \A m \in Model : IsInjective(waiters'[m])
    BY <1>4, <1>9, QueueFacts
  <2>2. ASSUME NEW m \in Model, NEW q \in ToSet(waiters'[m])
        PROVE  phase'[q] \in {"wait", "late"} /\ At(q)' = m
    <3>1. q \in ToSet(waiters[m]) /\ (m = e => q \notin Notified(e))
      BY <1>4, <1>9, <1>14
    <3>2. q \in Request /\ phase[q] \in {"wait", "late"} /\ At(q) = m
      BY <3>1, QueueFacts
    <3>3. q # r /\ q \notin Notified(e)
      BY <1>1, <1>7, <1>10, <3>1, <3>2
    <3>4. QED
      BY <1>1, <1>11, <3>2, <3>3
  <2>3. ASSUME NEW q \in Request, phase'[q] = "wait" PROVE q \in ToSet(waiters'[At(q)])
    <3>1. q # r /\ q \notin Notified(e)
      BY <1>12, <1>13, <2>3
    <3>2. phase[q] = "wait" /\ At(q) \in Model
      BY <1>11, <2>3, <3>1, AskedFor
    <3>3. q \in ToSet(waiters[At(q)])
      BY <3>2, QueueFacts
    <3>4. QED
      BY <1>4, <1>9, <1>14, <3>1, <3>2, <3>3
  <2>4. QED
    BY <1>1, <2>1, <2>2, <2>3 DEF Queued
<1>16. \A q \in Request : \A m \in Model : Sleeps(q, m)' => Sleeps(q, m) /\ q \notin Notified(e)
  BY <1>1, <1>11, <1>12, <1>13 DEF Sleeps
<1>17. ASSUME NEW m \in Model, m # e
       PROVE  Looking(m)' = Looking(m) /\ Len(free'[m]) <= Len(free[m])
  <2>1. ASSUME NEW q \in Request PROVE Looks(q, m)' <=> Looks(q, m)
    <3>1. CASE q = r
      BY <1>1, <1>17, <3>1 DEF Looks, e
    <3>2. CASE q \in Notified(e)
      BY <1>1, <1>7, <1>10, <1>17, <3>2 DEF Looks
    <3>3. CASE q # r /\ q \notin Notified(e)
      BY <1>1, <1>4, <1>11, <1>17, <3>3 DEF Looks
    <3>4. QED
      BY <3>1, <3>2, <3>3
  <2>2. QED
    BY <1>4, <1>17, <2>1, QueueFacts DEF Looking
<1>18. CASE s = <<>>
  <2>1. \A q \in Request : ~Sleeps(q, e)
    <3>1. ToSet(s) = {}
      BY <1>18 DEF ToSet
    <3>2. QED
      BY <1>1, <1>14, <3>1, QueueFacts DEF Sleeps
  <2>2. ASSUME NEW m \in Model
        PROVE  \/ \A q \in Request : ~Sleeps(q, m)'
               \/ /\ \E q \in Request : Sleeps(q, m)
                  /\ Looking(m)' = Looking(m) /\ Len(free'[m]) <= Len(free[m])
    BY <1>16, <1>17, <2>1
  <2>3. WakeUpsSuffice'
    BY <2>2, AwakeStep DEF Awake
  <2>4. QED
    BY <1>15, <2>3 DEF Awake
<1>19. CASE s # <<>>
  <2>1. PICK h : Notified(e) = {h}
    BY <1>3, <1>19
  <2>2. h \in ToSet(waiters[e]) /\ h \in Request /\ phase[h] \in {"wait", "late"} /\ At(h) = e
    BY <1>7, <1>10, <1>14, <2>1
  <2>3. ~Looks(h, e)
    BY <2>2 DEF Looks
  <2>4. \A q \in Request : /\ At(q)' = At(q)
                          /\ (q # r /\ q # h => phase'[q] = phase[q])
                          /\ ToSet(waiters'[e]) = ToSet(waiters[e]) \ {h}
    BY <1>1, <1>9, <1>11, <1>14, <2>1
  <2>5. phase'[h] \in {"woken", "late"} /\ h # r
    BY <1>12, <2>1
  <2>6. \A m \in Model : m = e => \A q \in Request : Looks(q, m)' <=> (Looks(q, m) \/ q = h)
    BY <1>1, <1>13, <2>2, <2>4, <2>5 DEF Looks
  <2>7. \A m \in Model : m = e => h \notin Looking(m) /\ Looking(m)' = Looking(m) \cup {h}
    BY <2>2, <2>3, <2>6 DEF Looking
  <2>8. ASSUME NEW m \in Model
        PROVE  \/ \A q \in Request : ~Sleeps(q, m)'
               \/ /\ \E q \in Request : Sleeps(q, m)
                  /\ \/ Looking(m)' = Looking(m) /\ Len(free'[m]) <= Len(free[m])
                     \/ /\ h \notin Looking(m) /\ Looking(m)' = Looking(m) \cup {h}
                        /\ Len(free'[m]) = Len(free[m]) + 1
    BY <1>6, <1>16, <1>17, <2>7
  <2>9. WakeUpsSuffice'
    BY <2>8, AwakeStep DEF Awake
  <2>10. QED
    BY <1>15, <2>9 DEF Awake
<1>20. QED
  BY <1>18, <1>19

LEMMA TakenOutIsLess ==
  ASSUME Typed, NEW taken, TakeOut(taken)
  PROVE  \A m \in Model : Len(free'[m]) <= Len(free[m])
<1>1. ASSUME NEW m \in Model PROVE Len(free'[m]) <= Len(free[m])
  <2>1. Len(free[m]) \in Nat
    BY DEF Typed, TypedPools
  <2>2. free'[m] = <<>> \/ free'[m] = free[m]
    BY TakeOutStep
  <2>3. QED
    BY <2>1, <2>2, EmptySeq
<1>2. QED
  BY <1>1

LEMMA RequestKeepsAwake ==
  ASSUME Typed, Placed, Typed', PinnedStaysOpen, Awake,
         NEW r \in Request, Registering(r) \/ Serving(r)
  PROVE  Awake'
<1> USE NamesOfPhases DEF PhaseNames, Idle, Dozing
<1>0. /\ phase \in [Request -> Phases] /\ wants \in [Request -> Wants \cup {None}]
      /\ after \in [Request -> {"ready", "idle"}]
      /\ \A m \in Model : Len(free[m]) \in Nat
  BY DEF Typed, TypedThreads, TypedPools
<1>1. ASSUME NEW m \in Model, NEW k \in Keys, Arrive(r, m, k) PROVE Awake'
  <2>1. UNCHANGED <<waiters, free>>
    BY <1>1 DEF Arrive, pools
  <2>2. \A q \in Request : phase[q] \in Dozing \/ phase'[q] \in Dozing =>
          phase'[q] = phase[q] /\ wants'[q] = wants[q]
    BY <1>0, <1>1 DEF Arrive, Moves
  <2>3. QED
    BY <1>0, <2>1, <2>2, AwakeRest
<1>2. CASE TakeLoadLock(r)
  <2>1. UNCHANGED <<waiters, free>>
    BY <1>2 DEF TakeLoadLock, pools
  <2>2. \A q \in Request : phase[q] \in Dozing \/ phase'[q] \in Dozing =>
          phase'[q] = phase[q] /\ wants'[q] = wants[q]
    BY <1>0, <1>2 DEF TakeLoadLock, Moves
  <2>3. QED
    BY <1>0, <2>1, <2>2, AwakeRest
<1>3. CASE LoadFails(r)
  <2>1. UNCHANGED <<waiters, free>>
    BY <1>3 DEF LoadFails, pools
  <2>2. \A q \in Request : phase[q] \in Dozing \/ phase'[q] \in Dozing =>
          phase'[q] = phase[q] /\ wants'[q] = wants[q]
    BY <1>0, <1>3 DEF LoadFails, Moves, Leaves
  <2>3. QED
    BY <1>0, <2>1, <2>2, AwakeRest
<1>4. CASE CloseVictim(r)
  <2>1. UNCHANGED <<waiters, free>>
    BY <1>4 DEF CloseVictim, pools
  <2>2. \A q \in Request : phase[q] \in Dozing \/ phase'[q] \in Dozing =>
          phase'[q] = phase[q] /\ wants'[q] = wants[q]
    BY <1>0, <1>4 DEF CloseVictim, Moves
  <2>3. QED
    BY <1>0, <2>1, <2>2, AwakeRest
<1>5. CASE Refuse(r)
  <2>1. UNCHANGED <<waiters, free>>
    BY <1>5 DEF Refuse, pools
  <2>2. \A q \in Request : phase[q] \in Dozing \/ phase'[q] \in Dozing =>
          phase'[q] = phase[q] /\ wants'[q] = wants[q]
    BY <1>0, <1>5 DEF Refuse, Moves
  <2>3. QED
    BY <1>0, <2>1, <2>2, AwakeRest
<1>6. CASE Generate(r)
  <2>1. UNCHANGED <<waiters, free>>
    BY <1>6 DEF Generate, pools
  <2>2. \A q \in Request : phase[q] \in Dozing \/ phase'[q] \in Dozing =>
          phase'[q] = phase[q] /\ wants'[q] = wants[q]
    BY <1>0, <1>6 DEF Generate, Moves
  <2>3. QED
    BY <1>0, <2>1, <2>2, AwakeRest
<1>7. CASE Finish(r)
  <2>1. UNCHANGED <<waiters, free>>
    BY <1>7 DEF Finish, pools
  <2>2. \A q \in Request : phase[q] \in Dozing \/ phase'[q] \in Dozing =>
          phase'[q] = phase[q] /\ wants'[q] = wants[q]
    BY <1>0, <1>7 DEF Finish, Moves
  <2>3. QED
    BY <1>0, <2>1, <2>2, AwakeRest
<1>8. CASE Raise(r)
  <2>1. UNCHANGED <<waiters, free>>
    BY <1>8 DEF Raise, pools
  <2>2. \A q \in Request : phase[q] \in Dozing \/ phase'[q] \in Dozing =>
          phase'[q] = phase[q] /\ wants'[q] = wants[q]
    BY <1>0, <1>8 DEF Raise, Moves
  <2>3. QED
    BY <1>0, <2>1, <2>2, AwakeRest
<1>9. CASE Hangup(r)
  <2>1. UNCHANGED <<waiters, free>>
    BY <1>9 DEF Hangup, pools
  <2>2. \A q \in Request : phase[q] \in Dozing \/ phase'[q] \in Dozing =>
          phase'[q] = phase[q] /\ wants'[q] = wants[q]
    BY <1>0, <1>9 DEF Hangup, Moves
  <2>3. QED
    BY <1>0, <2>1, <2>2, AwakeRest
<1>10. CASE Unpin(r)
  <2>1. UNCHANGED <<waiters, free>>
    BY <1>10 DEF Unpin, pools
  <2>2. \A q \in Request : phase[q] \in Dozing \/ phase'[q] \in Dozing =>
          phase'[q] = phase[q] /\ wants'[q] = wants[q]
    BY <1>0, <1>10 DEF Unpin, Moves
  <2>3. QED
    BY <1>0, <2>1, <2>2, AwakeRest
<1>11. CASE Load(r)
  <2>1. /\ At(r) \in Model /\ ~Resident(At(r)) /\ UNCHANGED waiters
        /\ free' = [free EXCEPT ![At(r)] = [i \in 1..Slots[At(r)] |-> i]]
    BY <1>11, AskedFor DEF Load, PinnedStaysOpen, OneLoads
  <2>2. \A q \in Request : phase[q] \in Dozing \/ phase'[q] \in Dozing =>
          phase'[q] = phase[q] /\ wants'[q] = wants[q]
    BY <1>0, <1>11 DEF Load, Moves
  <2>3. \A q \in Request : ~Sleeps(q, At(r))
    <3>1. \A q \in Request : Sleeps(q, At(r)) => q \in Pinning(At(r))
      BY DEF Sleeps, Pinning, Placed, Asking
    <3>2. QED
      BY <2>1, <3>1 DEF PinnedStaysOpen, PinnedIsResident
  <2>4. \A m \in Model : m # At(r) => free'[m] = free[m]
    BY <2>1 DEF Typed, TypedPools
  <2>5. \A m \in Model : \/ Len(free'[m]) <= Len(free[m])
                        \/ \A q \in Request : ~Sleeps(q, m)
    BY <1>0, <2>3, <2>4
  <2>6. QED
    BY <2>1, <2>2, <2>5, AwakeRest
<1>12. CASE EvictLook(r)
  <2>1. UNCHANGED waiters
    BY <1>12 DEF EvictLook
  <2>2. \A q \in Request : phase[q] \in Dozing \/ phase'[q] \in Dozing =>
          phase'[q] = phase[q] /\ wants'[q] = wants[q]
    BY <1>0, <1>12 DEF EvictLook, Moves, Leaves
  <2>3. \A m \in Model : Len(free'[m]) <= Len(free[m])
    <3>1. ASSUME NEW taken, TakeOut(taken)
          PROVE  \A m \in Model : Len(free'[m]) <= Len(free[m])
      BY <1>0, <3>1, TakenOutIsLess
    <3>2. ASSUME UNCHANGED free PROVE \A m \in Model : Len(free'[m]) <= Len(free[m])
      BY <1>0, <3>2
    <3>3. UNCHANGED free \/ \E m \in LongestIdle : TakeOut({m})
      BY <1>12 DEF EvictLook
    <3>4. QED
      BY <3>1, <3>2, <3>3
  <2>4. QED
    BY <2>1, <2>2, <2>3, AwakeRest
<1>13. CASE Checkout(r)
  <2>1. phase[r] = "ready" /\ UNCHANGED wants
    BY <1>13 DEF Checkout
  <2>2. CASE Take(r) /\ UNCHANGED waiters
    <3>1. \A q \in Request : phase[q] \in Dozing \/ phase'[q] \in Dozing => phase'[q] = phase[q]
      BY <1>0, <2>1, <2>2 DEF Take, Moves
    <3>2. Len(free'[At(r)]) = Len(free[At(r)]) - 1 /\ At(r) \in Model
      BY <2>1, <2>2, TakeStep, AskedFor
    <3>3. \A m \in Model : m # At(r) => free'[m] = free[m]
      BY <2>1, <2>2, TakeStep
    <3>4. \A m \in Model : Len(free'[m]) <= Len(free[m])
      BY <1>0, <3>2, <3>3
    <3>5. QED
      BY <2>1, <2>2, <3>1, <3>4, AwakeRest
  <2>3. CASE ~(Take(r) /\ UNCHANGED waiters)
    <3>1. /\ free[At(r)] = <<>> /\ waiters' = [waiters EXCEPT ![At(r)] = Append(@, r)]
          /\ phase' = [phase EXCEPT ![r] = "wait"] /\ UNCHANGED free
      BY <1>13, <2>3 DEF Checkout, Moves
    <3>2. QED
      BY <2>1, <3>1, AwakeAfterJoin
  <2>4. QED
    BY <2>2, <2>3
<1>14. CASE TimesOut(r)
  BY <1>14, AwakeAfterTimeOut
<1>15. CASE WakeUp(r)
  <2>1. phase[r] \in {"woken", "late"} /\ UNCHANGED wants
    BY <1>15 DEF WakeUp
  <2>2. CASE Take(r) /\ Withdraw(r)
    <3>1. phase' = [phase EXCEPT ![r] = "leased"]
      BY <2>2 DEF Take, Moves
    <3>2. QED
      BY <2>1, <2>2, <3>1, AwakeAfterLook
  <2>3. CASE /\ free[At(r)] = <<>> /\ phase[r] = "woken"
             /\ waiters' = [waiters EXCEPT ![At(r)] = Append(@, r)]
             /\ Moves(r, "wait") /\ UNCHANGED <<lease, free>>
    BY <2>1, <2>3, AwakeAfterJoin DEF Moves
  <2>4. CASE /\ free[At(r)] = <<>>
             /\ Withdraw(r) /\ Moves(r, "unpin") /\ UNCHANGED <<lease, free>>
    BY <2>1, <2>4, AwakeAfterLook DEF Moves
  <2>5. QED
    BY <1>15, <2>2, <2>3, <2>4 DEF WakeUp
<1>16. CASE Return(r)
  BY <1>16, AwakeAfterReturn
<1>17. QED
  BY <1>1, <1>2, <1>3, <1>4, <1>5, <1>6, <1>7, <1>8, <1>9, <1>10, <1>11, <1>12, <1>13, <1>14, <1>15, <1>16 DEF Registering, Serving

LEMMA OthersKeepAwake ==
  ASSUME Typed, Placed, Typed', Awake,
         \/ \E m \in Model : \E i \in DOMAIN slot[m] : WorkerEnds(m, i)
         \/ \E taken \in SUBSET Evictable : Reap(taken)
         \/ CloseStale \/ StopServing \/ CloseRegistry \/ UNCHANGED vars
  PROVE  Awake'
<1>1. \A m \in Model : Len(free[m]) \in Nat
  BY DEF Typed, TypedPools
<1>2. UNCHANGED <<phase, wants, waiters>>
  BY DEF WorkerEnds, Reap, CloseStale, StopServing, CloseRegistry, vars, pools
<1>3. \A m \in Model : Len(free'[m]) <= Len(free[m])
  <2>1. ASSUME NEW taken, TakeOut(taken) PROVE \A m \in Model : Len(free'[m]) <= Len(free[m])
    BY <2>1, TakenOutIsLess
  <2>2. ASSUME UNCHANGED free PROVE \A m \in Model : Len(free'[m]) <= Len(free[m])
    BY <1>1, <2>2
  <2>3. ASSUME NEW m \in Model, NEW i \in DOMAIN slot[m], WorkerEnds(m, i)
        PROVE  UNCHANGED free
    BY <2>3 DEF WorkerEnds
  <2>4. ASSUME NEW taken \in SUBSET Evictable, Reap(taken) PROVE TakeOut(taken)
    BY <2>4 DEF Reap
  <2>5. ASSUME CloseRegistry PROVE TakeOut(Model)
    BY <2>5 DEF CloseRegistry
  <2>6. ASSUME CloseStale \/ StopServing \/ UNCHANGED vars PROVE UNCHANGED free
    BY <2>6 DEF CloseStale, StopServing, vars, pools
  <2>7. QED
    BY <2>1, <2>2, <2>3, <2>4, <2>5, <2>6
<1>4. QED
  BY <1>2, <1>3, AwakeRest

(* Nobody sleeps on beside a free slot (SlotPool.checkout, its condition). *)
THEOREM ServerLeavesNobodyAsleep == Spec => []NobodySleepsBesideAFreeSlot
<1>1. Init => Awake
  <2> SUFFICES ASSUME Init PROVE Awake
    OBVIOUS
  <2>1. \A m \in Model : IsInjective(waiters[m]) /\ ToSet(waiters[m]) = {}
    BY DEF Init, IsInjective, ToSet
  <2>2. \A r \in Request : phase[r] # "wait"
    BY DEF Init, Idle
  <2>3. QED
    BY <2>1, <2>2 DEF Awake, Queued, WakeUpsSuffice, Sleeps
<1>2. /\ Typed /\ Placed /\ PinnedStaysOpen /\ Awake /\ Typed' /\ [Next]_vars
      => Awake'
  BY RequestKeepsAwake, OthersKeepAwake DEF Next
<1>3. Typed /\ Placed /\ Awake => NobodySleepsBesideAFreeSlot
  <2> SUFFICES ASSUME Typed, Placed, Awake, NEW m \in Model,
                      NEW r \in Pinning(m), phase[r] = "wait"
               PROVE  Len(free[m]) <= Cardinality({q \in Pinning(m) : phase[q] \in {"woken", "late"}})
    BY DEF NobodySleepsBesideAFreeSlot
  <2> DEFINE L == {q \in Pinning(m) : phase[q] \in {"woken", "late"}}
  <2>1. r \in Request /\ Sleeps(r, m)
    BY DEF Pinning, Sleeps
  <2>2. Len(free[m]) <= Cardinality(Looking(m)) /\ Len(free[m]) \in Nat
    BY <2>1 DEF Awake, WakeUpsSuffice, Typed, TypedPools
  <2>3. Looking(m) \subseteq L
    BY DEF Looking, Looks, Pinning, Asking, Placed, Idle
  <2>4. IsFiniteSet(L) /\ Cardinality(L) \in Nat /\ Cardinality(Looking(m)) \in Nat
    BY PinningIsFinite, LookingIsFinite, FS_Subset, FS_CardinalityType
  <2>5. Cardinality(Looking(m)) <= Cardinality(L)
    BY <2>3, <2>4, FS_Subset
  <2>6. QED
    BY <2>2, <2>4, <2>5
<1>4. QED
  BY <1>1, <1>2, <1>3, WellTyped, ServerKeepsPinnedOpen, PTL DEF Spec
=============================================================================

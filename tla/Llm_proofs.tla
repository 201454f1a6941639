---------------------------- MODULE Llm_proofs ------------------------------
(***************************************************************************)
(* What TLAPS proves of an LLM handle, in three parts.  ModelSharing, for  *)
(* any number of handles, files, devices and seats: every action settles   *)
(* the shared pointers last, so the invariant is stated of the five values *)
(* an action hands to Settle; each small change keeps it, and settling     *)
(* does.  What Speculation_proofs shows of its module holds of the two     *)
(* handles that Llm is about.  Then the text of a reply on its way to the  *)
(* caller.                                                                 *)
(***************************************************************************)
EXTENDS Llm, SequenceTheorems, WellFoundedInduction, TLAPS

-----------------------------------------------------------------------------
(* Weights and engines between handles.                                    *)

(* What a handle holds at each point of its life, and that it is there and *)
(* is what it asked for.                                                   *)
Holds(x, en, mo) ==
  /\ x.pc # "closed" => x.request \in Request
  /\ x.pc \in {"seat", "attach", "draft"} <=> x.model # None
  /\ x.pc \in {"attach", "draft", "open", "closing"} <=> x.engine # None
  /\ x.pc \in {"attach", "draft", "open"} <=> x.seat # None
  /\ x.draft # None => x.pc \in {"open", "closing"}
  /\ x.pc = "draft" \/ x.draft # None => x.request.draft # NoPath
  /\ x.model # None => mo[x.model] = WeightKey(x.request)
  /\ x.draft # None => mo[x.draft] = x.request.draft
  /\ x.engine # None => en[x.engine] # Nothing /\ en[x.engine].key = EngineKeyOf(x.request)
  /\ x.seat # None => x.seat \in 1..Capacity(x.request)

(* The caches name what is alive under the key it has, all the weights     *)
(* among it, and every context decodes with the weights of its key.        *)
Named(en, mo, we, re) ==
  /\ \A m \in Id : mo[m] # Nothing => we[mo[m]] = m
  /\ \A k \in ModelKey : we[k] # None => mo[we[k]] = k
  /\ \A k \in EngineKey : re[k] # None => en[re[k]] # Nothing /\ en[re[k]].key = k
  /\ \A e \in Id : en[e] # Nothing =>
       mo[en[e].model] = [path |-> en[e].key.path, device |-> en[e].key.device]

(* The seats taken at a context, each by one handle.                       *)
Seated(hd, en) ==
  /\ \A g, h \in Handle : g # h /\ hd[g].engine # None /\ hd[g].engine = hd[h].engine
       => hd[g].seat = None \/ hd[g].seat # hd[h].seat
  /\ \A e \in Id : en[e] # Nothing =>
       en[e].claimed = {hd[h].seat : h \in {g \in Handle : hd[g].engine = e}} \ {None}

HandleType ==
  [pc : {"closed", "load", "seat", "attach", "draft", "open", "closing"},
   request : Request \cup {Nothing}, model : Id \cup {None},
   engine : Id \cup {None}, seat : Nat, draft : Id \cup {None}]

TypedState(hd, en, mo, we, re) ==
  /\ hd \in [Handle -> HandleType]
  /\ mo \in [Id -> ModelKey \cup {Nothing}]
  /\ en \in [Id -> Engine \cup {Nothing}]
  /\ we \in [ModelKey -> Id \cup {None}]
  /\ re \in [EngineKey -> Id \cup {None}]

GoodState(hd, en, mo, we, re) ==
  /\ TypedState(hd, en, mo, we, re)
  /\ \A h \in Handle : Holds(hd[h], en, mo)
  /\ Named(en, mo, we, re)
  /\ Seated(hd, en)

(* The inductive invariant.                                                *)
Sound == GoodState(handle, engines, models, weights, registry)

-----------------------------------------------------------------------------
(* Addresses, keys and seats.                                              *)

(* No address is the null pointer.                                         *)
LEMMA NoneIsNoAddress ==
  None \notin Id /\ Id \subseteq Nat
BY SharingAssumption DEF None, Id

(* A request names weights, and a context for them.                        *)
LEMMA KeysOfRequest ==
  ASSUME NEW r \in Request
  PROVE  /\ WeightKey(r) \in ModelKey /\ WeightKey(r) # Nothing
         /\ EngineKeyOf(r) \in EngineKey
         /\ WeightKey(r) = [path |-> EngineKeyOf(r).path, device |-> EngineKeyOf(r).device]
         /\ Capacity(r) \in Nat \ {0} /\ EngineKeyOf(r).capacity = Capacity(r)
         /\ r.draft # NoPath => /\ r.draft \in ModelKey /\ r.draft # Nothing
                                /\ Capacity(r) = 1
<1>1. Capacity(r) \in Seats \cup {1} /\ Capacity(r) \in Nat \ {0}
  BY SharingAssumption DEF Capacity, Request
<1>2. r.path \in Path /\ r.device \in Device
  BY DEF Request
<1>3. WeightKey(r) \in ModelKey
  BY <1>2 DEF WeightKey, ModelKey
<1>4. EngineKeyOf(r) \in EngineKey
  BY <1>1, <1>2 DEF EngineKeyOf, EngineKey
<1>5. ASSUME r.draft # NoPath PROVE r.draft \in ModelKey /\ Capacity(r) = 1
  BY <1>5, SharingAssumption DEF Request, ModelKey, Capacity
<1>. QED  BY <1>1, <1>3, <1>4, <1>5, NothingAssumption DEF WeightKey, EngineKeyOf

(* A set of numbers that has members has a least one, which Min chooses.   *)
LEMMA MinIsMember ==
  ASSUME NEW S, S \subseteq Nat, S # {}
  PROVE  Min(S) \in S
<1>1. IsWellFoundedOn(OpToRel(<, Nat), Nat)
  BY NatLessThanWellFounded
<1>2. \A a, b \in Nat : a < b => <<a, b>> \in OpToRel(<, Nat)
  BY DEF OpToRel
<1>3. PICK x \in S : \A y \in S : ~ (<<y, x>> \in OpToRel(<, Nat))
  BY <1>1, WFMin, Zenon
<1>4. ASSUME NEW y \in S PROVE x =< y
  <2>1. x \in Nat /\ y \in Nat
    OBVIOUS
  <2>2. ~ (y < x)
    BY <2>1, <1>2, <1>3, Zenon
  <2>. QED  BY <2>1, <2>2
<1>. QED  BY <1>4 DEF Min

(* What the type says of a context that is alive.                          *)
LEMMA EngineFacts ==
  ASSUME NEW hd, NEW en, NEW mo, NEW we, NEW re, GoodState(hd, en, mo, we, re),
         NEW e \in Id, en[e] # Nothing
  PROVE  /\ en[e] \in Engine
         /\ en[e].key \in EngineKey /\ en[e].model \in Id /\ en[e].claimed \subseteq Nat
         /\ [path |-> en[e].key.path, device |-> en[e].key.device] \in ModelKey
         /\ mo[en[e].model] # Nothing
<1>1. en[e] \in Engine
  BY DEF GoodState, TypedState
<1>2. en[e].key \in EngineKey /\ en[e].model \in Id /\ en[e].claimed \subseteq Nat
  BY <1>1 DEF Engine
<1>3. [path |-> en[e].key.path, device |-> en[e].key.device] \in ModelKey
  BY <1>2 DEF EngineKey, ModelKey
<1>. QED  BY <1>1, <1>2, <1>3, NothingAssumption DEF GoodState, Named

-----------------------------------------------------------------------------
(* Settling keeps the invariant: what is destroyed was held by nobody, and *)
(* the entries that expire are those that named it.                        *)
LEMMA SettleKeeps ==
  ASSUME NEW hd, NEW en, NEW mo, NEW we, NEW re, GoodState(hd, en, mo, we, re),
         Settle(hd, en, mo, we, re)
  PROVE  Sound'
<1>. DEFINE seats == {hd[h].engine : h \in Handle}
            kept  == {hd[h].model : h \in Handle} \cup {hd[h].draft : h \in Handle}
                       \cup {en[e].model : e \in seats \ {None}}
<1>1. /\ handle' = hd
      /\ engines' = [e \in Id |-> IF e \in seats THEN en[e] ELSE Nothing]
      /\ models' = [m \in Id |-> IF m \in kept THEN mo[m] ELSE Nothing]
      /\ weights' = [k \in ModelKey |-> IF we[k] \in kept THEN we[k] ELSE None]
      /\ registry' = [k \in EngineKey |-> IF re[k] \in seats THEN re[k] ELSE None]
  BY DEF Settle
<1>2. \A h \in Handle : /\ hd[h].engine \in seats
                        /\ hd[h].model \in kept /\ hd[h].draft \in kept
  OBVIOUS
<1>3. \A e \in seats : e # None => en[e].model \in kept
  OBVIOUS
<1>. HIDE DEF seats, kept
<1>4. TypedState(handle', engines', models', weights', registry')
  BY <1>1 DEF GoodState, TypedState
<1>5. ASSUME NEW h \in Handle PROVE Holds(handle'[h], engines', models')
  <2>1. /\ hd[h].model \in Id \cup {None} /\ hd[h].draft \in Id \cup {None}
        /\ hd[h].engine \in Id \cup {None} /\ Holds(hd[h], en, mo)
    BY DEF GoodState, TypedState, HandleType
  <2>2. hd[h].model # None => models'[hd[h].model] = mo[hd[h].model]
    BY <1>1, <1>2, <2>1
  <2>3. hd[h].draft # None => models'[hd[h].draft] = mo[hd[h].draft]
    BY <1>1, <1>2, <2>1
  <2>4. hd[h].engine # None => engines'[hd[h].engine] = en[hd[h].engine]
    BY <1>1, <1>2, <2>1
  <2>. QED  BY <1>1, <2>1, <2>2, <2>3, <2>4 DEF Holds
<1>6. Named(engines', models', weights', registry')
  <2>1. ASSUME NEW m \in Id, models'[m] # Nothing PROVE weights'[models'[m]] = m
    <3>1. m \in kept /\ models'[m] = mo[m]
      BY <1>1, <2>1
    <3>2. mo[m] \in ModelKey /\ we[mo[m]] = m
      BY <2>1, <3>1 DEF GoodState, TypedState, Named
    <3>. QED  BY <1>1, <3>1, <3>2
  <2>2. ASSUME NEW k \in ModelKey, weights'[k] # None PROVE models'[weights'[k]] = k
    <3>1. we[k] \in kept /\ weights'[k] = we[k] /\ we[k] # None
      BY <1>1, <2>2
    <3>2. we[k] \in Id /\ mo[we[k]] = k
      BY <3>1 DEF GoodState, TypedState, Named
    <3>. QED  BY <1>1, <3>1, <3>2
  <2>3. ASSUME NEW k \in EngineKey, registry'[k] # None
        PROVE  engines'[registry'[k]] # Nothing /\ engines'[registry'[k]].key = k
    <3>1. re[k] \in seats /\ registry'[k] = re[k] /\ re[k] # None
      BY <1>1, <2>3
    <3>2. re[k] \in Id /\ en[re[k]] # Nothing /\ en[re[k]].key = k
      BY <3>1 DEF GoodState, TypedState, Named
    <3>. QED  BY <1>1, <3>1, <3>2
  <2>4. ASSUME NEW e \in Id, engines'[e] # Nothing
        PROVE  models'[engines'[e].model]
                 = [path |-> engines'[e].key.path, device |-> engines'[e].key.device]
    <3>1. e \in seats /\ engines'[e] = en[e] /\ e # None
      BY <1>1, <2>4, NoneIsNoAddress
    <3>2. en[e].model \in Id /\ en[e].model \in kept
      BY <1>3, <2>4, <3>1, EngineFacts
    <3>. QED  BY <1>1, <2>4, <3>1, <3>2 DEF GoodState, Named
  <2>. QED  BY <2>1, <2>2, <2>3, <2>4 DEF Named
<1>7. Seated(handle', engines')
  <2>1. \A e \in Id : engines'[e] # Nothing => engines'[e] = en[e]
    BY <1>1
  <2>. QED  BY <1>1, <2>1 DEF GoodState, Seated
<1>. QED  BY <1>4, <1>5, <1>6, <1>7 DEF Sound, GoodState, TypedState, Holds, Named, Seated
-----------------------------------------------------------------------------
(* The small changes the actions are made of.                              *)

(* One handle goes on, without touching the seats.                         *)
LEMMA HandleMoves ==
  ASSUME NEW hd, NEW en, NEW mo, NEW we, NEW re, GoodState(hd, en, mo, we, re),
         NEW h \in Handle, NEW x \in HandleType, Holds(x, en, mo),
         x.seat = hd[h].seat, x.engine = hd[h].engine \/ x.seat = None
  PROVE  GoodState([hd EXCEPT ![h] = x], en, mo, we, re)
<1>. DEFINE all == [hd EXCEPT ![h] = x]
<1>1. /\ all[h] = x /\ \A g \in Handle : g # h => all[g] = hd[g]
      /\ all \in [Handle -> HandleType]
  BY DEF GoodState, TypedState
<1>. HIDE DEF all
<1>2. TypedState(all, en, mo, we, re)
  BY <1>1 DEF GoodState, TypedState
<1>3. \A g \in Handle : Holds(all[g], en, mo)
  BY <1>1 DEF GoodState
<1>4. ASSUME NEW f \in Handle, NEW g \in Handle, f # g,
             all[f].engine # None, all[f].engine = all[g].engine
      PROVE  all[f].seat = None \/ all[f].seat # all[g].seat
  BY <1>1, <1>4 DEF GoodState, Seated
<1>5. ASSUME NEW e \in Id
      PROVE  {all[f].seat : f \in {g \in Handle : all[g].engine = e}} \ {None}
               = {hd[f].seat : f \in {g \in Handle : hd[g].engine = e}} \ {None}
  BY <1>1
<1>6. Seated(all, en)
  BY <1>4, <1>5 DEF GoodState, Seated
<1>. QED  BY <1>2, <1>3, <1>6 DEF GoodState, all

(* New weights are put at a free address under a key that named none.      *)
LEMMA CopyArrives ==
  ASSUME NEW hd, NEW en, NEW mo, NEW we, NEW re, GoodState(hd, en, mo, we, re),
         NEW m \in Id, mo[m] = Nothing, NEW k \in ModelKey, we[k] = None
  PROVE  GoodState(hd, en, [mo EXCEPT ![m] = k], [we EXCEPT ![k] = m], re)
<1>. DEFINE mo2 == [mo EXCEPT ![m] = k]
            we2 == [we EXCEPT ![k] = m]
<1>1. /\ mo2[m] = k /\ \A n \in Id : n # m => mo2[n] = mo[n]
      /\ we2[k] = m /\ \A j \in ModelKey : j # k => we2[j] = we[j]
      /\ mo2 \in [Id -> ModelKey \cup {Nothing}]
      /\ we2 \in [ModelKey -> Id \cup {None}]
  BY DEF GoodState, TypedState
<1>. HIDE DEF mo2, we2
<1>2. TypedState(hd, en, mo2, we2, re)
  BY <1>1 DEF GoodState, TypedState
<1>3. ASSUME NEW h \in Handle PROVE Holds(hd[h], en, mo2)
  <2>1. /\ hd[h].model \in Id \cup {None} /\ hd[h].draft \in Id \cup {None}
        /\ Holds(hd[h], en, mo)
    BY DEF GoodState, TypedState, HandleType
  <2>2. hd[h].model # None => mo[hd[h].model] # Nothing
    BY <2>1, KeysOfRequest DEF Holds
  <2>3. hd[h].draft # None => mo[hd[h].draft] # Nothing
    BY <2>1, KeysOfRequest DEF Holds
  <2>. QED  BY <1>1, <2>1, <2>2, <2>3 DEF Holds
<1>4. Named(en, mo2, we2, re)
  <2>1. ASSUME NEW n \in Id, mo2[n] # Nothing PROVE we2[mo2[n]] = n
    <3>1. CASE n = m
      BY <1>1, <3>1
    <3>2. CASE n # m
      <4>1. mo2[n] = mo[n] /\ mo[n] \in ModelKey /\ we[mo[n]] = n /\ n # None
        BY <1>1, <2>1, <3>2, NoneIsNoAddress DEF GoodState, TypedState, Named
      <4>. QED  BY <1>1, <4>1
    <3>. QED  BY <3>1, <3>2
  <2>2. ASSUME NEW j \in ModelKey, we2[j] # None PROVE mo2[we2[j]] = j
    <3>1. CASE j = k
      BY <1>1, <3>1
    <3>2. CASE j # k
      <4>1. we2[j] = we[j] /\ we[j] \in Id /\ mo[we[j]] = j /\ j # Nothing
        BY <1>1, <2>2, <3>2, NothingAssumption DEF GoodState, TypedState, Named
      <4>. QED  BY <1>1, <4>1
    <3>. QED  BY <3>1, <3>2
  <2>3. ASSUME NEW e \in Id, en[e] # Nothing
        PROVE  mo2[en[e].model] = [path |-> en[e].key.path, device |-> en[e].key.device]
    BY <1>1, <2>3, EngineFacts DEF GoodState, Named
  <2>. QED  BY <2>1, <2>2, <2>3 DEF GoodState, Named
<1>5. Seated(hd, en)
  BY DEF GoodState
<1>. QED  BY <1>2, <1>3, <1>4, <1>5 DEF GoodState, mo2, we2

(* A context with all its seats free is put at a free address.             *)
LEMMA EngineArrives ==
  ASSUME NEW hd, NEW en, NEW mo, NEW we, NEW re, GoodState(hd, en, mo, we, re),
         NEW e \in Id, en[e] = Nothing, NEW k \in EngineKey, NEW m \in Id,
         mo[m] = [path |-> k.path, device |-> k.device]
  PROVE  GoodState(hd, [en EXCEPT ![e] = [key |-> k, model |-> m, claimed |-> {}]],
              mo, we, [re EXCEPT ![k] = e])
<1>. DEFINE new == [key |-> k, model |-> m, claimed |-> {}]
            en2 == [en EXCEPT ![e] = new]
            re2 == [re EXCEPT ![k] = e]
<1>1. /\ new \in Engine /\ new # Nothing
      /\ new.key = k /\ new.model = m /\ new.claimed = {}
  BY NothingAssumption DEF Engine
<1>. HIDE DEF new
<1>2. /\ en2[e] = new /\ \A d \in Id : d # e => en2[d] = en[d]
      /\ re2[k] = e /\ \A j \in EngineKey : j # k => re2[j] = re[j]
      /\ en2 \in [Id -> Engine \cup {Nothing}]
      /\ re2 \in [EngineKey -> Id \cup {None}]
  BY <1>1 DEF GoodState, TypedState
<1>. HIDE DEF en2, re2
<1>3. TypedState(hd, en2, mo, we, re2)
  BY <1>2 DEF GoodState, TypedState
<1>4. ASSUME NEW h \in Handle PROVE hd[h].engine # e /\ Holds(hd[h], en2, mo)
  <2>1. hd[h].engine \in Id \cup {None} /\ Holds(hd[h], en, mo)
    BY DEF GoodState, TypedState, HandleType
  <2>2. hd[h].engine # e
    BY <2>1, NoneIsNoAddress DEF Holds
  <2>. QED  BY <1>2, <2>1, <2>2 DEF Holds
<1>5. Named(en2, mo, we, re2)
  <2>1. ASSUME NEW j \in EngineKey, re2[j] # None
        PROVE  en2[re2[j]] # Nothing /\ en2[re2[j]].key = j
    <3>1. CASE j = k
      BY <1>1, <1>2, <3>1
    <3>2. CASE j # k
      <4>1. re2[j] = re[j] /\ re[j] \in Id /\ en[re[j]] # Nothing /\ en[re[j]].key = j
        BY <1>2, <2>1, <3>2 DEF GoodState, TypedState, Named
      <4>. QED  BY <1>2, <4>1
    <3>. QED  BY <3>1, <3>2
  <2>2. ASSUME NEW d \in Id, en2[d] # Nothing
        PROVE  mo[en2[d].model] = [path |-> en2[d].key.path, device |-> en2[d].key.device]
    BY <1>1, <1>2, <2>2 DEF GoodState, Named
  <2>. QED  BY <2>1, <2>2 DEF GoodState, Named
<1>6. Seated(hd, en2)
  <2>1. ASSUME NEW d \in Id, en2[d] # Nothing
        PROVE  en2[d].claimed = {hd[h].seat : h \in {g \in Handle : hd[g].engine = d}} \ {None}
    <3>1. CASE d = e
      BY <1>1, <1>2, <1>4, <3>1
    <3>2. CASE d # e
      BY <1>2, <2>1, <3>2 DEF GoodState, Seated
    <3>. QED  BY <3>1, <3>2
  <2>. QED  BY <2>1 DEF GoodState, Seated
<1>. QED  BY <1>3, <1>4, <1>5, <1>6 DEF GoodState, en2, re2, new

(* A handle without a context is given a free seat on one.                 *)
LEMMA SeatTaken ==
  ASSUME NEW hd, NEW en, NEW mo, NEW we, NEW re, GoodState(hd, en, mo, we, re),
         NEW h \in Handle, hd[h].engine = None,
         NEW e \in Id, en[e] # Nothing, NEW x \in HandleType, Holds(x, en, mo),
         x.engine = e, x.seat # None, x.seat \notin en[e].claimed
  PROVE  GoodState([hd EXCEPT ![h] = x], [en EXCEPT ![e].claimed = @ \cup {x.seat}], mo, we, re)
<1>. DEFINE all == [hd EXCEPT ![h] = x]
            en2 == [en EXCEPT ![e].claimed = @ \cup {x.seat}]
            new == [en[e] EXCEPT !.claimed = @ \cup {x.seat}]
<1>0. /\ new \in Engine /\ new # Nothing
      /\ new.key = en[e].key /\ new.model = en[e].model
      /\ new.claimed = en[e].claimed \cup {x.seat}
  <2>1. PICK k \in EngineKey, m \in Id, c \in SUBSET Nat :
          en[e] = [key |-> k, model |-> m, claimed |-> c]
    BY EngineFacts DEF Engine
  <2>2. new = [key |-> k, model |-> m, claimed |-> c \cup {x.seat}]
    BY <2>1
  <2>3. c \cup {x.seat} \in SUBSET Nat
    BY DEF HandleType
  <2>. HIDE DEF new
  <2>. QED  BY <2>1, <2>2, <2>3, NothingAssumption DEF Engine
<1>1. /\ all[h] = x /\ \A g \in Handle : g # h => all[g] = hd[g]
      /\ all \in [Handle -> HandleType]
  BY DEF GoodState, TypedState
<1>. HIDE DEF all, new
<1>2. /\ en2[e] = new /\ \A d \in Id : d # e => en2[d] = en[d]
      /\ en2 \in [Id -> Engine \cup {Nothing}]
  BY <1>0 DEF GoodState, TypedState, new
<1>. HIDE DEF en2
<1>3. TypedState(all, en2, mo, we, re)
  BY <1>1, <1>2 DEF GoodState, TypedState
<1>4. \A d \in Id : /\ en2[d] = Nothing <=> en[d] = Nothing
                    /\ en[d] # Nothing => /\ en2[d].key = en[d].key
                                          /\ en2[d].model = en[d].model
  BY <1>0, <1>2
<1>5. ASSUME NEW g \in Handle PROVE Holds(all[g], en2, mo)
  <2>1. Holds(all[g], en, mo) /\ all[g].engine \in Id \cup {None}
    BY <1>1 DEF GoodState, HandleType
  <2>. QED  BY <1>4, <2>1 DEF Holds
<1>6. Named(en2, mo, we, re)
  <2>1. ASSUME NEW k \in EngineKey, re[k] # None
        PROVE  en2[re[k]] # Nothing /\ en2[re[k]].key = k
    <3>1. re[k] \in Id /\ en[re[k]] # Nothing /\ en[re[k]].key = k
      BY <2>1 DEF GoodState, TypedState, Named
    <3>. QED  BY <1>4, <3>1
  <2>2. ASSUME NEW d \in Id, en2[d] # Nothing
        PROVE  mo[en2[d].model] = [path |-> en2[d].key.path, device |-> en2[d].key.device]
    BY <1>4, <2>2 DEF GoodState, Named
  <2>. QED  BY <2>1, <2>2 DEF GoodState, Named
<1>7. Seated(all, en2)
  <2>1. en[e].claimed = {hd[f].seat : f \in {g \in Handle : hd[g].engine = e}} \ {None}
    BY DEF GoodState, Seated
  <2>2. ASSUME NEW f \in Handle, NEW g \in Handle, f # g,
               all[f].engine # None, all[f].engine = all[g].engine
        PROVE  all[f].seat = None \/ all[f].seat # all[g].seat
    <3>1. CASE f = h
      BY <1>1, <2>1, <2>2, <3>1
    <3>2. CASE g = h
      BY <1>1, <2>1, <2>2, <3>2
    <3>3. CASE f # h /\ g # h
      BY <1>1, <2>2, <3>3 DEF GoodState, Seated
    <3>. QED  BY <3>1, <3>2, <3>3
  <2>3. ASSUME NEW d \in Id, en2[d] # Nothing
        PROVE  en2[d].claimed = {all[f].seat : f \in {g \in Handle : all[g].engine = d}} \ {None}
    <3>1. CASE d = e
      <4>1. {all[f].seat : f \in {g \in Handle : all[g].engine = e}}
              = {hd[f].seat : f \in {g \in Handle : hd[g].engine = e}} \cup {x.seat}
        <5>1. e # None
          BY NoneIsNoAddress
        <5>2. \A g \in Handle : all[g].engine = e <=> hd[g].engine = e \/ g = h
          BY <1>1
        <5>. QED  BY <1>1, <5>1, <5>2
      <4>. QED  BY <1>0, <1>2, <2>1, <3>1, <4>1
    <3>2. CASE d # e
      <4>1. \A g \in Handle : all[g].engine = d <=> hd[g].engine = d
        BY <1>1, <3>2, NoneIsNoAddress
      <4>2. \A g \in Handle : hd[g].engine = d => all[g].seat = hd[g].seat
        BY <1>1, <3>2, NoneIsNoAddress
      <4>3. en[d].claimed = {hd[f].seat : f \in {g \in Handle : hd[g].engine = d}} \ {None}
        BY <1>2, <2>3, <3>2 DEF GoodState, Seated
      <4>4. {all[f].seat : f \in {g \in Handle : all[g].engine = d}}
              = {hd[f].seat : f \in {g \in Handle : hd[g].engine = d}}
        BY <4>1, <4>2
      <4>. QED  BY <1>2, <3>2, <4>3, <4>4
    <3>. QED  BY <3>1, <3>2
  <2>. QED  BY <2>2, <2>3 DEF Seated
<1>. QED  BY <1>3, <1>5, <1>6, <1>7 DEF GoodState, all, en2

(* A handle gives its seat back.                                           *)
LEMMA SeatReturned ==
  ASSUME NEW hd, NEW en, NEW mo, NEW we, NEW re, GoodState(hd, en, mo, we, re),
         NEW h \in Handle, hd[h].seat # None,
         NEW x \in HandleType, Holds(x, en, mo), x.seat = None
  PROVE  GoodState([hd EXCEPT ![h] = x],
              [en EXCEPT ![hd[h].engine].claimed = @ \ {hd[h].seat}], mo, we, re)
<1>. DEFINE e   == hd[h].engine
            all == [hd EXCEPT ![h] = x]
            en2 == [en EXCEPT ![e].claimed = @ \ {hd[h].seat}]
            new == [en[e] EXCEPT !.claimed = @ \ {hd[h].seat}]
<1>a. e \in Id /\ e # None /\ en[e] # Nothing
  BY DEF GoodState, TypedState, HandleType, Holds
<1>. HIDE DEF e
<1>0. /\ new \in Engine /\ new # Nothing
      /\ new.key = en[e].key /\ new.model = en[e].model
      /\ new.claimed = en[e].claimed \ {hd[h].seat}
  <2>1. PICK k \in EngineKey, m \in Id, c \in SUBSET Nat :
          en[e] = [key |-> k, model |-> m, claimed |-> c]
    BY <1>a, EngineFacts DEF Engine
  <2>2. new = [key |-> k, model |-> m, claimed |-> c \ {hd[h].seat}]
    BY <2>1
  <2>3. c \ {hd[h].seat} \in SUBSET Nat
    BY DEF HandleType
  <2>. HIDE DEF new
  <2>. QED  BY <2>1, <2>2, <2>3, NothingAssumption DEF Engine
<1>1. /\ all[h] = x /\ \A g \in Handle : g # h => all[g] = hd[g]
      /\ all \in [Handle -> HandleType]
  BY DEF GoodState, TypedState
<1>. HIDE DEF all, new
<1>2. /\ en2[e] = new /\ \A d \in Id : d # e => en2[d] = en[d]
      /\ en2 \in [Id -> Engine \cup {Nothing}]
  BY <1>a, <1>0 DEF GoodState, TypedState, new
<1>. HIDE DEF en2
<1>3. TypedState(all, en2, mo, we, re)
  BY <1>1, <1>2 DEF GoodState, TypedState
<1>4. \A d \in Id : /\ en2[d] = Nothing <=> en[d] = Nothing
                    /\ en[d] # Nothing => /\ en2[d].key = en[d].key
                                          /\ en2[d].model = en[d].model
  BY <1>a, <1>0, <1>2
<1>5. ASSUME NEW g \in Handle PROVE Holds(all[g], en2, mo)
  <2>1. Holds(all[g], en, mo) /\ all[g].engine \in Id \cup {None}
    BY <1>1 DEF GoodState, HandleType
  <2>. QED  BY <1>4, <2>1 DEF Holds
<1>6. Named(en2, mo, we, re)
  <2>1. ASSUME NEW k \in EngineKey, re[k] # None
        PROVE  en2[re[k]] # Nothing /\ en2[re[k]].key = k
    <3>1. re[k] \in Id /\ en[re[k]] # Nothing /\ en[re[k]].key = k
      BY <2>1 DEF GoodState, TypedState, Named
    <3>. QED  BY <1>4, <3>1
  <2>2. ASSUME NEW d \in Id, en2[d] # Nothing
        PROVE  mo[en2[d].model] = [path |-> en2[d].key.path, device |-> en2[d].key.device]
    BY <1>4, <2>2 DEF GoodState, Named
  <2>. QED  BY <2>1, <2>2 DEF GoodState, Named
<1>7. Seated(all, en2)
  <2>1. en[e].claimed = {hd[f].seat : f \in {g \in Handle : hd[g].engine = e}} \ {None}
    BY <1>a DEF GoodState, Seated
  <2>2. ASSUME NEW f \in Handle, NEW g \in Handle, f # g,
               all[f].engine # None, all[f].engine = all[g].engine
        PROVE  all[f].seat = None \/ all[f].seat # all[g].seat
    BY <1>1, <2>2 DEF GoodState, Seated
  <2>3. ASSUME NEW d \in Id, en2[d] # Nothing
        PROVE  en2[d].claimed = {all[f].seat : f \in {g \in Handle : all[g].engine = d}} \ {None}
    <3>0. en[d].claimed = {hd[f].seat : f \in {g \in Handle : hd[g].engine = d}} \ {None}
      BY <1>4, <2>3 DEF GoodState, Seated
    <3>1. CASE d = e
      <4>1. \A f \in Handle : f # h /\ hd[f].engine = e
              => all[f] = hd[f] /\ (hd[f].seat = None \/ hd[f].seat # hd[h].seat)
        BY <1>a, <1>1 DEF GoodState, Seated, e
      <4>2. \A t : t \in {all[f].seat : f \in {g \in Handle : all[g].engine = e}} \ {None}
                 <=> /\ t \in {hd[f].seat : f \in {g \in Handle : hd[g].engine = e}} \ {None}
                     /\ t # hd[h].seat
        <5>1. ASSUME NEW t, t # None, NEW f \in Handle, all[f].engine = e, t = all[f].seat
              PROVE  hd[f].engine = e /\ t = hd[f].seat /\ t # hd[h].seat
          <6>1. f # h
            BY <1>1, <5>1
          <6>2. all[f] = hd[f]
            BY <1>1, <6>1
          <6>. QED  BY <4>1, <5>1, <6>1, <6>2
        <5>2. ASSUME NEW t, t # None, t # hd[h].seat,
                     NEW f \in Handle, hd[f].engine = e, t = hd[f].seat
              PROVE  all[f].engine = e /\ t = all[f].seat
          <6>1. f # h
            BY <5>2
          <6>. QED  BY <1>1, <5>2, <6>1
        <5>. QED  BY <5>1, <5>2
      <4>. QED  BY <1>0, <1>2, <3>0, <3>1, <4>2
    <3>2. CASE d # e
      <4>1. \A f \in Handle : hd[f].engine = d => f # h /\ all[f] = hd[f]
        BY <1>1, <3>2 DEF e
      <4>2. \A f \in Handle : all[f].engine = d /\ all[f].seat # None => hd[f] = all[f]
        BY <1>1
      <4>3. {all[f].seat : f \in {g \in Handle : all[g].engine = d}} \ {None}
              = {hd[f].seat : f \in {g \in Handle : hd[g].engine = d}} \ {None}
        <5>1. ASSUME NEW t, t # None, NEW f \in Handle, all[f].engine = d, t = all[f].seat
              PROVE  hd[f].engine = d /\ t = hd[f].seat
          BY <4>2, <5>1
        <5>2. ASSUME NEW t, NEW f \in Handle, hd[f].engine = d, t = hd[f].seat
              PROVE  all[f].engine = d /\ t = all[f].seat
          BY <4>1, <5>2
        <5>. QED  BY <5>1, <5>2
      <4>. QED  BY <1>2, <3>0, <3>2, <4>3
    <3>. QED  BY <3>1, <3>2
  <2>. QED  BY <2>2, <2>3 DEF Seated
<1>. QED  BY <1>3, <1>5, <1>6, <1>7 DEF GoodState, all, en2, e

(* A key of the engine cache is made to name nothing.                      *)
LEMMA KeyDropped ==
  ASSUME NEW hd, NEW en, NEW mo, NEW we, NEW re, GoodState(hd, en, mo, we, re),
         NEW k \in EngineKey
  PROVE  GoodState(hd, en, mo, we, [re EXCEPT ![k] = None])
BY DEF GoodState, TypedState, Named

-----------------------------------------------------------------------------
(* The actions.                                                            *)

(* An acquisition finds the weights or reads them into memory; in either   *)
(* case the caller is given an address where they are.                     *)
LEMMA Acquired ==
  ASSUME Sound, NEW k \in ModelKey, NEW goes,
         IF Cached(k) # None
           THEN Settle(goes[Cached(k)], engines, models, weights, registry)
           ELSE /\ LiveModels # Id
                /\ Settle(goes[Min(Id \ LiveModels)], engines,
                          [models EXCEPT ![Min(Id \ LiveModels)] = k],
                          [weights EXCEPT ![k] = Min(Id \ LiveModels)], registry)
  PROVE  \E m \in Id : \E mo, we :
           /\ GoodState(handle, engines, mo, we, registry) /\ mo[m] = k
           /\ Settle(goes[m], engines, mo, we, registry)
<1>1. /\ GoodState(handle, engines, models, weights, registry)
      /\ models \in [Id -> ModelKey \cup {Nothing}]
      /\ weights \in [ModelKey -> Id \cup {None}]
  BY DEF Sound, GoodState, TypedState
<1>2. CASE weights[k] # None
  <2>1. PICK m \in Id : m = weights[k] /\ models[m] = k
    BY <1>1, <1>2 DEF GoodState, Named
  <2>2. Settle(goes[m], engines, models, weights, registry)
    BY <1>2, <2>1 DEF Cached
  <2>. QED  BY <1>1, <2>1, <2>2
<1>3. CASE weights[k] = None
  <2>1. PICK m \in Id \ LiveModels : m = Min(Id \ LiveModels)
    <3>1. Id \ LiveModels # {} /\ Id \ LiveModels \subseteq Nat
      BY <1>3, NoneIsNoAddress DEF Cached, LiveModels
    <3>. QED  BY <3>1, MinIsMember
  <2>2. Settle(goes[m], engines, [models EXCEPT ![m] = k], [weights EXCEPT ![k] = m], registry)
    BY <1>3, <2>1 DEF Cached
  <2>3. m \in Id /\ models[m] = Nothing /\ [models EXCEPT ![m] = k][m] = k
    BY <1>1 DEF LiveModels
  <2>4. GoodState(handle, engines, [models EXCEPT ![m] = k], [weights EXCEPT ![k] = m], registry)
    BY <1>1, <1>3, <2>3, CopyArrives
  <2>. QED  BY <2>2, <2>3, <2>4
<1>. QED  BY <1>2, <1>3

(* Every step keeps the invariant.                                         *)
LEMMA SoundStep ==
  ASSUME Sound, [Next]_vars
  PROVE  Sound'
<1>0. /\ GoodState(handle, engines, models, weights, registry)
      /\ handle \in [Handle -> HandleType]
      /\ \A h \in Handle : Holds(handle[h], engines, models)
  BY DEF Sound, GoodState, TypedState
<1>1. CASE UNCHANGED vars
  BY <1>1 DEF vars, Sound, GoodState, TypedState, Holds, Named, Seated
<1>. SUFFICES ASSUME NEW h \in Handle,
                     \/ \E r \in Asked : Open(h, r)
                     \/ LoadWeights(h) \/ WeightsRefused(h)
                     \/ TakeSeat(h) \/ MakeEngine(h) \/ ContextRefused(h)
                     \/ Attach(h) \/ LoadDraft(h) \/ DraftRefused(h)
                     \/ Vacate(h) \/ LetGo(h)
              PROVE  Sound'
  BY <1>1 DEF Next
<1>. DEFINE x == handle[h]
<1>2. x \in HandleType /\ Holds(x, engines, models)
  BY <1>0
<1>3. Closed \in HandleType /\ \A en, mo : Holds(Closed, en, mo)
  BY DEF Closed, HandleType, Holds, None
<1>4. ASSUME NEW y \in HandleType, Holds(y, engines, models),
             y.seat = x.seat, y.engine = x.engine \/ y.seat = None,
             \/ Settle([handle EXCEPT ![h] = y], engines, models, weights, registry)
             \/ /\ handle' = [handle EXCEPT ![h] = y]
                /\ UNCHANGED <<models, engines, weights, registry>>
      PROVE  Sound'
  <2>1. GoodState([handle EXCEPT ![h] = y], engines, models, weights, registry)
    BY <1>0, <1>4, HandleMoves
  <2>2. CASE Settle([handle EXCEPT ![h] = y], engines, models, weights, registry)
    BY <2>1, <2>2, SettleKeeps
  <2>3. CASE /\ handle' = [handle EXCEPT ![h] = y]
             /\ UNCHANGED <<models, engines, weights, registry>>
    BY <2>1, <2>3 DEF Sound, GoodState, TypedState, Holds, Named, Seated
  <2>. QED  BY <1>4, <2>2, <2>3
<1>5. ASSUME NEW r \in Asked, Open(h, r) PROVE Sound'
  <2>. DEFINE y == [Closed EXCEPT !.pc = "load", !.request = r]
  <2>1. y \in HandleType /\ Holds(y, engines, models) /\ y.seat = None /\ y.engine = None
    BY DEF Asked, Closed, HandleType, Holds, None
  <2>2. x.seat = None /\ x.engine = None
    BY <1>2, <1>5 DEF Open, Holds
  <2>. QED  BY <1>4, <1>5, <2>1, <2>2 DEF Open
<1>6. CASE LoadWeights(h)
  <2>. DEFINE goes == [m \in Id |-> [handle EXCEPT ![h].pc = "seat", ![h].model = m]]
              k    == WeightKey(x.request)
  <2>1. /\ x.pc = "load" /\ x.request \in Request
        /\ x.model = None /\ x.engine = None /\ x.seat = None /\ x.draft = None
    BY <1>2, <1>6 DEF LoadWeights, Holds
  <2>2. k \in ModelKey
    BY <2>1, KeysOfRequest
  <2>3. IF Cached(k) # None
           THEN Settle(goes[Cached(k)], engines, models, weights, registry)
           ELSE /\ LiveModels # Id
                /\ Settle(goes[Min(Id \ LiveModels)], engines,
                          [models EXCEPT ![Min(Id \ LiveModels)] = k],
                          [weights EXCEPT ![k] = Min(Id \ LiveModels)], registry)
    <3>1. Cached(k) # None => Cached(k) \in Id
      BY <1>0, <2>2 DEF Cached, GoodState, TypedState
    <3>2. LiveModels # Id => Min(Id \ LiveModels) \in Id
      <4>1. LiveModels \subseteq Id
        BY DEF LiveModels
      <4>2. LiveModels # Id => Id \ LiveModels # {} /\ Id \ LiveModels \subseteq Nat
        BY <4>1, NoneIsNoAddress
      <4>. QED  BY <4>2, MinIsMember
    <3>. QED  BY <1>6, <3>1, <3>2 DEF LoadWeights, AcquireModel
  <2>. HIDE DEF goes, k
  <2>4. PICK m, mo, we :
          /\ m \in Id
          /\ GoodState(handle, engines, mo, we, registry) /\ mo[m] = k
          /\ Settle(goes[m], engines, mo, we, registry)
    BY <2>2, <2>3, Acquired
  <2>. DEFINE y == [x EXCEPT !.pc = "seat", !.model = m]
  <2>5. y \in HandleType /\ Holds(y, engines, mo) /\ y.seat = None /\ y.engine = None
    BY <1>2, <2>1, <2>4, NoneIsNoAddress DEF HandleType, Holds, k
  <2>6. goes[m] = [handle EXCEPT ![h] = y]
    <3>1. m \in Id
      BY <2>4
    <3>. QED  BY <1>0, <3>1 DEF goes
  <2>. HIDE DEF y
  <2>7. GoodState([handle EXCEPT ![h] = y], engines, mo, we, registry)
    BY <2>1, <2>4, <2>5, HandleMoves
  <2>. QED  BY <2>4, <2>6, <2>7, SettleKeeps
<1>7. CASE WeightsRefused(h)
  <2>1. x.seat = None /\ x.engine = None
    BY <1>2, <1>7 DEF WeightsRefused, Holds
  <2>. QED  BY <1>3, <1>4, <1>7, <2>1 DEF WeightsRefused, Closed
<1>8. CASE TakeSeat(h)
  <2>. DEFINE k == EngineKeyOf(x.request)
              e == registry[k]
              n == FirstFree(e)
              y == [x EXCEPT !.pc = "attach", !.engine = e, !.seat = n]
  <2>1. /\ x.pc = "seat" /\ x.request \in Request
        /\ x.model # None /\ x.engine = None /\ x.seat = None /\ x.draft = None
    BY <1>2, <1>8 DEF TakeSeat, Holds
  <2>2. /\ k \in EngineKey /\ k.capacity = Capacity(x.request)
        /\ Capacity(x.request) \in Nat \ {0}
    BY <2>1, KeysOfRequest
  <2>3. e \in Id /\ engines[e] # Nothing /\ engines[e].key = k
    BY <1>0, <1>8, <2>2 DEF TakeSeat, FreeSeats, GoodState, TypedState, Named
  <2>4. /\ n \in 1..Capacity(x.request) /\ n \notin engines[e].claimed /\ n # None
        /\ n \in Nat
    <3>1. FreeSeats(e) # {} /\ FreeSeats(e) = (1..Capacity(x.request)) \ engines[e].claimed
      BY <1>8, <2>2, <2>3, NoneIsNoAddress DEF TakeSeat, FreeSeats
    <3>2. FreeSeats(e) \subseteq Nat
      BY <3>1
    <3>3. n \in FreeSeats(e)
      BY <3>1, <3>2, MinIsMember DEF FirstFree
    <3>. QED  BY <3>1, <3>3 DEF None
  <2>5. Settle([handle EXCEPT ![h] = y], [engines EXCEPT ![e].claimed = @ \cup {n}],
               models, weights, registry)
    BY <1>0, <1>8 DEF TakeSeat
  <2>. HIDE DEF k, e, n
  <2>6. y \in HandleType /\ Holds(y, engines, models) /\ y.engine = e /\ y.seat = n
    BY <1>2, <2>1, <2>3, <2>4, NoneIsNoAddress DEF HandleType, Holds, k
  <2>. HIDE DEF y
  <2>7. GoodState([handle EXCEPT ![h] = y], [engines EXCEPT ![e].claimed = @ \cup {y.seat}],
             models, weights, registry)
    BY <1>0, <2>1, <2>3, <2>4, <2>6, SeatTaken
  <2>. QED  BY <2>5, <2>6, <2>7, SettleKeeps
<1>9. CASE MakeEngine(h)
  <2>. DEFINE k   == EngineKeyOf(x.request)
              e   == Min(Id \ LiveEngines)
              y   == [x EXCEPT !.pc = "attach", !.engine = e, !.seat = 1]
              new == [key |-> k, model |-> x.model, claimed |-> {}]
              en  == [engines EXCEPT ![e] = new]
              re  == [registry EXCEPT ![k] = e]
  <2>1. /\ x.pc = "seat" /\ x.request \in Request /\ x.model \in Id
        /\ x.model # None /\ x.engine = None /\ x.seat = None /\ x.draft = None
        /\ models[x.model] = WeightKey(x.request)
    BY <1>2, <1>9 DEF MakeEngine, NoSeat, Holds, HandleType
  <2>2. /\ k \in EngineKey /\ k.capacity = Capacity(x.request)
        /\ Capacity(x.request) \in Nat \ {0}
        /\ WeightKey(x.request) = [path |-> k.path, device |-> k.device]
    BY <2>1, KeysOfRequest
  <2>3. e \in Id /\ engines[e] = Nothing
    <3>1. Id \ LiveEngines # {} /\ Id \ LiveEngines \subseteq Nat
      BY <1>9, NoneIsNoAddress DEF MakeEngine, LiveEngines
    <3>2. e \in Id \ LiveEngines
      BY <3>1, MinIsMember
    <3>. QED  BY <3>2 DEF LiveEngines
  <2>4. Settle([handle EXCEPT ![h] = y],
               [engines EXCEPT ![e] = [key |-> k, model |-> x.model, claimed |-> {1}]],
               models, weights, re)
    BY <1>0, <1>9 DEF MakeEngine
  <2>. HIDE DEF k, e
  <2>5. GoodState(handle, en, models, weights, re)
    BY <1>0, <2>1, <2>2, <2>3, EngineArrives
  <2>6. /\ en[e] = new /\ new # Nothing /\ new.key = k /\ new.claimed = {}
        /\ [engines EXCEPT ![e] = [key |-> k, model |-> x.model, claimed |-> {1}]]
             = [en EXCEPT ![e].claimed = @ \cup {1}]
    <3>1. new \in Engine
      BY <2>1, <2>2 DEF Engine
    <3>2. engines \in [Id -> Engine \cup {Nothing}]
      BY <1>0 DEF GoodState, TypedState
    <3>3. en[e] = new
      BY <2>3, <3>2
    <3>4. [new EXCEPT !.claimed = @ \cup {1}] = [key |-> k, model |-> x.model, claimed |-> {1}]
      OBVIOUS
    <3>. QED  BY <2>3, <3>1, <3>2, <3>3, <3>4, NothingAssumption
  <2>. HIDE DEF new, en, re
  <2>7. y \in HandleType /\ Holds(y, en, models) /\ y.engine = e /\ y.seat = 1 /\ 1 # None
    <3>1. /\ 1 \in Nat /\ 1 # None /\ e # None
          /\ 1 \in 1..Capacity(x.request)
      BY <2>2, <2>3, NoneIsNoAddress DEF None
    <3>2. /\ y.pc = "attach" /\ y.engine = e /\ y.seat = 1 /\ y.request = x.request
          /\ y.model = x.model /\ y.draft = x.draft /\ y \in HandleType
      BY <1>2, <2>3, <3>1 DEF HandleType
    <3>3. en[e] # Nothing /\ en[e].key = EngineKeyOf(x.request)
      BY <2>6 DEF k
    <3>. HIDE DEF y
    <3>4. Holds(y, en, models)
      BY <2>1, <3>1, <3>2, <3>3 DEF Holds
    <3>. QED  BY <3>1, <3>2, <3>4
  <2>. HIDE DEF y
  <2>8. GoodState([handle EXCEPT ![h] = y], [en EXCEPT ![e].claimed = @ \cup {y.seat}],
             models, weights, re)
    BY <2>1, <2>3, <2>5, <2>6, <2>7, SeatTaken
  <2>. QED  BY <2>4, <2>6, <2>7, <2>8, SettleKeeps
<1>10. CASE ContextRefused(h)
  <2>. DEFINE r == x.request
              k == EngineKeyOf(r)
              s == [r EXCEPT !.device = Cpu,
                             !.draft = IF @ = NoPath THEN @ ELSE [@ EXCEPT !.device = Retried]]
              y == IF r.device = Gpu THEN [Closed EXCEPT !.pc = "load", !.request = s] ELSE Closed
  <2>1. /\ x.pc = "seat" /\ r \in Request /\ x.engine = None /\ x.seat = None
    BY <1>2, <1>10 DEF ContextRefused, NoSeat, Holds
  <2>2. s \in Request
    BY <2>1, SharingAssumption DEF Request
  <2>3. k \in EngineKey
    BY <2>1, KeysOfRequest
  <2>4. Settle([handle EXCEPT ![h] = y], engines, models, weights, [registry EXCEPT ![k] = None])
    BY <1>10 DEF ContextRefused
  <2>. HIDE DEF s, k
  <2>5. y \in HandleType /\ Holds(y, engines, models) /\ y.seat = None /\ y.engine = None
    <3>1. CASE r.device = Gpu
      BY <2>2, <3>1 DEF Closed, HandleType, Holds, None
    <3>2. CASE r.device # Gpu
      BY <1>3, <3>2 DEF Closed
    <3>. QED  BY <3>1, <3>2
  <2>. HIDE DEF y
  <2>6. GoodState([handle EXCEPT ![h] = y], engines, models, weights, [registry EXCEPT ![k] = None])
    BY <1>0, <2>1, <2>3, <2>5, HandleMoves, KeyDropped
  <2>. QED  BY <2>4, <2>6, SettleKeeps
<1>11. CASE Attach(h)
  <2>. DEFINE y == IF x.request.draft = NoPath THEN [x EXCEPT !.pc = "open", !.model = None]
                                               ELSE [x EXCEPT !.pc = "draft"]
  <2>1. x.pc = "attach"
    BY <1>11 DEF Attach
  <2>2. y \in HandleType /\ Holds(y, engines, models) /\ y.seat = x.seat /\ y.engine = x.engine
    BY <1>2, <2>1 DEF HandleType, Holds, None
  <2>3. Settle([handle EXCEPT ![h] = y], engines, models, weights, registry)
    BY <1>11 DEF Attach
  <2>. QED  BY <1>4, <2>2, <2>3
<1>12. CASE LoadDraft(h)
  <2>. DEFINE goes == [m \in Id |-> [handle EXCEPT ![h].pc = "open", ![h].draft = m, ![h].model = None]]
              k    == x.request.draft
  <2>1. /\ x.pc = "draft" /\ x.request \in Request /\ x.request.draft # NoPath
    BY <1>2, <1>12 DEF LoadDraft, Holds
  <2>2. k \in ModelKey
    BY <2>1, KeysOfRequest
  <2>3. IF Cached(k) # None
           THEN Settle(goes[Cached(k)], engines, models, weights, registry)
           ELSE /\ LiveModels # Id
                /\ Settle(goes[Min(Id \ LiveModels)], engines,
                          [models EXCEPT ![Min(Id \ LiveModels)] = k],
                          [weights EXCEPT ![k] = Min(Id \ LiveModels)], registry)
    <3>1. Cached(k) # None => Cached(k) \in Id
      BY <1>0, <2>2 DEF Cached, GoodState, TypedState
    <3>2. LiveModels # Id => Min(Id \ LiveModels) \in Id
      <4>1. LiveModels \subseteq Id
        BY DEF LiveModels
      <4>2. LiveModels # Id => Id \ LiveModels # {} /\ Id \ LiveModels \subseteq Nat
        BY <4>1, NoneIsNoAddress
      <4>. QED  BY <4>2, MinIsMember
    <3>. QED  BY <1>12, <3>1, <3>2 DEF LoadDraft, AcquireModel
  <2>. HIDE DEF goes, k
  <2>4. PICK m, mo, we :
          /\ m \in Id
          /\ GoodState(handle, engines, mo, we, registry) /\ mo[m] = k
          /\ Settle(goes[m], engines, mo, we, registry)
    BY <2>2, <2>3, Acquired
  <2>. DEFINE y == [x EXCEPT !.pc = "open", !.draft = m, !.model = None]
  <2>5. y \in HandleType /\ Holds(y, engines, mo) /\ y.seat = x.seat /\ y.engine = x.engine
    BY <1>2, <2>1, <2>4, NoneIsNoAddress DEF HandleType, Holds, k
  <2>6. goes[m] = [handle EXCEPT ![h] = y]
    <3>1. m \in Id
      BY <2>4
    <3>. QED  BY <1>0, <3>1 DEF goes
  <2>. HIDE DEF y
  <2>7. GoodState([handle EXCEPT ![h] = y], engines, mo, we, registry)
    BY <2>4, <2>5, HandleMoves
  <2>. QED  BY <2>4, <2>6, <2>7, SettleKeeps
<1>13. CASE DraftRefused(h) \/ Vacate(h)
  <2>. DEFINE y == IF x.pc = "draft" THEN Closed ELSE [x EXCEPT !.pc = "closing", !.seat = None]
  <2>1. x.pc = "draft" \/ x.pc = "open"
    BY <1>13 DEF DraftRefused, Vacate
  <2>2. x.seat # None
    BY <1>2, <2>1 DEF Holds
  <2>3. y \in HandleType /\ Holds(y, engines, models) /\ y.seat = None
    <3>1. CASE x.pc = "draft"
      BY <1>3, <3>1 DEF Closed
    <3>2. CASE x.pc = "open"
      BY <1>2, <3>2 DEF HandleType, Holds, None
    <3>. QED  BY <2>1, <3>1, <3>2
  <2>4. Settle([handle EXCEPT ![h] = y], [engines EXCEPT ![x.engine].claimed = @ \ {x.seat}],
               models, weights, registry)
    BY <1>0, <1>13 DEF DraftRefused, Vacate, SeatGivenBack
  <2>. HIDE DEF y
  <2>5. GoodState([handle EXCEPT ![h] = y], [engines EXCEPT ![x.engine].claimed = @ \ {x.seat}],
             models, weights, registry)
    BY <1>0, <2>2, <2>3, SeatReturned
  <2>. QED  BY <2>4, <2>5, SettleKeeps
<1>14. CASE LetGo(h)
  <2>1. x.seat = None
    BY <1>2, <1>14 DEF LetGo, Holds
  <2>. QED  BY <1>3, <1>4, <1>14, <2>1 DEF LetGo, Closed
<1>. QED  BY <1>5, <1>6, <1>7, <1>8, <1>9, <1>10, <1>11, <1>12, <1>13, <1>14

(* At first there is nothing.                                              *)
LEMMA SoundInit ==
  Init => Sound
<1>. SUFFICES ASSUME Init PROVE Sound
  OBVIOUS
<1>1. Closed \in HandleType /\ \A en, mo : Holds(Closed, en, mo)
  BY DEF Closed, HandleType, Holds, None
<1>2. \A e \in Id : engines[e] = Nothing /\ models[e] = Nothing
  BY DEF Init
<1>3. TypedState(handle, engines, models, weights, registry)
  BY <1>1 DEF Init, TypedState
<1>4. Seated(handle, engines)
  BY <1>2 DEF Init, Closed, Seated
<1>5. Named(engines, models, weights, registry)
  BY <1>2 DEF Init, Named
<1>6. \A h \in Handle : Holds(handle[h], engines, models)
  BY <1>1 DEF Init
<1>. QED  BY <1>3, <1>4, <1>5, <1>6 DEF Sound, GoodState

(* Handles on one file and placement read one copy of its weights, no seat *)
(* has two owners or none, and those who share a context asked for the     *)
(* same one: for any number of threads opening, failing and closing, and   *)
(* any number of files, devices and seats.                                 *)
THEOREM SharingIsRight ==
  Spec => []HandlesShareRightly
<1>1. Sound => HandlesShareRightly
  <2>. SUFFICES ASSUME Sound PROVE HandlesShareRightly
    OBVIOUS
  <2>0. /\ GoodState(handle, engines, models, weights, registry)
        /\ TypedState(handle, engines, models, weights, registry)
        /\ Named(engines, models, weights, registry) /\ Seated(handle, engines)
        /\ \A h \in Handle : Holds(handle[h], engines, models)
    BY DEF Sound, GoodState
  <2>1. TypeOK
    BY <2>0 DEF TypedState, HandleType, TypeOK
  <2>2. OneCopy
    BY <2>0 DEF OneCopy, LiveModels, Named
  <2>3. ASSUME NEW h \in Handle, handle[h].engine # None
        PROVE  /\ handle[h].engine \in LiveEngines
               /\ handle[h].request \in Request
               /\ engines[handle[h].engine].key = EngineKeyOf(handle[h].request)
               /\ engines[handle[h].engine].key.capacity = Capacity(handle[h].request)
    <3>1. handle[h].engine \in Id /\ handle[h].request \in Request
      BY <2>0, <2>3 DEF TypedState, HandleType, Holds
    <3>. QED  BY <2>0, <2>3, <3>1, KeysOfRequest DEF Holds, LiveEngines
  <2>4. ASSUME NEW h \in Handle, handle[h].seat # None
        PROVE  handle[h].engine # None /\ handle[h].seat \in 1..Capacity(handle[h].request)
    BY <2>0, <2>4 DEF Holds
  <2>5. SeatsAreOwned
    <3>1. ASSUME NEW e \in LiveEngines
          PROVE  engines[e].claimed \subseteq 1..engines[e].key.capacity
      <4>1. engines[e].claimed
              = {handle[h].seat : h \in {g \in Handle : handle[g].engine = e}} \ {None}
        BY <2>0 DEF Seated, LiveEngines
      <4>2. ASSUME NEW h \in Handle, handle[h].engine = e, handle[h].seat # None
            PROVE  handle[h].seat \in 1..engines[e].key.capacity
        BY <2>3, <2>4, <4>2
      <4>. QED  BY <4>1, <4>2
    <3>. QED  BY <2>0, <3>1 DEF Seated, SeatsAreOwned, LiveEngines
  <2>6. SharedAlike
    <3>. SUFFICES ASSUME NEW h \in Handle, handle[h].engine # None
                  PROVE  LET e == handle[h].engine IN
                         /\ engines[e].key = EngineKeyOf(handle[h].request)
                         /\ models[engines[e].model] = WeightKey(handle[h].request)
                         /\ handle[h].request.draft # NoPath /\ handle[h].seat # None =>
                              \A g \in Handle \ {h} : handle[g].engine = e => handle[g].seat = None
      BY DEF SharedAlike
    <3>1. models[engines[handle[h].engine].model] = WeightKey(handle[h].request)
      BY <2>0, <2>3, KeysOfRequest DEF Named, LiveEngines
    <3>2. ASSUME handle[h].request.draft # NoPath, handle[h].seat # None,
                 NEW g \in Handle \ {h}, handle[g].engine = handle[h].engine, handle[g].seat # None
          PROVE  FALSE
      <4>1. Capacity(handle[h].request) = 1
        BY <2>3, <3>2, KeysOfRequest
      <4>2. Capacity(handle[g].request) = 1
        BY <2>3, <3>2, <4>1
      <4>3. handle[g].seat \in 1..1 /\ handle[h].seat \in 1..1
        BY <2>4, <3>2, <4>1, <4>2
      <4>4. handle[g].seat = handle[h].seat
        BY <4>3
      <4>. QED  BY <2>0, <3>2, <4>4 DEF Seated
    <3>. QED  BY <2>3, <3>1, <3>2
  <2>. QED  BY <2>1, <2>2, <2>5, <2>6 DEF HandlesShareRightly
<1>. QED  BY <1>1, SoundInit, SoundStep, PTL DEF Spec

-----------------------------------------------------------------------------
(* The handles and their drafts.                                           *)

ExactOnes == INSTANCE Speculation_proofs WITH
  MaxTokens <- Roomy.tokens, Window <- Roomy.window, Trimmable <- TRUE, Spoils <- FALSE

RefusingOnes == INSTANCE Speculation_proofs WITH
  MaxTokens <- Tight.tokens, Window <- Tight.window, Trimmable <- FALSE, Spoils <- TRUE

-----------------------------------------------------------------------------
(* Their definitions, reached through one module or the other, say the     *)
(* same.                                                                   *)

(* A handle whose memory drops its tail.                                   *)
LEMMA SameExact == [Exact!Next]_(Exact!vars) => [ExactOnes!Next]_(ExactOnes!vars)
<1>1. \A S : Exact!LongestCommonPrefix(S) = ExactOnes!LongestCommonPrefix(S)
  BY Zenon DEF Exact!LongestCommonPrefix, ExactOnes!LongestCommonPrefix,
               Exact!CommonPrefixes, ExactOnes!CommonPrefixes, Exact!Prefixes,
               ExactOnes!Prefixes, Exact!IsPrefix, ExactOnes!IsPrefix
<1>2. Exact!LoopHead => ExactOnes!LoopHead
  BY Zenon DEF Exact!LoopHead, ExactOnes!LoopHead, Exact!target, ExactOnes!target,
               Exact!draft, ExactOnes!draft
<1>3. Exact!NoDraft => ExactOnes!NoDraft
  BY Zenon DEF Exact!NoDraft, ExactOnes!NoDraft, Exact!target, ExactOnes!target,
               Exact!draft, ExactOnes!draft, Exact!reply, ExactOnes!reply,
               Exact!ProposalCount, ExactOnes!ProposalCount, Exact!Min, ExactOnes!Min
<1>4. Exact!SyncFails => ExactOnes!SyncFails
  BY Zenon DEF Exact!SyncFails, ExactOnes!SyncFails, Exact!target, ExactOnes!target,
               Exact!reply, ExactOnes!reply, Exact!ProposalCount,
               ExactOnes!ProposalCount, Exact!Min, ExactOnes!Min
<1>5. Exact!SyncAndPropose => ExactOnes!SyncAndPropose
  BY <1>1, Zenon DEF Exact!SyncAndPropose, ExactOnes!SyncAndPropose, Exact!target,
               ExactOnes!target, Exact!reply, ExactOnes!reply, Exact!ProposalCount,
               ExactOnes!ProposalCount, Exact!Min, ExactOnes!Min, Exact!BoundedSeq,
               ExactOnes!BoundedSeq, Exact!SeqOf, ExactOnes!SeqOf
<1>6. Exact!PickFirst => ExactOnes!PickFirst
  BY Zenon DEF Exact!PickFirst, ExactOnes!PickFirst, Exact!target, ExactOnes!target,
               Exact!draft, ExactOnes!draft, Exact!reply, ExactOnes!reply, Exact!Ask,
               ExactOnes!Ask, Exact!Accept, ExactOnes!Accept
<1>7. Exact!BatchDecoded => ExactOnes!BatchDecoded
  BY Zenon DEF Exact!BatchDecoded, ExactOnes!BatchDecoded, Exact!draft, ExactOnes!draft,
               Exact!reply, ExactOnes!reply, Exact!Overwritten, ExactOnes!Overwritten
<1>8. Exact!BatchSpoiled => ExactOnes!BatchSpoiled
  BY Zenon DEF Exact!BatchSpoiled, ExactOnes!BatchSpoiled, Exact!target,
               ExactOnes!target, Exact!draft, ExactOnes!draft, Exact!reply,
               ExactOnes!reply
<1>9. Exact!BatchFails => ExactOnes!BatchFails
  BY Zenon DEF Exact!BatchFails, ExactOnes!BatchFails, Exact!target, ExactOnes!target,
               Exact!draft, ExactOnes!draft
<1>10. Exact!Agree => ExactOnes!Agree
  BY Zenon DEF Exact!Agree, ExactOnes!Agree, Exact!target, ExactOnes!target,
               Exact!draft, ExactOnes!draft, Exact!reply, ExactOnes!reply, Exact!Ask,
               ExactOnes!Ask, Exact!Accept, ExactOnes!Accept, Exact!Kept,
               ExactOnes!Kept, Exact!AgreesWith, ExactOnes!AgreesWith
<1>11. Exact!Diverge => ExactOnes!Diverge
  BY Zenon DEF Exact!Diverge, ExactOnes!Diverge, Exact!draft, ExactOnes!draft,
               Exact!reply, ExactOnes!reply, Exact!Ask, ExactOnes!Ask, Exact!Accept,
               ExactOnes!Accept, Exact!Kept, ExactOnes!Kept, Exact!AgreesWith,
               ExactOnes!AgreesWith
<1>12. Exact!RollbackRefused => ExactOnes!RollbackRefused
  BY Zenon DEF Exact!RollbackRefused, ExactOnes!RollbackRefused, Exact!draft,
               ExactOnes!draft, Exact!reply, ExactOnes!reply, Exact!Ask, ExactOnes!Ask,
               Exact!Kept, ExactOnes!Kept, Exact!AgreesWith, ExactOnes!AgreesWith
<1>13. Exact!PickPlain => ExactOnes!PickPlain
  BY Zenon DEF Exact!PickPlain, ExactOnes!PickPlain, Exact!target, ExactOnes!target,
               Exact!draft, ExactOnes!draft, Exact!reply, ExactOnes!reply, Exact!Ask,
               ExactOnes!Ask, Exact!Accept, ExactOnes!Accept
<1>14. Exact!EmitEog => ExactOnes!EmitEog
  BY Zenon DEF Exact!EmitEog, ExactOnes!EmitEog, Exact!target, ExactOnes!target,
               Exact!draft, ExactOnes!draft
<1>15. Exact!DecodeRefused => ExactOnes!DecodeRefused
  BY Zenon DEF Exact!DecodeRefused, ExactOnes!DecodeRefused, Exact!target,
               ExactOnes!target, Exact!draft, ExactOnes!draft
<1>16. Exact!Emit => ExactOnes!Emit
  BY Zenon DEF Exact!Emit, ExactOnes!Emit, Exact!target, ExactOnes!target, Exact!draft,
               ExactOnes!draft, Exact!DecodeIfNew, ExactOnes!DecodeIfNew
<1>. QED
  BY <1>2, <1>3, <1>4, <1>5, <1>6, <1>7, <1>8, <1>9, <1>10, <1>11, <1>12, <1>13, <1>14,
     <1>15, <1>16
  DEF Exact!Next, ExactOnes!Next, Exact!vars, ExactOnes!vars

(* And one whose memory refuses.                                           *)
LEMMA SameRefusing == [Refusing!Next]_(Refusing!vars) => [RefusingOnes!Next]_(RefusingOnes!vars)
<1>1. \A S : Refusing!LongestCommonPrefix(S) = RefusingOnes!LongestCommonPrefix(S)
  BY Zenon DEF Refusing!LongestCommonPrefix, RefusingOnes!LongestCommonPrefix,
               Refusing!CommonPrefixes, RefusingOnes!CommonPrefixes, Refusing!Prefixes,
               RefusingOnes!Prefixes, Refusing!IsPrefix, RefusingOnes!IsPrefix
<1>2. Refusing!LoopHead => RefusingOnes!LoopHead
  BY Zenon DEF Refusing!LoopHead, RefusingOnes!LoopHead, Refusing!target,
               RefusingOnes!target, Refusing!draft, RefusingOnes!draft
<1>3. Refusing!NoDraft => RefusingOnes!NoDraft
  BY Zenon DEF Refusing!NoDraft, RefusingOnes!NoDraft, Refusing!target,
               RefusingOnes!target, Refusing!draft, RefusingOnes!draft, Refusing!reply,
               RefusingOnes!reply, Refusing!ProposalCount, RefusingOnes!ProposalCount,
               Refusing!Min, RefusingOnes!Min
<1>4. Refusing!SyncFails => RefusingOnes!SyncFails
  BY Zenon DEF Refusing!SyncFails, RefusingOnes!SyncFails, Refusing!target,
               RefusingOnes!target, Refusing!reply, RefusingOnes!reply,
               Refusing!ProposalCount, RefusingOnes!ProposalCount, Refusing!Min,
               RefusingOnes!Min
<1>5. Refusing!SyncAndPropose => RefusingOnes!SyncAndPropose
  BY <1>1, Zenon DEF Refusing!SyncAndPropose, RefusingOnes!SyncAndPropose, Refusing!target,
               RefusingOnes!target, Refusing!reply, RefusingOnes!reply,
               Refusing!ProposalCount, RefusingOnes!ProposalCount, Refusing!Min,
               RefusingOnes!Min, Refusing!BoundedSeq, RefusingOnes!BoundedSeq,
               Refusing!SeqOf, RefusingOnes!SeqOf
<1>6. Refusing!PickFirst => RefusingOnes!PickFirst
  BY Zenon DEF Refusing!PickFirst, RefusingOnes!PickFirst, Refusing!target,
               RefusingOnes!target, Refusing!draft, RefusingOnes!draft, Refusing!reply,
               RefusingOnes!reply, Refusing!Ask, RefusingOnes!Ask, Refusing!Accept,
               RefusingOnes!Accept
<1>7. Refusing!BatchDecoded => RefusingOnes!BatchDecoded
  BY Zenon DEF Refusing!BatchDecoded, RefusingOnes!BatchDecoded, Refusing!draft,
               RefusingOnes!draft, Refusing!reply, RefusingOnes!reply,
               Refusing!Overwritten, RefusingOnes!Overwritten
<1>8. Refusing!BatchSpoiled => RefusingOnes!BatchSpoiled
  BY Zenon DEF Refusing!BatchSpoiled, RefusingOnes!BatchSpoiled, Refusing!target,
               RefusingOnes!target, Refusing!draft, RefusingOnes!draft, Refusing!reply,
               RefusingOnes!reply
<1>9. Refusing!BatchFails => RefusingOnes!BatchFails
  BY Zenon DEF Refusing!BatchFails, RefusingOnes!BatchFails, Refusing!target,
               RefusingOnes!target, Refusing!draft, RefusingOnes!draft
<1>10. Refusing!Agree => RefusingOnes!Agree
  BY Zenon DEF Refusing!Agree, RefusingOnes!Agree, Refusing!target, RefusingOnes!target,
               Refusing!draft, RefusingOnes!draft, Refusing!reply, RefusingOnes!reply,
               Refusing!Ask, RefusingOnes!Ask, Refusing!Accept, RefusingOnes!Accept,
               Refusing!Kept, RefusingOnes!Kept, Refusing!AgreesWith,
               RefusingOnes!AgreesWith
<1>11. Refusing!Diverge => RefusingOnes!Diverge
  BY Zenon DEF Refusing!Diverge, RefusingOnes!Diverge, Refusing!draft,
               RefusingOnes!draft, Refusing!reply, RefusingOnes!reply, Refusing!Ask,
               RefusingOnes!Ask, Refusing!Accept, RefusingOnes!Accept, Refusing!Kept,
               RefusingOnes!Kept, Refusing!AgreesWith, RefusingOnes!AgreesWith
<1>12. Refusing!RollbackRefused => RefusingOnes!RollbackRefused
  BY Zenon DEF Refusing!RollbackRefused, RefusingOnes!RollbackRefused, Refusing!draft,
               RefusingOnes!draft, Refusing!reply, RefusingOnes!reply, Refusing!Ask,
               RefusingOnes!Ask, Refusing!Kept, RefusingOnes!Kept, Refusing!AgreesWith,
               RefusingOnes!AgreesWith
<1>13. Refusing!PickPlain => RefusingOnes!PickPlain
  BY Zenon DEF Refusing!PickPlain, RefusingOnes!PickPlain, Refusing!target,
               RefusingOnes!target, Refusing!draft, RefusingOnes!draft, Refusing!reply,
               RefusingOnes!reply, Refusing!Ask, RefusingOnes!Ask, Refusing!Accept,
               RefusingOnes!Accept
<1>14. Refusing!EmitEog => RefusingOnes!EmitEog
  BY Zenon DEF Refusing!EmitEog, RefusingOnes!EmitEog, Refusing!target,
               RefusingOnes!target, Refusing!draft, RefusingOnes!draft
<1>15. Refusing!DecodeRefused => RefusingOnes!DecodeRefused
  BY Zenon DEF Refusing!DecodeRefused, RefusingOnes!DecodeRefused, Refusing!target,
               RefusingOnes!target, Refusing!draft, RefusingOnes!draft
<1>16. Refusing!Emit => RefusingOnes!Emit
  BY Zenon DEF Refusing!Emit, RefusingOnes!Emit, Refusing!target, RefusingOnes!target,
               Refusing!draft, RefusingOnes!draft, Refusing!DecodeIfNew,
               RefusingOnes!DecodeIfNew
<1>. QED
  BY <1>2, <1>3, <1>4, <1>5, <1>6, <1>7, <1>8, <1>9, <1>10, <1>11, <1>12, <1>13, <1>14,
     <1>15, <1>16
  DEF Refusing!Next, RefusingOnes!Next, Refusing!vars, RefusingOnes!vars

LEMMA SameInit ==
  /\ Exact!Init => ExactOnes!Init
  /\ Refusing!Init => RefusingOnes!Init
BY DEF Exact!Init, ExactOnes!Init, Refusing!Init, RefusingOnes!Init

LEMMA SameAssumptions ==
  /\ ExactOnes!SpeculationAssumption
  /\ RefusingOnes!SpeculationAssumption
BY LlmAssumption DEF Exact!SpeculationAssumption, ExactOnes!SpeculationAssumption,
                     Refusing!SpeculationAssumption, RefusingOnes!SpeculationAssumption

LEMMA SameBehaviour ==
  /\ Exact!Spec => ExactOnes!Spec
  /\ Refusing!Spec => RefusingOnes!Spec
BY SameInit, SameExact, SameRefusing, PTL
   DEF Exact!Spec, ExactOnes!Spec, Refusing!Spec, RefusingOnes!Spec

-----------------------------------------------------------------------------
(* llm.cpp:1198-1199, 283-285: between rounds the target's cache is the    *)
(* prompt and the reply so far, and the draft's transcript is its cache.   *)
THEOREM CachesAlwaysAgree == Exact!Spec => []CachesAgree
<1>1. ExactOnes!Spec =>
        [](ExactOnes!TypeOK /\ ExactOnes!NothingRejectedStays /\ ExactOnes!DraftMirrorsKV)
  BY SameAssumptions, ExactOnes!NothingRejectedIsKept
<1>2. ExactOnes!Spec => []ExactOnes!CacheIsReplySoFar
  BY SameAssumptions, ExactOnes!CacheKeepsUp
<1>3. ExactOnes!TypeOK /\ ExactOnes!DraftMirrorsKV /\ ExactOnes!CacheIsReplySoFar => CachesAgree
  BY Zenon DEF CachesAgree, Exact!TypeOK, ExactOnes!TypeOK, Exact!DraftMirrorsKV,
               ExactOnes!DraftMirrorsKV, Exact!CacheIsReplySoFar,
               ExactOnes!CacheIsReplySoFar, Exact!Overwritten, ExactOnes!Overwritten
<1>. QED  BY <1>1, <1>2, <1>3, SameBehaviour, PTL

(* llm.cpp:1210-1213: the sampler chain has accepted each token that was   *)
(* kept exactly once.                                                      *)
THEOREM ChainAlwaysAdvancesOnce == Exact!Spec => []ChainAdvancesOnce
<1>1. ExactOnes!Spec => []ExactOnes!ChainAdvancesOnce
  BY SameAssumptions, ExactOnes!ChainKeepsUp
<1>2. ExactOnes!ChainAdvancesOnce => ChainAdvancesOnce
  BY Zenon DEF ChainAdvancesOnce, Exact!ChainAdvancesOnce, ExactOnes!ChainAdvancesOnce
<1>. QED  BY <1>1, <1>2, SameBehaviour, PTL

(* llm.cpp:872-873: where the tail cannot be dropped and batches are       *)
(* refused, what is left in the cache is the end of the reply all the same.*)
THEOREM NothingRejectedEverStays == Refusing!Spec => []NothingRejectedStays
<1>1. RefusingOnes!Spec =>
        [](RefusingOnes!TypeOK /\ RefusingOnes!NothingRejectedStays /\ RefusingOnes!DraftMirrorsKV)
  BY SameAssumptions, RefusingOnes!NothingRejectedIsKept
<1>2. RefusingOnes!NothingRejectedStays => NothingRejectedStays
  BY Zenon DEF NothingRejectedStays, Refusing!NothingRejectedStays,
               RefusingOnes!NothingRejectedStays
<1>. QED  BY <1>1, <1>2, SameBehaviour, PTL

(* README.md:371-374: the reply of a handle that speculates is one that    *)
(* plain decoding could have made, step by step.                           *)
THEOREM RepliesArePlain == Exact!Spec => ImplementsPlainDecoding
<1>1. ExactOnes!Spec => ExactOnes!ImplementsPlainDecoding
  BY SameAssumptions, LlmAssumption, ExactOnes!SpeculationIsPlain
<1>2. ExactOnes!Plain!Init => Exact!Plain!Init
  BY DEF ExactOnes!Plain!Init, Exact!Plain!Init
<1>3. [ExactOnes!Plain!Next]_(ExactOnes!Plain!vars)
        => [part = "exact" => Exact!Plain!Next]_<<says, output, ended>>
  BY Zenon DEF ExactOnes!Plain!Next, Exact!Plain!Next, ExactOnes!Plain!vars,
     ExactOnes!Plain!Asked, Exact!Plain!Asked, ExactOnes!Plain!Say, Exact!Plain!Say,
     ExactOnes!Plain!WindowFull, Exact!Plain!WindowFull, ExactOnes!Plain!Fail,
     Exact!Plain!Fail, ExactOnes!Plain!Extends, Exact!Plain!Extends,
     ExactOnes!Plain!Context, Exact!Plain!Context
<1>. QED
  BY <1>1, <1>2, <1>3, SameBehaviour, PTL
  DEF ExactOnes!ImplementsPlainDecoding, ExactOnes!Plain!Spec, ImplementsPlainDecoding

-----------------------------------------------------------------------------
(* Numbers and sequences.                                                  *)

(* A set of numbers that has members has a least one.                      *)
LEMMA Least ==
  ASSUME NEW S, S \subseteq Nat, S # {}
  PROVE  \E x \in S : \A y \in S : x <= y
<1>1. IsWellFoundedOn(OpToRel(<, Nat), Nat)
  BY NatLessThanWellFounded
<1>2. \A m, n \in Nat : m < n => <<m, n>> \in OpToRel(<, Nat)
  BY DEF OpToRel
<1>3. PICK x \in S : \A y \in S : ~ (<<y, x>> \in OpToRel(<, Nat))
  BY <1>1, WFMin, Zenon
<1>4. ASSUME NEW y \in S PROVE x <= y
  <2>1. x \in Nat /\ y \in Nat
    OBVIOUS
  <2>2. ~ (y < x)
    BY <2>1, <1>2, <1>3, Zenon
  <2>. QED  BY <2>1, <2>2
<1>. QED  BY <1>4

(* A set of numbers up to n that has members has a greatest one.           *)
LEMMA Greatest ==
  ASSUME NEW n \in Nat, NEW S \in SUBSET (0..n), S # {}
  PROVE  \E x \in S : \A y \in S : x >= y
<1>. DEFINE T == {m \in 0..n : n - m \in S}
<1>1. PICK x \in S : TRUE
  OBVIOUS
<1>2. n - x \in T
  BY <1>1
<1>3. T \subseteq Nat
  OBVIOUS
<1>4. PICK m \in T : \A y \in T : m <= y
  <2>. HIDE DEF T
  <2>. QED  BY <1>2, <1>3, Least
<1>5. ASSUME NEW y \in S PROVE n - m >= y
  <2>1. y \in 0..n /\ n - (n - y) = y
    OBVIOUS
  <2>2. n - y \in T
    BY <2>1
  <2>3. m <= n - y /\ m \in 0..n
    BY <1>4, <2>2
  <2>. QED  BY <2>1, <2>3
<1>6. n - m \in S
  BY <1>4
<1>. QED  BY <1>5, <1>6

LEMMA MaxOf ==
  ASSUME NEW n \in Nat, NEW S \in SUBSET (0..n), S # {}
  PROVE  Stream!Max(S) \in S /\ \A y \in S : Stream!Max(S) >= y
BY Greatest DEF Stream!Max

LEMMA MaxIs ==
  ASSUME NEW n \in Nat, NEW S \in SUBSET (0..n), NEW m \in S, \A y \in S : m >= y
  PROVE  Stream!Max(S) = m
<1>1. Stream!Max(S) \in S /\ \A y \in S : Stream!Max(S) >= y
  BY MaxOf
<1>2. Stream!Max(S) >= m /\ m >= Stream!Max(S)
  BY <1>1
<1>3. Stream!Max(S) \in Int /\ m \in Int
  <2>1. Stream!Max(S) \in 0..n /\ m \in 0..n
    BY <1>1
  <2>. QED  BY <2>1
<1>. QED  BY <1>2, <1>3

LEMMA MinOf ==
  ASSUME NEW S, S \subseteq Nat, S # {}
  PROVE  Stream!Min(S) \in S /\ \A y \in S : Stream!Min(S) <= y
BY Least DEF Stream!Min

(* What holds of 0 and of each number after one of which it holds.         *)
LEMMA Counted ==
  ASSUME NEW n \in Nat, NEW Good, 0 \in Good, \A m \in 1..n : m - 1 \in Good => m \in Good
  PROVE  \A m \in 0..n : m \in Good
<1>. DEFINE Bad == {m \in 0..n : m \notin Good}
<1>1. Bad = {}
  <2>. SUFFICES ASSUME Bad # {} PROVE FALSE
    OBVIOUS
  <2>1. Bad \subseteq Nat
    OBVIOUS
  <2>2. PICK x \in Bad : \A y \in Bad : x <= y
    <3>. HIDE DEF Bad
    <3>. QED  BY <2>1, Least
  <2>3. x \in 1..n /\ x - 1 \in 0..n /\ ~(x <= x - 1)
    BY <2>2
  <2>4. x - 1 \in Good
    BY <2>2, <2>3
  <2>. QED  BY <2>2, <2>3, <2>4
<1>. QED  BY <1>1

(* A sequence whose first part is head and whose other part is rest.       *)
IsBoth(S, whole, head, rest) ==
  /\ whole \in Seq(S) /\ Len(whole) = Len(head) + Len(rest)
  /\ \A i \in 1..Len(head) : whole[i] = head[i]
  /\ \A i \in 1..Len(rest) : whole[Len(head) + i] = rest[i]

LEMMA BothAre ==
  ASSUME NEW S, NEW head \in Seq(S), NEW rest \in Seq(S)
  PROVE  IsBoth(S, head \o rest, head, rest)
BY DEF IsBoth

LEMMA Both ==
  ASSUME NEW S, NEW head \in Seq(S), NEW rest \in Seq(S), NEW whole,
         IsBoth(S, whole, head, rest)
  PROVE  whole = head \o rest
<1>1. IsBoth(S, head \o rest, head, rest)
  BY BothAre
<1>2. Len(head) \in Nat /\ Len(rest) \in Nat
  OBVIOUS
<1>3. ASSUME NEW i \in 1..Len(whole) PROVE whole[i] = (head \o rest)[i]
  <2>1. CASE i <= Len(head)
    BY <1>1, <1>2, <2>1 DEF IsBoth
  <2>2. CASE ~(i <= Len(head))
    <3>1. i - Len(head) \in 1..Len(rest) /\ i = Len(head) + (i - Len(head))
      BY <1>2, <2>2 DEF IsBoth
    <3>. QED  BY <1>1, <3>1 DEF IsBoth
  <2>. QED  BY <2>1, <2>2
<1>. QED  BY <1>1, <1>3, SeqEqual DEF IsBoth

(* A part of a sequence.                                                   *)
LEMMA PartIs ==
  ASSUME NEW S, NEW s \in Seq(S), NEW m \in 1..(Len(s) + 1), NEW n \in (m - 1)..Len(s)
  PROVE  /\ SubSeq(s, m, n) \in Seq(S) /\ Len(SubSeq(s, m, n)) = n - m + 1
         /\ \A i \in 1..(n - m + 1) : SubSeq(s, m, n)[i] = s[m + i - 1]
<1>1. m \in Int /\ n \in Int /\ Len(s) \in Nat
  OBVIOUS
<1>2. \A i \in m..n : s[i] \in S
  OBVIOUS
<1>3. n - m + 1 = IF m <= n THEN n - m + 1 ELSE 0
  BY <1>1
<1>. QED  BY <1>1, <1>2, <1>3, SubSeqProperties

LEMMA FirstIs ==
  ASSUME NEW S, NEW s \in Seq(S), NEW n \in 0..Len(s)
  PROVE  /\ SubSeq(s, 1, n) \in Seq(S) /\ Len(SubSeq(s, 1, n)) = n
         /\ \A i \in 1..n : SubSeq(s, 1, n)[i] = s[i]
<1>1. 1 \in 1..(Len(s) + 1) /\ n \in (1 - 1)..Len(s) /\ n - 1 + 1 = n
  OBVIOUS
<1>2. \A i \in 1..n : 1 + i - 1 = i
  OBVIOUS
<1>. QED  BY <1>1, <1>2, PartIs

(* Two sequences, one of which begins with the other.                      *)
Begins(S, s, t) ==
  s \in Seq(S) /\ Len(s) <= Len(t) /\ \A i \in 1..Len(s) : s[i] = t[i]

LEMMA PrefixIs ==
  ASSUME NEW S, NEW s \in Seq(S), NEW t \in Seq(S)
  PROVE  Stream!IsPrefix(s, t) <=> Begins(S, s, t)
<1>1. Len(s) \in Nat /\ Len(t) \in Nat
  OBVIOUS
<1>2. CASE Len(s) <= Len(t)
  <2>1. Len(s) \in 0..Len(t) /\ Len(s) \in 0..Len(s)
    BY <1>1, <1>2
  <2>2. SubSeq(s, 1, Len(s)) = s
    BY SubSeqFull
  <2>3. /\ SubSeq(t, 1, Len(s)) \in Seq(S) /\ Len(SubSeq(t, 1, Len(s))) = Len(s)
        /\ \A i \in 1..Len(s) : SubSeq(t, 1, Len(s))[i] = t[i]
    BY <2>1, FirstIs
  <2>4. s = SubSeq(t, 1, Len(s)) <=> \A i \in 1..Len(s) : s[i] = t[i]
    BY <2>3, SeqEqual
  <2>. QED  BY <1>2, <2>2, <2>4 DEF Stream!IsPrefix, Begins
<1>3. CASE ~(Len(s) <= Len(t))
  BY <1>3 DEF Stream!IsPrefix, Begins
<1>. QED  BY <1>2, <1>3

LEMMA FirstBegins ==
  ASSUME NEW S, NEW s \in Seq(S), NEW n \in 0..Len(s)
  PROVE  Begins(S, SubSeq(s, 1, n), s)
<1>1. Len(s) \in Nat
  OBVIOUS
<1>. QED  BY <1>1, FirstIs DEF Begins

LEMMA BeginsIs ==
  ASSUME NEW S, NEW s, NEW t \in Seq(S), Begins(S, s, t)
  PROVE  Len(s) \in 0..Len(t) /\ s = SubSeq(t, 1, Len(s))
<1>1. Len(s) \in 0..Len(t)
  BY DEF Begins
<1>2. /\ SubSeq(t, 1, Len(s)) \in Seq(S) /\ Len(SubSeq(t, 1, Len(s))) = Len(s)
      /\ \A i \in 1..Len(s) : SubSeq(t, 1, Len(s))[i] = t[i]
  BY <1>1, FirstIs
<1>. QED  BY <1>1, <1>2, SeqEqual DEF Begins

LEMMA BeginsBegins ==
  ASSUME NEW S, NEW r, NEW s, NEW t, s \in Seq(S), t \in Seq(S),
         Begins(S, r, s), Begins(S, s, t)
  PROVE  Begins(S, r, t)
<1>1. Len(r) \in Nat /\ Len(s) \in Nat /\ Len(t) \in Nat
  BY DEF Begins
<1>. QED  BY <1>1 DEF Begins

-----------------------------------------------------------------------------
(* Characters.                                                             *)

Bytes == Seq(Stream!Byte)

LEMMA ByteLengths ==
  /\ \A c : Stream!SequenceLength(c) \in 1..3
  /\ Stream!SequenceLength(Cont) = 1
BY LlmAssumption DEF Stream!StreamAssumption, Stream!SequenceLength

(* The first byte of a prefix of UTF-8 is a lead.                          *)
LEMMA FirstIsLead ==
  ASSUME NEW s \in Bytes, Stream!Utf8Prefix(s), s # <<>>
  PROVE  s[1] # Cont
<1>1. 1 \in DOMAIN s
  BY DEF Bytes
<1>2. ~ \E j \in 1..(1 - 1) : TRUE
  OBVIOUS
<1>. QED  BY <1>1, <1>2 DEF Stream!Utf8Prefix

LEMMA Utf8First ==
  ASSUME NEW s \in Bytes, Stream!Utf8Prefix(s), NEW r, Begins(Stream!Byte, r, s)
  PROVE  r \in Bytes /\ Stream!Utf8Prefix(r)
<1>1. /\ r \in Bytes /\ Len(r) \in Nat /\ Len(s) \in Nat /\ Len(r) <= Len(s)
      /\ DOMAIN r = 1..Len(r) /\ DOMAIN s = 1..Len(s)
      /\ \A i \in 1..Len(r) : r[i] = s[i] /\ i \in 1..Len(s)
  BY DEF Begins, Bytes
<1>2. ASSUME NEW i \in 1..Len(r), r[i] = Cont
      PROVE  \E j \in 1..(i - 1) :
               /\ Stream!SequenceLength(r[j]) > i - j
               /\ \A k \in (j + 1)..i : r[k] = Cont
  <2>1. i \in DOMAIN s /\ s[i] = Cont
    BY <1>1, <1>2
  <2>2. PICK j \in 1..(i - 1) :
          /\ Stream!SequenceLength(s[j]) > i - j
          /\ \A k \in (j + 1)..i : s[k] = Cont
    BY <2>1 DEF Stream!Utf8Prefix
  <2>3. j \in 1..Len(r) /\ \A k \in (j + 1)..i : k \in 1..Len(r)
    BY <1>1
  <2>. QED  BY <1>1, <2>2, <2>3
<1>3. ASSUME NEW i \in 1..Len(r), r[i] # Cont
      PROVE  \A k \in (i + 1)..Len(r) : k < i + Stream!SequenceLength(r[i]) => r[k] = Cont
  <2>. SUFFICES ASSUME NEW k \in (i + 1)..Len(r), k < i + Stream!SequenceLength(r[i])
                PROVE  r[k] = Cont
    OBVIOUS
  <2>1. i \in DOMAIN s /\ s[i] # Cont /\ s[i] = r[i]
    BY <1>1, <1>3
  <2>2. k \in (i + 1)..Len(s) /\ k \in 1..Len(r)
    BY <1>1
  <2>3. s[k] = Cont
    BY <2>1, <2>2 DEF Stream!Utf8Prefix
  <2>. QED  BY <1>1, <2>2, <2>3
<1>. QED  BY <1>1, <1>2, <1>3 DEF Stream!Utf8Prefix

(* The last lead is where only continuations follow.                       *)
IsLast(s, at) ==
  /\ at \in 1..Len(s) /\ (at = 1 \/ s[at] # Cont)
  /\ \A i \in (at + 1)..Len(s) : s[i] = Cont

LEMMA LastLeadIs ==
  ASSUME NEW s \in Bytes, s # <<>>
  PROVE  IsLast(s, Stream!LastLead(s))
<1>. DEFINE L == {1} \cup {i \in DOMAIN s : s[i] # Cont}
<1>1. Len(s) \in Nat \ {0} /\ DOMAIN s = 1..Len(s)
  BY DEF Bytes
<1>2. L \in SUBSET (0..Len(s)) /\ L # {} /\ 1 \in L
  BY <1>1
<1>3. Stream!Max(L) \in L /\ \A y \in L : Stream!Max(L) >= y
  <2>. HIDE DEF L
  <2>. QED  BY <1>1, <1>2, MaxOf
<1>4. Stream!LastLead(s) = Stream!Max(L)
  BY DEF Stream!LastLead
<1>. DEFINE at == Stream!Max(L)
<1>5. at \in 1..Len(s) /\ (at = 1 \/ s[at] # Cont)
  BY <1>1, <1>3
<1>6. ASSUME NEW i \in (at + 1)..Len(s) PROVE s[i] = Cont
  <2>1. i \in DOMAIN s /\ ~(at >= i)
    BY <1>1, <1>5
  <2>. QED  BY <1>3, <2>1
<1>. QED  BY <1>4, <1>5, <1>6 DEF IsLast

LEMMA LastLeadOnly ==
  ASSUME NEW s \in Bytes, NEW at, IsLast(s, at)
  PROVE  Stream!LastLead(s) = at
<1>. DEFINE L == {1} \cup {i \in DOMAIN s : s[i] # Cont}
<1>1. Len(s) \in Nat /\ DOMAIN s = 1..Len(s) /\ at \in 1..Len(s)
  BY DEF Bytes, IsLast
<1>2. L \in SUBSET (0..Len(s)) /\ at \in L
  BY <1>1 DEF IsLast
<1>3. \A y \in L : at >= y
  <2>. SUFFICES ASSUME NEW y \in L, ~(at >= y) PROVE FALSE
    OBVIOUS
  <2>1. y \in (at + 1)..Len(s) /\ y # 1
    BY <1>1
  <2>. QED  BY <2>1 DEF IsLast
<1>4. Stream!Max(L) = at
  <2>. HIDE DEF L
  <2>. QED  BY <1>1, <1>2, <1>3, MaxIs
<1>. QED  BY <1>4 DEF Stream!LastLead

(* How much of a sequence is whole, by its last lead.                      *)
LEMMA WholeIs ==
  ASSUME NEW s \in Bytes, NEW at, IsLast(s, at)
  PROVE  /\ Stream!Whole(s) \in {at - 1, Len(s)}
         /\ Stream!Whole(s) = Len(s) <=> Len(s) - at + 1 >= Stream!SequenceLength(s[at])
<1>1. s # <<>> /\ Len(s) \in Nat /\ at \in 1..Len(s)
  BY DEF IsLast, Bytes
<1>2. Stream!LastLead(s) = at
  BY LastLeadOnly
<1>. QED  BY <1>1, <1>2 DEF Stream!Whole

LEMMA WholeFits ==
  ASSUME NEW s \in Bytes
  PROVE  /\ Stream!Whole(s) \in 0..Len(s)
         /\ Stream!Whole(s) # Len(s) => s[Stream!Whole(s) + 1] # Cont
<1>1. Len(s) \in Nat
  BY DEF Bytes
<1>2. CASE s = <<>>
  <2>1. Len(s) = 0
    BY <1>2
  <2>. QED  BY <1>2, <2>1 DEF Stream!Whole
<1>3. CASE s # <<>>
  <2>. DEFINE at == Stream!LastLead(s)
  <2>1. IsLast(s, at)
    BY <1>3, LastLeadIs
  <2>. HIDE DEF at
  <2>2. at \in 1..Len(s)
    BY <2>1 DEF IsLast
  <2>3. ASSUME Stream!Whole(s) # Len(s) PROVE s[Stream!Whole(s) + 1] # Cont
    <3>1. Stream!Whole(s) + 1 = at /\ ~(Len(s) - at + 1 >= Stream!SequenceLength(s[at]))
      BY <1>1, <2>1, <2>2, <2>3, WholeIs
    <3>2. s[at] # Cont
      BY <1>1, <2>2, <3>1, ByteLengths
    <3>. QED  BY <3>1, <3>2
  <2>. QED  BY <1>1, <2>1, <2>2, <2>3, WholeIs
<1>. QED  BY <1>2, <1>3

(* What comes before a lead is whole.                                      *)
LEMMA WholeBeforeLead ==
  ASSUME NEW s \in Bytes, Stream!Utf8Prefix(s), NEW m \in 1..Len(s), s[m] # Cont
  PROVE  Stream!Whole(SubSeq(s, 1, m - 1)) = m - 1
<1>. DEFINE r == SubSeq(s, 1, m - 1)
<1>1. Len(s) \in Nat /\ m - 1 \in 0..Len(s) /\ DOMAIN s = 1..Len(s)
  BY DEF Bytes
<1>2. r \in Bytes /\ Len(r) = m - 1 /\ \A i \in 1..(m - 1) : r[i] = s[i]
  BY <1>1, FirstIs DEF Bytes
<1>. HIDE DEF r
<1>3. CASE r = <<>>
  BY <1>2, <1>3 DEF Stream!Whole, r
<1>4. CASE r # <<>>
  <2>1. PICK at : IsLast(r, at)
    BY <1>2, <1>4, LastLeadIs
  <2>2. at \in 1..(m - 1) /\ at \in DOMAIN s /\ r[at] = s[at]
    BY <1>1, <1>2, <2>1 DEF IsLast
  <2>3. s[at] # Cont
    <3>1. s[1] # Cont
      <4>1. s # <<>>
        BY <1>1
      <4>. QED  BY <4>1, FirstIsLead
    <3>. QED  BY <2>1, <2>2, <3>1 DEF IsLast
  <2>4. ~(m < at + Stream!SequenceLength(s[at]))
    <3>1. m \in (at + 1)..Len(s)
      BY <1>1, <2>2
    <3>. QED  BY <2>2, <2>3, <3>1 DEF Stream!Utf8Prefix
  <2>5. Len(r) - at + 1 >= Stream!SequenceLength(r[at])
    <3>1. Stream!SequenceLength(r[at]) = Stream!SequenceLength(s[at])
      BY <2>2
    <3>2. Stream!SequenceLength(s[at]) \in 1..3
      BY ByteLengths
    <3>. QED  BY <1>1, <1>2, <2>2, <2>4, <3>1, <3>2
  <2>. QED  BY <1>2, <2>1, <2>5, WholeIs DEF r
<1>. QED  BY <1>3, <1>4

(* What comes after something whole is a lead.                             *)
LEMMA LeadAfterWhole ==
  ASSUME NEW s \in Bytes, Stream!Utf8Prefix(s), NEW n \in 0..Len(s), n # Len(s),
         Stream!Whole(SubSeq(s, 1, n)) = n
  PROVE  s[n + 1] # Cont
<1>. DEFINE r == SubSeq(s, 1, n)
<1>1. Len(s) \in Nat /\ n \in Nat /\ n + 1 \in 1..Len(s) /\ DOMAIN s = 1..Len(s) /\ s # <<>>
  BY DEF Bytes
<1>2. r \in Bytes /\ Len(r) = n /\ \A i \in 1..n : r[i] = s[i]
  BY <1>1, FirstIs DEF Bytes
<1>3. Stream!Whole(r) = n
  OBVIOUS
<1>6. (n + 1) - 1 = n
  OBVIOUS
<1>. HIDE DEF r
<1>4. CASE n = 0
  BY <1>1, <1>4, FirstIsLead
<1>5. CASE n # 0
  <2>. SUFFICES ASSUME s[n + 1] = Cont PROVE FALSE
    OBVIOUS
  <2>1. PICK j \in 1..n :
          /\ Stream!SequenceLength(s[j]) > n + 1 - j
          /\ \A k \in (j + 1)..(n + 1) : s[k] = Cont
    <3>1. n + 1 \in DOMAIN s
      BY <1>1
    <3>. QED  BY <3>1, <1>6 DEF Stream!Utf8Prefix
  <2>2. Stream!SequenceLength(s[j]) \in 1..3 /\ j \in 1..n /\ n \in Nat
    BY <1>1, <2>1, ByteLengths
  <2>3. s[j] # Cont
    <3>1. Stream!SequenceLength(s[j]) # 1
      BY <2>1, <2>2
    <3>. QED  BY <3>1, ByteLengths
  <2>4. r[j] = s[j] /\ \A k \in (j + 1)..n : k \in 1..n /\ k \in (j + 1)..(n + 1)
    BY <1>2, <2>2
  <2>5. IsLast(r, j)
    <3>1. \A k \in (j + 1)..n : r[k] = Cont
      BY <1>2, <2>1, <2>4
    <3>. QED  BY <1>2, <2>2, <2>3, <2>4, <3>1 DEF IsLast
  <2>6. Len(r) - j + 1 >= Stream!SequenceLength(r[j])
    BY <1>2, <1>3, <2>5, WholeIs
  <2>7. Stream!SequenceLength(r[j]) = Stream!SequenceLength(s[j])
    BY <2>4
  <2>. QED  BY <1>2, <2>1, <2>2, <2>6, <2>7
<1>. QED  BY <1>4, <1>5

(* Where a lead begins the rest, the rest is counted by itself.            *)
LEMMA WholeOfBoth ==
  ASSUME NEW head \in Bytes, NEW rest \in Bytes, rest # <<>>, rest[1] # Cont
  PROVE  Stream!Whole(head \o rest) = Len(head) + Stream!Whole(rest)
<1>. DEFINE both == head \o rest
            h == Len(head)
<1>1. IsBoth(Stream!Byte, both, head, rest) /\ h \in Nat /\ Len(rest) \in Nat
  BY BothAre DEF Bytes
<1>. HIDE DEF both, h
<1>2. PICK at : IsLast(rest, at)
  BY LastLeadIs
<1>3. at \in 1..Len(rest) /\ rest[at] # Cont
  BY <1>2 DEF IsLast
<1>4. Len(both) = h + Len(rest) /\ both \in Bytes /\ both[h + at] = rest[at]
  BY <1>1, <1>3 DEF IsBoth, Bytes, h
<1>5. IsLast(both, h + at)
  <2>1. h + at \in 1..Len(both) /\ both[h + at] # Cont
    BY <1>1, <1>3, <1>4
  <2>2. ASSUME NEW i \in (h + at + 1)..Len(both) PROVE both[i] = Cont
    <3>1. i - h \in (at + 1)..Len(rest) /\ i - h \in 1..Len(rest) /\ h + (i - h) = i
      BY <1>1, <1>3, <1>4
    <3>2. both[h + (i - h)] = rest[i - h]
      BY <1>1, <3>1 DEF IsBoth, h
    <3>. QED  BY <1>2, <3>1, <3>2 DEF IsLast
  <2>. QED  BY <2>1, <2>2 DEF IsLast
<1>. DEFINE there == h + at
<1>6. IsLast(both, there)
  BY <1>5
<1>11. there = h + at
  OBVIOUS
<1>. HIDE DEF there
<1>12. /\ Stream!Whole(both) \in {there - 1, Len(both)}
       /\ Stream!Whole(both) = Len(both) <=>
            Len(both) - there + 1 >= Stream!SequenceLength(both[there])
  BY <1>4, <1>6, WholeIs
<1>7. /\ Stream!Whole(rest) \in {at - 1, Len(rest)}
      /\ Stream!Whole(rest) = Len(rest) <=>
           Len(rest) - at + 1 >= Stream!SequenceLength(rest[at])
  BY <1>2, WholeIs
<1>8. Len(both) - there + 1 = Len(rest) - at + 1 /\ both[there] = rest[at]
  BY <1>1, <1>3, <1>4, <1>11
<1>9. Stream!Whole(both) = Len(both) <=> Stream!Whole(rest) = Len(rest)
  BY <1>7, <1>8, <1>12
<1>10. Stream!Whole(both) = h + Stream!Whole(rest)
  BY <1>1, <1>3, <1>4, <1>7, <1>9, <1>11, <1>12
<1>. QED  BY <1>10 DEF both, h

(* A full text is whole, and what it leaves out is not.                    *)
LEMMA WholeAgain ==
  ASSUME NEW s \in Bytes, Stream!Utf8Prefix(s)
  PROVE  Stream!Whole(SubSeq(s, 1, Stream!Whole(s))) = Stream!Whole(s)
<1>. DEFINE w == Stream!Whole(s)
<1>1. Len(s) \in Nat /\ w \in 0..Len(s) /\ (w # Len(s) => s[w + 1] # Cont)
  BY WholeFits DEF Bytes
<1>2. CASE w = Len(s)
  <2>1. SubSeq(s, 1, Len(s)) = s
    BY SubSeqFull DEF Bytes
  <2>. QED  BY <1>2, <2>1
<1>3. CASE w # Len(s)
  <2>. HIDE DEF w
  <2>1. w + 1 \in 1..Len(s) /\ (w + 1) - 1 = w
    BY <1>1, <1>3
  <2>2. Stream!Whole(SubSeq(s, 1, (w + 1) - 1)) = (w + 1) - 1
    BY <1>1, <1>3, <2>1, WholeBeforeLead
  <2>. QED  BY <2>1, <2>2 DEF w
<1>. QED  BY <1>2, <1>3

LEMMA RestIsTorn ==
  ASSUME NEW s \in Bytes
  PROVE  Stream!Whole(SubSeq(s, Stream!Whole(s) + 1, Len(s))) = 0
<1>. DEFINE w == Stream!Whole(s)
            rest == SubSeq(s, w + 1, Len(s))
            head == SubSeq(s, 1, w)
<1>1. Len(s) \in Nat /\ w \in 0..Len(s) /\ (w # Len(s) => s[w + 1] # Cont)
  BY WholeFits DEF Bytes
<1>. HIDE DEF w
<1>2. CASE w = Len(s)
  <2>1. rest = <<>>
    BY <1>1, <1>2, SubSeqEmpty
  <2>. QED  BY <2>1 DEF Stream!Whole, w
<1>3. CASE w # Len(s)
  <2>1. w + 1 \in 1..(Len(s) + 1) /\ Len(s) \in ((w + 1) - 1)..Len(s) /\ 1 \in 1..(Len(s) - (w + 1) + 1)
    BY <1>1, <1>3
  <2>2. /\ rest \in Bytes /\ Len(rest) = Len(s) - (w + 1) + 1
        /\ \A i \in 1..(Len(s) - (w + 1) + 1) : rest[i] = s[(w + 1) + i - 1]
    BY <2>1, PartIs DEF Bytes
  <2>3. rest # <<>> /\ rest[1] # Cont
    <3>. HIDE DEF rest
    <3>1. rest[1] = s[(w + 1) + 1 - 1]
      BY <2>1, <2>2
    <3>2. (w + 1) + 1 - 1 = w + 1
      BY <1>1
    <3>3. Len(rest) # 0
      BY <1>1, <1>3, <2>2
    <3>. QED  BY <1>1, <1>3, <3>1, <3>2, <3>3
  <2>4. head \in Bytes /\ Len(head) = w
    BY <1>1, FirstIs DEF Bytes
  <2>5. head \o rest = s
    <3>1. 1 \in 1..(Len(s) + 1) /\ w \in (1 - 1)..Len(s) /\ Len(s) \in w..Len(s)
      BY <1>1
    <3>2. head \o rest = SubSeq(s, 1, Len(s))
      BY <3>1, ConcatAdjacentSubSeq DEF Bytes
    <3>. QED  BY <3>2, SubSeqFull DEF Bytes
  <2>6. Stream!Whole(s) = Len(head) + Stream!Whole(rest)
    <3>. HIDE DEF head, rest
    <3>. QED  BY <2>2, <2>3, <2>4, <2>5, WholeOfBoth
  <2>7. Stream!Whole(rest) \in Nat
    <3>. HIDE DEF rest
    <3>. QED  BY <2>2, WholeFits DEF Bytes
  <2>. QED  BY <1>1, <2>4, <2>6, <2>7 DEF w
<1>. QED  BY <1>2, <1>3 DEF w

-----------------------------------------------------------------------------
(* Stops.                                                                  *)

LEMMA StopsAre ==
  ASSUME NEW stop \in Stops
  PROVE  stop \in Bytes /\ Len(stop) \in Nat \ {0}
<1>1. stop \in Seq(Stream!Byte) /\ stop # <<>>
  BY LlmAssumption DEF Stream!StreamAssumption
<1>. QED  BY <1>1 DEF Bytes

(* A stop that occurs at place i, and an end of n bytes that begins one.   *)
Occurs(stop, s, i) ==
  i + Len(stop) - 1 <= Len(s) /\ \A k \in 1..Len(stop) : s[i + k - 1] = stop[k]

Opens(stop, s, n) ==
  n < Len(stop) /\ \A k \in 1..n : s[Len(s) - n + k] = stop[k]

LEMMA FoundIs ==
  ASSUME NEW s \in Bytes, NEW i \in 1..Len(s), NEW stop \in Stops
  PROVE  i \in Stream!Found(stop, s) <=> Occurs(stop, s, i)
<1>. DEFINE e == i + Len(stop) - 1
            part_ == SubSeq(s, i, e)
<1>1. /\ Len(s) \in Nat /\ DOMAIN s = 1..Len(s) /\ s \in Seq(Stream!Byte)
      /\ stop \in Seq(Stream!Byte) /\ Len(stop) \in Nat \ {0}
  BY StopsAre DEF Bytes
<1>2. i \in Stream!Found(stop, s) <=> (e <= Len(s) /\ part_ = stop)
  BY <1>1 DEF Stream!Found
<1>3. CASE e <= Len(s)
  <2>1. i \in 1..(Len(s) + 1) /\ e \in (i - 1)..Len(s) /\ e - i + 1 = Len(stop)
    BY <1>1, <1>3
  <2>2. /\ part_ \in Seq(Stream!Byte) /\ Len(part_) = e - i + 1
        /\ \A k \in 1..(e - i + 1) : part_[k] = s[i + k - 1]
    <3>. HIDE DEF e
    <3>. QED  BY <1>1, <2>1, PartIs
  <2>. HIDE DEF part_
  <2>3. part_ = stop <=> \A k \in 1..Len(stop) : part_[k] = stop[k]
    BY <1>1, <2>1, <2>2, SeqEqual
  <2>4. \A k \in 1..Len(stop) : part_[k] = s[i + k - 1]
    BY <2>1, <2>2
  <2>5. part_ = stop <=> \A k \in 1..Len(stop) : s[i + k - 1] = stop[k]
    BY <2>3, <2>4
  <2>. QED  BY <1>2, <1>3, <2>5 DEF Occurs
<1>4. CASE ~(e <= Len(s))
  BY <1>2, <1>4 DEF Occurs
<1>. QED  BY <1>3, <1>4

LEMMA HitsAre ==
  ASSUME NEW s \in Bytes
  PROVE  /\ Stream!Hits(s) \subseteq 1..Len(s)
         /\ \A i \in 1..Len(s) : i \in Stream!Hits(s) <=> \E stop \in Stops : Occurs(stop, s, i)
<1>1. \A stop : Stream!Found(stop, s) \subseteq 1..Len(s)
  BY DEF Stream!Found, Bytes
<1>2. \A i : i \in Stream!Hits(s) <=> \E stop \in Stops : i \in Stream!Found(stop, s)
  BY DEF Stream!Hits
<1>3. Stream!Hits(s) \subseteq 1..Len(s)
  BY <1>1, <1>2
<1>. QED  BY <1>2, <1>3, FoundIs

(* A stop in the first part of a text is a stop of the text.               *)
LEMMA HitsOfFirst ==
  ASSUME NEW s \in Bytes, NEW r, Begins(Stream!Byte, r, s)
  PROVE  Stream!Hits(r) \subseteq Stream!Hits(s)
<1>1. /\ r \in Bytes /\ Len(r) \in Nat /\ Len(s) \in Nat /\ Len(r) <= Len(s)
      /\ \A i \in 1..Len(r) : r[i] = s[i] /\ i \in 1..Len(s)
  BY DEF Begins, Bytes
<1>2. ASSUME NEW i \in Stream!Hits(r) PROVE i \in Stream!Hits(s)
  <2>1. i \in 1..Len(r) /\ i \in 1..Len(s)
    BY <1>1, HitsAre
  <2>2. PICK stop \in Stops : Occurs(stop, r, i)
    BY <1>1, <2>1, HitsAre
  <2>3. Len(stop) \in Nat \ {0}
    BY StopsAre
  <2>4. i + Len(stop) - 1 <= Len(s)
    BY <1>1, <2>1, <2>2, <2>3 DEF Occurs
  <2>5. ASSUME NEW k \in 1..Len(stop) PROVE s[i + k - 1] = stop[k]
    <3>1. i + k - 1 \in 1..Len(r)
      BY <1>1, <2>1, <2>2, <2>3 DEF Occurs
    <3>. QED  BY <1>1, <2>2, <3>1 DEF Occurs
  <2>6. Occurs(stop, s, i)
    BY <2>4, <2>5 DEF Occurs
  <2>. QED  BY <2>1, <2>6, HitsAre
<1>. QED  BY <1>2

(* Where the first stop starts, and what is left when it is cut.           *)
LEMMA TrimIs ==
  ASSUME NEW s \in Bytes
  PROVE  /\ Begins(Stream!Byte, Stream!Trim(s), s) /\ Stream!Hits(Stream!Trim(s)) = {}
         /\ Stream!Hits(s) = {} => Stream!Trim(s) = s
         /\ Stream!Hits(s) # {} =>
              /\ Stream!Min(Stream!Hits(s)) \in Stream!Hits(s)
              /\ Len(Stream!Trim(s)) = Stream!Min(Stream!Hits(s)) - 1
<1>1. Len(s) \in Nat /\ s \in Seq(Stream!Byte)
  BY DEF Bytes
<1>2. CASE Stream!Hits(s) = {}
  <2>1. Stream!Trim(s) = s
    BY <1>2 DEF Stream!Trim
  <2>2. Begins(Stream!Byte, s, s)
    BY <1>1 DEF Begins
  <2>. QED  BY <1>2, <2>1, <2>2
<1>3. CASE Stream!Hits(s) # {}
  <2>. DEFINE m == Stream!Min(Stream!Hits(s))
              t == SubSeq(s, 1, m - 1)
  <2>1. Stream!Hits(s) \subseteq 1..Len(s)
    BY HitsAre
  <2>2. m \in Stream!Hits(s) /\ \A y \in Stream!Hits(s) : m <= y
    <3>1. Stream!Hits(s) \subseteq Nat
      BY <2>1
    <3>. QED  BY <1>3, <3>1, MinOf
  <2>3. Stream!Trim(s) = t
    BY <1>3 DEF Stream!Trim
  <2>. HIDE DEF m
  <2>4. m - 1 \in 0..Len(s) /\ m \in 1..Len(s)
    BY <1>1, <2>1, <2>2
  <2>5. Begins(Stream!Byte, t, s) /\ t \in Bytes /\ Len(t) = m - 1
    BY <1>1, <2>4, FirstBegins, FirstIs DEF Bytes
  <2>. HIDE DEF t
  <2>6. Stream!Hits(t) = {}
    <3>. SUFFICES ASSUME NEW i \in Stream!Hits(t) PROVE FALSE
      OBVIOUS
    <3>1. i \in 1..(m - 1)
      BY <2>5, HitsAre
    <3>2. m <= i
      BY <2>2, <2>5, HitsOfFirst
    <3>. QED  BY <2>4, <3>1, <3>2
  <2>. QED  BY <1>3, <2>2, <2>3, <2>5, <2>6 DEF m
<1>. QED  BY <1>2, <1>3

(* The end that is held back is the longest that begins a stop.            *)
LEMMA OpensIs ==
  ASSUME NEW s \in Bytes, NEW n \in 1..Len(s), NEW stop \in Stops, n < Len(stop)
  PROVE  Stream!IsPrefix(SubSeq(s, Len(s) - n + 1, Len(s)), stop) <=> Opens(stop, s, n)
<1>. DEFINE m == Len(s) - n + 1
            end == SubSeq(s, m, Len(s))
<1>1. /\ Len(s) \in Nat /\ s \in Seq(Stream!Byte)
      /\ stop \in Seq(Stream!Byte) /\ Len(stop) \in Nat
  BY StopsAre DEF Bytes
<1>2. m \in 1..(Len(s) + 1) /\ Len(s) \in (m - 1)..Len(s) /\ Len(s) - m + 1 = n
  BY <1>1
<1>3. /\ end \in Seq(Stream!Byte) /\ Len(end) = Len(s) - m + 1
      /\ \A k \in 1..(Len(s) - m + 1) : end[k] = s[m + k - 1]
  <2>. HIDE DEF m
  <2>. QED  BY <1>1, <1>2, PartIs
<1>4. Stream!IsPrefix(end, stop) <=> Begins(Stream!Byte, end, stop)
  <2>. HIDE DEF end
  <2>. QED  BY <1>1, <1>3, PrefixIs
<1>5. Len(end) = n /\ \A k \in 1..n : end[k] = s[m + k - 1]
  <2>. HIDE DEF end, m
  <2>. QED  BY <1>2, <1>3
<1>6. \A k \in 1..n : m + k - 1 = Len(s) - n + k
  BY <1>1
<1>7. Begins(Stream!Byte, end, stop) <=> \A k \in 1..n : end[k] = stop[k]
  <2>. HIDE DEF end, m
  <2>. QED  BY <1>1, <1>3, <1>5 DEF Begins
<1>. HIDE DEF end, m
<1>8. \A k \in 1..n : end[k] = s[Len(s) - n + k]
  BY <1>5, <1>6
<1>9. Opens(stop, s, n) <=> \A k \in 1..n : s[Len(s) - n + k] = stop[k]
  BY DEF Opens
<1>10. Stream!IsPrefix(end, stop) <=> Opens(stop, s, n)
  BY <1>4, <1>7, <1>8, <1>9
<1>. QED  BY <1>10 DEF end, m

LEMMA PendingIs ==
  ASSUME NEW s \in Bytes
  PROVE  /\ Stream!PendingStop(s) \in 0..Len(s)
         /\ Stream!PendingStop(s) # 0 =>
              \E stop \in Stops : Opens(stop, s, Stream!PendingStop(s))
         /\ \A n \in 1..Len(s), stop \in Stops : Opens(stop, s, n) => n <= Stream!PendingStop(s)
<1>. DEFINE Ends == {n \in 1..Len(s) : \E stop \in Stops :
                       n < Len(stop) /\ Stream!IsPrefix(SubSeq(s, Len(s) - n + 1, Len(s)), stop)}
            P == Stream!Max({0} \cup Ends)
<1>1. Len(s) \in Nat
  BY DEF Bytes
<1>2. Stream!PendingStop(s) = P
  BY DEF Stream!PendingStop
<1>3. \A n \in Ends : n \in 1..Len(s) /\ \E stop \in Stops : Opens(stop, s, n)
  BY OpensIs
<1>4. ASSUME NEW n \in 1..Len(s), NEW stop \in Stops, Opens(stop, s, n) PROVE n \in Ends
  <2>1. n < Len(stop)
    BY <1>4 DEF Opens
  <2>2. Stream!IsPrefix(SubSeq(s, Len(s) - n + 1, Len(s)), stop)
    BY <1>4, <2>1, OpensIs
  <2>. QED  BY <2>1, <2>2
<1>5. P \in {0} \cup Ends /\ \A y \in {0} \cup Ends : P >= y
  <2>1. {0} \cup Ends \in SUBSET (0..Len(s))
    BY <1>1
  <2>2. {0} \cup Ends # {}
    OBVIOUS
  <2>. HIDE DEF Ends
  <2>. QED  BY <1>1, <2>1, <2>2, MaxOf
<1>. HIDE DEF Ends, P
<1>6. P \in 0..Len(s)
  BY <1>1, <1>3, <1>5
<1>7. P # 0 => \E stop \in Stops : Opens(stop, s, P)
  BY <1>3, <1>5
<1>8. ASSUME NEW n \in 1..Len(s), NEW stop \in Stops, Opens(stop, s, n) PROVE n <= P
  <2>1. P >= n
    BY <1>4, <1>5, <1>8
  <2>. QED  BY <1>6, <2>1
<1>. QED  BY <1>2, <1>6, <1>7, <1>8

(* A stop that more text completes starts in what was held back.           *)
LEMMA HeldBack ==
  ASSUME NEW a \in Bytes, NEW p \in Bytes, Stream!Hits(a) = {}, NEW i \in Stream!Hits(a \o p)
  PROVE  i > Len(a) - Stream!PendingStop(a)
<1>. DEFINE both == a \o p
            P == Stream!PendingStop(a)
<1>1. IsBoth(Stream!Byte, both, a, p) /\ Len(a) \in Nat /\ Len(p) \in Nat
  BY BothAre DEF Bytes
<1>2. i \in Stream!Hits(both)
  OBVIOUS
<1>3. P \in 0..Len(a) /\ \A n \in 1..Len(a), stop \in Stops : Opens(stop, a, n) => n <= P
  BY PendingIs
<1>. HIDE DEF both, P
<1>4. both \in Bytes /\ Len(both) = Len(a) + Len(p) /\ \A k \in 1..Len(a) : both[k] = a[k]
  BY <1>1 DEF IsBoth, Bytes
<1>5. i \in 1..Len(both)
  BY <1>2, <1>4, HitsAre
<1>6. PICK stop \in Stops : Occurs(stop, both, i)
  BY <1>2, <1>4, <1>5, HitsAre
<1>7. Len(stop) \in Nat \ {0} /\ i + Len(stop) - 1 <= Len(both)
  BY <1>6, StopsAre DEF Occurs
<1>8. CASE i > Len(a)
  BY <1>1, <1>3, <1>5, <1>8 DEF P
<1>9. CASE ~(i > Len(a))
  <2>1. i \in 1..Len(a)
    BY <1>1, <1>4, <1>5, <1>9
  <2>2. ~(i + Len(stop) - 1 <= Len(a))
    <3>. SUFFICES ASSUME i + Len(stop) - 1 <= Len(a) PROVE FALSE
      OBVIOUS
    <3>1. \A k \in 1..Len(stop) : i + k - 1 \in 1..Len(a)
      BY <1>1, <1>7, <2>1
    <3>2. Occurs(stop, a, i)
      BY <1>4, <1>6, <3>1 DEF Occurs
    <3>. QED  BY <2>1, <3>2, HitsAre
  <2>. DEFINE n == Len(a) - i + 1
  <2>3. n \in 1..Len(a) /\ n < Len(stop)
    BY <1>1, <1>7, <2>1, <2>2
  <2>4. ASSUME NEW k \in 1..n PROVE a[Len(a) - n + k] = stop[k]
    <3>1. /\ Len(a) - n + k = i + k - 1 /\ i + k - 1 \in 1..Len(a)
          /\ k \in 1..Len(stop)
      BY <1>1, <1>7, <2>1, <2>3
    <3>2. both[i + k - 1] = a[i + k - 1]
      BY <1>4, <3>1
    <3>3. both[i + k - 1] = stop[k]
      BY <1>6, <3>1 DEF Occurs
    <3>. QED  BY <3>1, <3>2, <3>3
  <2>5. Opens(stop, a, n)
    <3>. HIDE DEF n
    <3>. QED  BY <2>3, <2>4 DEF Opens
  <2>6. n <= P
    <3>. HIDE DEF n
    <3>. QED  BY <1>3, <2>3, <2>5
  <2>7. i > Len(a) - P
    BY <1>1, <1>3, <2>1, <2>6
  <2>. QED  BY <2>7 DEF P
<1>. QED  BY <1>8, <1>9

(* More text lengthens what is held back by no more than itself.           *)
LEMMA PendingGrows ==
  ASSUME NEW a \in Bytes, NEW p \in Bytes
  PROVE  Stream!PendingStop(a \o p) <= Stream!PendingStop(a) + Len(p)
<1>. DEFINE both == a \o p
            P == Stream!PendingStop(a)
            Q == Stream!PendingStop(both)
<1>1. IsBoth(Stream!Byte, both, a, p) /\ Len(a) \in Nat /\ Len(p) \in Nat
  BY BothAre DEF Bytes
<1>2. P \in 0..Len(a) /\ \A n \in 1..Len(a), stop \in Stops : Opens(stop, a, n) => n <= P
  BY PendingIs
<1>. HIDE DEF both, P
<1>3. both \in Bytes /\ Len(both) = Len(a) + Len(p) /\ \A k \in 1..Len(a) : both[k] = a[k]
  BY <1>1 DEF IsBoth, Bytes
<1>4. Q \in 0..Len(both) /\ (Q # 0 => \E stop \in Stops : Opens(stop, both, Q))
  BY <1>3, PendingIs
<1>. HIDE DEF Q
<1>5. Q <= P + Len(p)
  <2>1. CASE Q <= Len(p)
    BY <1>1, <1>2, <1>3, <1>4, <2>1
  <2>2. CASE ~(Q <= Len(p))
    <3>. DEFINE n == Q - Len(p)
    <3>1. n \in 1..Len(a) /\ Q # 0 /\ Q \in Nat
      BY <1>1, <1>3, <1>4, <2>2
    <3>2. PICK stop \in Stops : Opens(stop, both, Q)
      BY <1>4, <3>1
    <3>3. Len(stop) \in Nat /\ Q < Len(stop)
      BY <3>2, StopsAre DEF Opens
    <3>4. n < Len(stop)
      BY <1>1, <3>1, <3>3
    <3>5. ASSUME NEW k \in 1..n PROVE a[Len(a) - n + k] = stop[k]
      <4>1. /\ k \in 1..Q /\ Len(both) - Q + k = Len(a) - n + k
            /\ Len(a) - n + k \in 1..Len(a)
        BY <1>1, <1>3, <3>1
      <4>2. both[Len(both) - Q + k] = stop[k]
        BY <3>2, <4>1 DEF Opens
      <4>3. both[Len(a) - n + k] = a[Len(a) - n + k]
        <5>. HIDE DEF n
        <5>. QED  BY <1>3, <4>1
      <4>. QED  BY <4>1, <4>2, <4>3
    <3>6. Opens(stop, a, n)
      <4>. HIDE DEF n
      <4>. QED  BY <3>4, <3>5 DEF Opens
    <3>7. n <= P
      <4>. HIDE DEF n
      <4>. QED  BY <1>2, <3>1, <3>6
    <3>. QED  BY <1>1, <1>2, <3>1, <3>7
  <2>. QED  BY <2>1, <2>2
<1>. QED  BY <1>5 DEF Q, both, P

-----------------------------------------------------------------------------
(* Pieces joined one by one.                                               *)

(* A list can be gone through step by step.                                *)
Steps(base, n, turn, f) ==
  f = [i \in 0..n |-> IF i = 0 THEN base ELSE turn[<<f[i - 1], i>>]]

LEMMA Iterated ==
  ASSUME NEW S, NEW base \in S, NEW n \in Nat, NEW turn \in [S \X (1..n) -> S]
  PROVE  \E f \in [0..n -> S] : Steps(base, n, turn, f)
<1>. DEFINE Keeps(h, m) == h[0] = base /\ \A i \in 1..m : h[i] = turn[<<h[i - 1], i>>]
            Good == {m \in 0..n : \E h \in [0..m -> S] : Keeps(h, m)}
<1>1. 0 \in 0..n /\ n \in 0..n
  OBVIOUS
<1>2. 0 \in Good
  <2>. DEFINE none == [i \in 0..0 |-> base]
  <2>1. none \in [0..0 -> S] /\ none[0] = base
    OBVIOUS
  <2>. HIDE DEF none
  <2>2. Keeps(none, 0)
    BY <2>1
  <2>. HIDE DEF Keeps
  <2>. QED  BY <1>1, <2>1, <2>2
<1>3. ASSUME NEW m \in 1..n, m - 1 \in Good PROVE m \in Good
  <2>1. PICK h \in [0..(m - 1) -> S] : Keeps(h, m - 1)
    BY <1>3
  <2>. DEFINE g == [i \in 0..m |-> IF i = m THEN turn[<<h[m - 1], m>>] ELSE h[i]]
  <2>2. m - 1 \in 0..(m - 1) /\ m \in Nat /\ m # 0 /\ m \in 0..n
    OBVIOUS
  <2>3. turn[<<h[m - 1], m>>] \in S
    <3>1. h[m - 1] \in S
      BY <2>2
    <3>. QED  BY <3>1
  <2>4. g \in [0..m -> S]
    BY <2>3
  <2>5. \A i \in 0..(m - 1) : g[i] = h[i]
    BY <2>2
  <2>6. g[m] = turn[<<h[m - 1], m>>]
    BY <2>2
  <2>. HIDE DEF g
  <2>7. g[0] = base
    <3>1. 0 \in 0..(m - 1)
      BY <2>2
    <3>. QED  BY <2>1, <2>5, <3>1
  <2>8. ASSUME NEW i \in 1..m PROVE g[i] = turn[<<g[i - 1], i>>]
    <3>1. CASE i = m
      BY <2>2, <2>5, <2>6, <3>1
    <3>2. CASE i # m
      <4>1. i \in 1..(m - 1) /\ i \in 0..(m - 1) /\ i - 1 \in 0..(m - 1)
        BY <2>2, <3>2
      <4>2. h[i] = turn[<<h[i - 1], i>>]
        BY <2>1, <4>1
      <4>. QED  BY <2>5, <4>1, <4>2
    <3>. QED  BY <3>1, <3>2
  <2>9. Keeps(g, m)
    BY <2>7, <2>8
  <2>. HIDE DEF Keeps
  <2>. QED  BY <2>2, <2>4, <2>9
<1>4. \A m \in 0..n : m \in Good
  <2>. HIDE DEF Good
  <2>. QED  BY <1>2, <1>3, Counted
<1>5. PICK h \in [0..n -> S] : Keeps(h, n)
  <2>1. n \in Good
    <3>. HIDE DEF Good
    <3>. QED  BY <1>1, <1>4
  <2>. HIDE DEF Keeps
  <2>. QED  BY <2>1
<1>6. \A i \in 0..n : h[i] = IF i = 0 THEN base ELSE turn[<<h[i - 1], i>>]
  <2>. SUFFICES ASSUME NEW i \in 0..n
                PROVE  h[i] = IF i = 0 THEN base ELSE turn[<<h[i - 1], i>>]
    OBVIOUS
  <2>1. i = 0 \/ i \in 1..n
    OBVIOUS
  <2>. QED  BY <1>5, <2>1
<1>7. Steps(base, n, turn, h)
  <2>. HIDE DEF Keeps
  <2>. QED  BY <1>6 DEF Steps
<1>. QED  BY <1>7

(* The sequences joined one by one: f[i] is the first i of them.           *)
Joins(seqs, f, m) == f[0] = <<>> /\ \A i \in 1..m : f[i] = f[i - 1] \o seqs[i]

Joined(S, seqs, f) ==
  seqs \in Seq(Seq(S)) /\ f \in [0..Len(seqs) -> Seq(S)] /\ Joins(seqs, f, Len(seqs))

(* There is such a joining of any list of sequences.                       *)
LEMMA JoinExists ==
  ASSUME NEW S, NEW seqs \in Seq(Seq(S))
  PROVE  \E f : Joined(S, seqs, f)
<1>. DEFINE n == Len(seqs)
            T == Seq(S)
            turn == [x \in T \X (1..n) |-> x[1] \o seqs[x[2]]]
<1>1. n \in Nat /\ 0 \in 0..n /\ <<>> \in T /\ \A i \in 1..n : seqs[i] \in T
  OBVIOUS
<1>2. turn \in [T \X (1..n) -> T]
  <2>1. ASSUME NEW x \in T \X (1..n) PROVE x[1] \o seqs[x[2]] \in T
    <3>1. x[1] \in T /\ seqs[x[2]] \in T
      BY <1>1
    <3>. QED  BY <3>1
  <2>. QED  BY <2>1
<1>3. PICK f \in [0..n -> T] : Steps(<<>>, n, turn, f)
  <2>. HIDE DEF turn, T, n
  <2>. QED  BY <1>1, <1>2, Iterated
<1>4. f[0] = <<>>
  <2>. HIDE DEF turn, n, T
  <2>. QED  BY <1>1, <1>3 DEF Steps
<1>5. ASSUME NEW i \in 1..n PROVE f[i] = f[i - 1] \o seqs[i]
  <2>1. i \in 0..n /\ i # 0 /\ i - 1 \in 0..n
    BY <1>1
  <2>2. f[i] = turn[<<f[i - 1], i>>]
    <3>. HIDE DEF turn, n, T
    <3>. QED  BY <1>3, <2>1 DEF Steps
  <2>3. <<f[i - 1], i>> \in T \X (1..n)
    BY <2>1
  <2>. QED  BY <2>2, <2>3
<1>. QED  BY <1>3, <1>4, <1>5 DEF Joined, Joins

LEMMA JoinStart ==
  ASSUME NEW S, NEW seqs, NEW f, Joined(S, seqs, f)
  PROVE  Len(seqs) \in Nat /\ f[0] = <<>> /\ seqs \in Seq(Seq(S))
BY DEF Joined, Joins

(* What a step of the joining does.                                        *)
Grown(S, seqs, f, k) ==
  /\ k \in 0..Len(seqs) /\ k - 1 \in 0..Len(seqs) /\ seqs[k] \in Seq(S)
  /\ f[k] \in Seq(S) /\ f[k - 1] \in Seq(S) /\ f[k] = f[k - 1] \o seqs[k]
  /\ Len(f[k - 1]) \in Nat /\ Len(seqs[k]) \in Nat
  /\ Len(f[k]) = Len(f[k - 1]) + Len(seqs[k])
  /\ \A x \in 1..Len(f[k - 1]) : f[k][x] = f[k - 1][x]
  /\ \A p \in 1..Len(seqs[k]) : f[k][Len(f[k - 1]) + p] = seqs[k][p]

LEMMA JoinStep ==
  ASSUME NEW S, NEW seqs, NEW f, Joined(S, seqs, f), NEW k \in 1..Len(seqs)
  PROVE  Grown(S, seqs, f, k)
<1>. DEFINE a == f[k - 1]
            b == seqs[k]
<1>0. seqs \in Seq(Seq(S)) /\ f \in [0..Len(seqs) -> Seq(S)]
  BY DEF Joined
<1>1. Len(seqs) \in Nat /\ k \in 0..Len(seqs) /\ k - 1 \in 0..Len(seqs)
  BY <1>0
<1>2. a \in Seq(S)
  BY <1>0, <1>1
<1>5. b \in Seq(S)
  BY <1>0, <1>1
<1>6. f[k] \in Seq(S)
  BY <1>0, <1>1
<1>4. f[k] = a \o b
  BY DEF Joined, Joins
<1>. HIDE DEF a, b
<1>3. /\ a \o b \in Seq(S) /\ Len(a \o b) = Len(a) + Len(b)
      /\ Len(a) \in Nat /\ Len(b) \in Nat
      /\ \A x \in 1..Len(a) : (a \o b)[x] = a[x]
      /\ \A p \in 1..Len(b) : (a \o b)[Len(a) + p] = b[p]
  BY <1>2, <1>5
<1>. QED  BY <1>1, <1>2, <1>3, <1>4, <1>5, <1>6 DEF a, b, Grown

(* FlattenSeq joins them.                                                  *)
LEMMA FlattenJoins ==
  ASSUME NEW S, NEW seqs, NEW f, Joined(S, seqs, f),
         NEW k \in 0..Len(seqs)
  PROVE  Stream!FlattenSeq(SubSeq(seqs, 1, k)) = f[k]
<1>. DEFINE q == SubSeq(seqs, 1, k)
            Is(h) == h = [i \in 1..k |-> IF i = 1 THEN q[i] ELSE h[i - 1] \o q[i]]
            g == [i \in 1..k |-> f[i]]
<1>0. seqs \in Seq(Seq(S)) /\ Len(seqs) \in Nat /\ f[0] = <<>>
  BY JoinStart
<1>1. Len(q) = k /\ \A i \in 1..k : q[i] = seqs[i]
  BY <1>0
<1>2. CASE k = 0
  <2>1. q = <<>>
    BY <1>2
  <2>. QED  BY <1>0, <1>2, <2>1 DEF Stream!FlattenSeq
<1>3. CASE k # 0
  <2>. HIDE DEF q
  <2>1. Is(g)
    <3>1. ASSUME NEW i \in 1..k
          PROVE  f[i] = IF i = 1 THEN q[i] ELSE g[i - 1] \o q[i]
      <4>1. i \in 1..Len(seqs)
        BY <1>0
      <4>2. f[i] = f[i - 1] \o seqs[i] /\ q[i] = seqs[i] /\ seqs[i] \in Seq(S)
        <5>. HIDE DEF g, Is
        <5>1. f[i] = f[i - 1] \o seqs[i] /\ seqs[i] \in Seq(S)
          <6>1. Grown(S, seqs, f, i)
            BY <4>1, JoinStep
          <6>. QED  BY <6>1 DEF Grown
        <5>2. q[i] = seqs[i]
          BY <1>1
        <5>. QED  BY <5>1, <5>2, Zenon
      <4>3. CASE i = 1
        <5>1. f[0] = <<>> /\ i - 1 = 0
          BY <1>0, <4>3
        <5>2. <<>> \o seqs[i] = seqs[i]
          BY <4>2
        <5>. QED  BY <4>2, <4>3, <5>1, <5>2
      <4>4. CASE i # 1
        <5>1. i - 1 \in 1..k
          BY <4>4
        <5>2. g[i - 1] = f[i - 1]
          BY <5>1
        <5>. QED  BY <4>2, <4>4, <5>2
      <4>. QED  BY <4>3, <4>4
    <3>. QED  BY <3>1
  <2>2. PICK h : Is(h) /\ Stream!FlattenSeq(q) = h[k]
    <3>1. Is(CHOOSE h : Is(h))
      <4>. HIDE DEF Is, g
      <4>. QED  BY <2>1, Zenon
    <3>2. Stream!FlattenSeq(q) = (CHOOSE h : Is(h))[k]
      BY <1>1, <1>3 DEF Stream!FlattenSeq
    <3>. QED  BY <3>1, <3>2
  <2>. DEFINE Good == {m \in 0..k : m # 0 => h[m] = f[m]}
  <2>3. ASSUME NEW m \in 1..k, m - 1 \in Good PROVE m \in Good
    <3>1. h[m] = IF m = 1 THEN q[m] ELSE h[m - 1] \o q[m]
      BY <2>2
    <3>2. f[m] = IF m = 1 THEN q[m] ELSE f[m - 1] \o q[m]
      <4>1. f[m] = IF m = 1 THEN q[m] ELSE g[m - 1] \o q[m]
        BY <2>1
      <4>2. CASE m = 1
        BY <4>1, <4>2
      <4>3. CASE m # 1
        <5>1. m - 1 \in 1..k
          BY <4>3
        <5>. QED  BY <4>1, <4>3, <5>1
      <4>. QED  BY <4>2, <4>3
    <3>. QED  BY <3>1, <3>2, <2>3
  <2>4. k \in Nat /\ 0 \in Good
    OBVIOUS
  <2>5. \A m \in 0..k : m \in Good
    <3>. HIDE DEF Good
    <3>. QED  BY <2>3, <2>4, Counted
  <2>6. h[k] = f[k]
    BY <1>3, <2>5
  <2>. QED  BY <2>2, <2>6 DEF q
<1>. QED  BY <1>2, <1>3

(* One more piece adds to what was streamed.                               *)
LEMMA StreamedMore ==
  ASSUME NEW list \in Seq(Bytes), NEW x \in Bytes
  PROVE  /\ Append(list, x) \in Seq(Bytes) /\ Len(Append(list, x)) = Len(list) + 1
         /\ Stream!FlattenSeq(list) \in Bytes
         /\ Stream!FlattenSeq(Append(list, x)) = Stream!FlattenSeq(list) \o x
<1>. DEFINE more == Append(list, x)
            n == Len(list)
<1>1. /\ n \in Nat /\ more \in Seq(Bytes) /\ Len(more) = n + 1 /\ more[n + 1] = x
      /\ \A i \in 1..n : more[i] = list[i]
  OBVIOUS
<1>2. PICK f : Joined(Stream!Byte, more, f)
  BY <1>1, JoinExists DEF Bytes
<1>. HIDE DEF more
<1>3. SubSeq(more, 1, n) = list
  <2>1. n \in 0..Len(more)
    BY <1>1
  <2>2. /\ SubSeq(more, 1, n) \in Seq(Bytes) /\ Len(SubSeq(more, 1, n)) = n
        /\ \A i \in 1..n : SubSeq(more, 1, n)[i] = more[i]
    <3>. HIDE DEF n
    <3>. QED  BY <1>1, <2>1, FirstIs
  <2>. QED  BY <1>1, <2>2, SeqEqual
<1>4. SubSeq(more, 1, n + 1) = more
  BY <1>1, SubSeqFull
<1>. HIDE DEF n
<1>5. n \in 0..Len(more) /\ n + 1 \in 0..Len(more) /\ n + 1 \in 1..Len(more) /\ (n + 1) - 1 = n
  BY <1>1
<1>6. Stream!FlattenSeq(list) = f[n]
  <2>1. Stream!FlattenSeq(SubSeq(more, 1, n)) = f[n]
    BY <1>2, <1>5, FlattenJoins
  <2>. QED  BY <1>3, <2>1
<1>7. Stream!FlattenSeq(more) = f[n + 1]
  <2>. DEFINE k == n + 1
  <2>1. k \in 0..Len(more) /\ SubSeq(more, 1, k) = more
    BY <1>4, <1>5
  <2>. HIDE DEF k
  <2>2. Stream!FlattenSeq(SubSeq(more, 1, k)) = f[k]
    BY <1>2, <2>1, FlattenJoins
  <2>3. Stream!FlattenSeq(more) = f[k]
    BY <2>1, <2>2
  <2>. QED  BY <2>3 DEF k
<1>8. Grown(Stream!Byte, more, f, n + 1)
  BY <1>2, <1>5, JoinStep
<1>9. f[n] \in Bytes /\ f[n + 1] = f[n] \o x
  BY <1>1, <1>5, <1>8 DEF Grown, Bytes
<1>10. /\ more \in Seq(Bytes) /\ Len(more) = Len(list) + 1
       /\ Stream!FlattenSeq(list) \in Bytes
       /\ Stream!FlattenSeq(more) = Stream!FlattenSeq(list) \o x
  BY <1>1, <1>6, <1>7, <1>9 DEF n
<1>. QED  BY <1>10 DEF more

LEMMA NothingStreamed == Stream!FlattenSeq(<<>>) = <<>>
BY DEF Stream!FlattenSeq

-----------------------------------------------------------------------------
(* The text of a reply: what is so between any two steps.                  *)

Said == SubSeq(text, 1, emitted)

(* What the model said is UTF-8 that may be cut, and the text is what it   *)
(* said, up to some point, with no stop in it.                             *)
Spoken ==
  /\ Stream!Utf8Prefix(raw) /\ Stream!IsPrefix(text, raw) /\ Stream!Hits(text) = {}

(* What the caller has seen and what the joiner holds is what was emitted; *)
(* the joiner holds the character that it would tear.                      *)
Passed ==
  /\ Stream!Streamed \o pending = Said
  /\ streaming # "returned" => Len(Stream!Streamed) = Stream!Whole(Said)

(* While it goes on, what is held back is what may become a stop.          *)
GoesOn ==
  streaming \in {"running", "capped"} =>
    /\ text = raw /\ emitted = Len(text) - Stream!PendingStop(text)
    /\ ~quit /\ reason = "none"

(* How it ended.                                                           *)
HasEnded ==
  streaming \in {"over", "returned"} =>
    /\ emitted = Len(text)
    /\ quit => reason = "user"
    /\ reason = "stop_sequence" =>
         Stream!Hits(raw) # {} /\ text = SubSeq(raw, 1, Stream!Min(Stream!Hits(raw)) - 1)
    /\ reason \in {"length", "eos", "context_length"} => text = raw

(* What was handed over.                                                   *)
HandedOver ==
  streaming = "returned" =>
    /\ full = Stream!FullText(text)
    /\ IF quit THEN Len(Stream!Streamed) = Stream!Whole(text) ELSE pending = <<>>

StreamInv == Stream!TypeOK /\ Spoken /\ Passed /\ GoesOn /\ HasEnded /\ HandedOver

-----------------------------------------------------------------------------
(* What a chunk adds.                                                      *)

LEMMA Regroup ==
  ASSUME NEW a \in Bytes, NEW b \in Bytes, NEW c \in Bytes
  PROVE  (a \o b) \o c = a \o (b \o c)
<1>1. a \in Seq(Stream!Byte) /\ b \in Seq(Stream!Byte) /\ c \in Seq(Stream!Byte)
  BY DEF Bytes
<1>. QED  BY <1>1

(* The chunk, behind what the joiner holds, is cut where a character would *)
(* be torn: what passes ends where the whole part of all that was said     *)
(* ends.                                                                   *)
LEMMA Passing ==
  ASSUME NEW seen \in Bytes, NEW held \in Bytes, NEW chunk \in Bytes,
         Stream!Utf8Prefix(seen \o (held \o chunk)),
         Len(seen) = Stream!Whole(seen \o held)
  PROVE  Stream!Whole(seen \o (held \o chunk)) = Len(seen) + Stream!Whole(held \o chunk)
<1>. DEFINE all == held \o chunk
            before == seen \o held
            after == seen \o all
            n == Len(seen)
<1>1. /\ seen \in Seq(Stream!Byte) /\ held \in Seq(Stream!Byte) /\ chunk \in Seq(Stream!Byte)
      /\ all \in Seq(Stream!Byte)
  BY DEF Bytes
<1>2. n \in Nat
  BY <1>1
<1>. HIDE DEF n
<1>3. after = before \o chunk
  BY <1>1
<1>4. IsBoth(Stream!Byte, before, seen, held)
  BY <1>1, BothAre
<1>5. IsBoth(Stream!Byte, after, seen, all)
  <2>. HIDE DEF all
  <2>. QED  BY <1>1, BothAre
<1>6. IsBoth(Stream!Byte, after, before, chunk)
  <2>1. before \in Seq(Stream!Byte)
    BY <1>4 DEF IsBoth
  <2>2. IsBoth(Stream!Byte, before \o chunk, before, chunk)
    <3>. HIDE DEF before
    <3>. QED  BY <1>1, <2>1, BothAre
  <2>. HIDE DEF before, after
  <2>. QED  BY <1>3, <2>2
<1>7. Stream!Utf8Prefix(after) /\ n = Stream!Whole(before)
  BY DEF n
<1>. HIDE DEF before, after, all
<1>8. Begins(Stream!Byte, before, after)
  <2>1. Len(before) \in Nat /\ Len(chunk) \in Nat /\ before \in Seq(Stream!Byte)
    BY <1>1, <1>4 DEF IsBoth
  <2>. QED  BY <1>6, <2>1 DEF IsBoth, Begins
<1>9. before \in Bytes /\ Stream!Utf8Prefix(before) /\ after \in Bytes
  <2>1. after \in Bytes
    BY <1>5 DEF IsBoth, Bytes
  <2>. QED  BY <1>7, <1>8, <2>1, Utf8First
<1>10. ASSUME NEW s, s \in Bytes, NEW rest, IsBoth(Stream!Byte, s, seen, rest), rest \in Bytes
       PROVE  SubSeq(s, 1, n) = seen /\ n \in 0..Len(s)
  <2>1. n \in 0..Len(s) /\ Len(s) \in Nat
    <3>1. Len(rest) \in Nat /\ Len(s) = n + Len(rest)
      BY <1>10 DEF IsBoth, Bytes, n
    <3>. QED  BY <1>2, <3>1
  <2>2. /\ SubSeq(s, 1, n) \in Seq(Stream!Byte) /\ Len(SubSeq(s, 1, n)) = n
        /\ \A i \in 1..n : SubSeq(s, 1, n)[i] = s[i]
    BY <1>10, <2>1, FirstIs DEF Bytes
  <2>3. \A i \in 1..n : s[i] = seen[i]
    BY <1>10 DEF IsBoth, n
  <2>4. \A i \in 1..Len(seen) : SubSeq(s, 1, n)[i] = seen[i]
    BY <2>2, <2>3 DEF n
  <2>. QED  BY <1>1, <2>1, <2>2, <2>4, SeqEqual DEF n
<1>11. Stream!Whole(seen) = n
  <2>1. SubSeq(before, 1, n) = seen
    BY <1>4, <1>9, <1>10
  <2>2. Stream!Whole(SubSeq(before, 1, Stream!Whole(before))) = Stream!Whole(before)
    BY <1>9, WholeAgain
  <2>. QED  BY <1>7, <2>1, <2>2
<1>12. CASE all = <<>>
  <2>1. after = seen
    <3>1. seen \o <<>> = seen
      BY <1>1
    <3>. QED  BY <1>12, <3>1 DEF after
  <2>2. Stream!Whole(all) = 0
    BY <1>12 DEF Stream!Whole
  <2>. QED  BY <1>2, <1>11, <2>1, <2>2 DEF after, all, n
<1>13. CASE all # <<>>
  <2>1. all[1] # Cont
    <3>1. SubSeq(after, 1, n) = seen /\ n \in 0..Len(after)
      BY <1>1, <1>5, <1>9, <1>10 DEF Bytes
    <3>2. Len(all) \in Nat \ {0} /\ Len(after) = n + Len(all)
      BY <1>1, <1>5, <1>13 DEF IsBoth, n
    <3>3. n # Len(after)
      BY <1>2, <3>2
    <3>4. after[n + 1] # Cont
      BY <1>7, <1>9, <1>11, <3>1, <3>3, LeadAfterWhole
    <3>5. after[n + 1] = all[1]
      BY <1>5, <3>2 DEF IsBoth, n
    <3>. QED  BY <3>4, <3>5
  <2>2. all \in Bytes
    BY <1>1 DEF Bytes
  <2>3. Stream!Whole(seen \o all) = Len(seen) + Stream!Whole(all)
    BY <1>13, <2>1, <2>2, WholeOfBoth
  <2>. QED  BY <2>3 DEF all
<1>. QED  BY <1>12, <1>13

(* What is shown and what is held, once a chunk was consumed.              *)
Seen(list, held, s) ==
  /\ list \in Seq(Bytes) /\ held \in Bytes /\ Stream!FlattenSeq(list) \in Bytes
  /\ Stream!FlattenSeq(list) \o held = s
  /\ Len(Stream!FlattenSeq(list)) = Stream!Whole(s)

LEMMA Consumed ==
  ASSUME NEW s, Seen(shown, pending, s), NEW chunk \in Bytes,
         Stream!Utf8Prefix(s \o chunk), quit \in BOOLEAN, NEW keep \in BOOLEAN,
         Stream!Consume(chunk, keep)
  PROVE  /\ Seen(shown', pending', s \o chunk) /\ quit' \in BOOLEAN
         /\ Len(shown) \in Nat /\ Len(shown') \in Nat /\ Len(shown) <= Len(shown')
<1>. DEFINE all == pending \o chunk
            w == Stream!Whole(all)
            head == SubSeq(all, 1, w)
            rest == SubSeq(all, w + 1, Len(all))
            seen == Stream!FlattenSeq(shown)
<1>1. /\ shown \in Seq(Bytes) /\ pending \in Bytes /\ seen \in Bytes
      /\ seen \o pending = s /\ Len(seen) = Stream!Whole(s)
  BY DEF Seen
<1>2. all \in Bytes /\ Len(all) \in Nat
  BY <1>1 DEF Bytes
<1>3. s \o chunk = seen \o all
  <2>1. (seen \o pending) \o chunk = seen \o (pending \o chunk)
    <3>. HIDE DEF seen
    <3>. QED  BY <1>1, Regroup, Zenon
  <2>. QED  BY <1>1, <2>1, Zenon
<1>4. /\ pending' = rest
      /\ IF w > 0 THEN shown' = Append(shown, head) /\ quit' = ~keep
                  ELSE shown' = shown /\ quit' = quit
  BY DEF Stream!Consume
<1>. HIDE DEF seen
<1>5. Stream!Whole(seen \o (pending \o chunk)) = Len(seen) + Stream!Whole(pending \o chunk)
  <2>1. Stream!Utf8Prefix(seen \o (pending \o chunk))
    BY <1>3
  <2>2. Len(seen) = Stream!Whole(seen \o pending)
    BY <1>1
  <2>. QED  BY <1>1, <2>1, <2>2, Passing
<1>6. Stream!Whole(s \o chunk) = Len(seen) + w
  BY <1>3, <1>5
<1>. HIDE DEF all
<1>7. w \in 0..Len(all)
  BY <1>2, WholeFits
<1>. HIDE DEF w
<1>8. /\ head \in Bytes /\ Len(head) = w /\ rest \in Bytes /\ head \o rest = all
      /\ Len(seen) \in Nat /\ Len(shown) \in Nat
  <2>1. head \in Bytes /\ Len(head) = w
    BY <1>2, <1>7, FirstIs DEF Bytes
  <2>2. rest \in Bytes
    <3>1. w + 1 \in 1..(Len(all) + 1) /\ Len(all) \in ((w + 1) - 1)..Len(all)
      BY <1>2, <1>7
    <3>. QED  BY <1>2, <3>1, PartIs DEF Bytes
  <2>3. head \o rest = all
    <3>1. 1 \in 1..(Len(all) + 1) /\ w \in (1 - 1)..Len(all) /\ Len(all) \in w..Len(all)
      BY <1>2, <1>7
    <3>2. head \o rest = SubSeq(all, 1, Len(all))
      BY <1>2, <3>1, ConcatAdjacentSubSeq DEF Bytes
    <3>. QED  BY <1>2, <3>2, SubSeqFull DEF Bytes
  <2>4. Len(seen) \in Nat /\ Len(shown) \in Nat
    BY <1>1 DEF Bytes
  <2>. QED  BY <2>1, <2>2, <2>3, <2>4
<1>. HIDE DEF head, rest
<1>9. CASE w > 0
  <2>. DEFINE list == Append(shown, head)
  <2>1. shown' = list /\ quit' = ~keep /\ pending' = rest
    BY <1>4, <1>9
  <2>2. /\ list \in Seq(Bytes) /\ Len(list) = Len(shown) + 1
        /\ Stream!FlattenSeq(list) = seen \o head
    BY <1>1, <1>8, StreamedMore DEF seen
  <2>. HIDE DEF list
  <2>3. seen \o head \in Bytes /\ Len(seen \o head) = Len(seen) + w
    <3>1. IsBoth(Stream!Byte, seen \o head, seen, head)
      BY <1>1, <1>8, BothAre DEF Bytes
    <3>. QED  BY <1>8, <3>1 DEF IsBoth, Bytes
  <2>4. (seen \o head) \o rest = s \o chunk
    <3>1. (seen \o head) \o rest = seen \o (head \o rest)
      BY <1>1, <1>8, Regroup, Zenon
    <3>. QED  BY <1>3, <1>8, <3>1
  <2>5. Seen(list, rest, s \o chunk)
    BY <1>6, <1>8, <2>2, <2>3, <2>4 DEF Seen
  <2>6. Seen(shown', pending', s \o chunk)
    BY <2>1, <2>5
  <2>7. Len(shown') = Len(shown) + 1
    BY <2>1, <2>2
  <2>. QED  BY <1>8, <2>1, <2>6, <2>7
<1>10. CASE ~(w > 0)
  <2>1. w = 0
    BY <1>2, <1>7, <1>10
  <2>2. shown' = shown /\ quit' = quit /\ pending' = rest
    BY <1>4, <1>10
  <2>3. rest = all
    <3>1. rest = SubSeq(all, 1, Len(all))
      BY <2>1 DEF rest
    <3>. QED  BY <1>2, <3>1, SubSeqFull DEF Bytes
  <2>4. Seen(shown, rest, s \o chunk)
    BY <1>1, <1>2, <1>3, <1>6, <1>8, <2>1, <2>3 DEF Seen, seen
  <2>. QED  BY <1>8, <2>2, <2>4
<1>. QED  BY <1>9, <1>10

(* Two beginnings of the same text agree as far as both go.                *)
LEMMA SameFirst ==
  ASSUME NEW a, NEW b, NEW c \in Bytes, Begins(Stream!Byte, a, c), Begins(Stream!Byte, b, c),
         NEW n \in 0..Len(a), n \in 0..Len(b)
  PROVE  SubSeq(a, 1, n) = SubSeq(b, 1, n)
<1>1. a \in Seq(Stream!Byte) /\ b \in Seq(Stream!Byte) /\ Len(a) \in Nat /\ Len(b) \in Nat
  BY DEF Begins
<1>2. /\ SubSeq(a, 1, n) \in Seq(Stream!Byte) /\ Len(SubSeq(a, 1, n)) = n
      /\ \A i \in 1..n : SubSeq(a, 1, n)[i] = a[i]
  BY <1>1, FirstIs
<1>3. /\ SubSeq(b, 1, n) \in Seq(Stream!Byte) /\ Len(SubSeq(b, 1, n)) = n
      /\ \A i \in 1..n : SubSeq(b, 1, n)[i] = b[i]
  BY <1>1, FirstIs
<1>4. \A i \in 1..n : a[i] = c[i] /\ b[i] = c[i]
  BY <1>1 DEF Begins
<1>. QED  BY <1>2, <1>3, <1>4, SeqEqual

LEMMA StreamedIs ==
  ASSUME NEW list \in Seq(Bytes)
  PROVE  Stream!FlattenSeq(list) \in Bytes
<1>1. <<>> \in Bytes
  BY DEF Bytes
<1>. QED  BY <1>1, StreamedMore

-----------------------------------------------------------------------------
(* The state, part by part.                                                *)

Typed ==
  /\ text \in Bytes /\ pending \in Bytes /\ full \in Bytes /\ raw \in Bytes
  /\ Len(text) \in Nat /\ Len(raw) \in Nat /\ emitted \in Nat /\ emitted <= Len(text)
  /\ quit \in BOOLEAN /\ shown \in Seq(Bytes) /\ refused \in -1..Len(shown)

LEMMA AreTyped ==
  ASSUME Stream!TypeOK
  PROVE  Typed
<1>1. /\ text \in Bytes /\ pending \in Bytes /\ full \in Bytes /\ raw \in Bytes
      /\ emitted \in 0..Len(text)
      /\ quit \in BOOLEAN /\ shown \in Seq(Bytes) /\ refused \in -1..Len(shown)
  BY DEF Stream!TypeOK, Bytes
<1>2. Len(text) \in Nat /\ Len(raw) \in Nat
  BY <1>1 DEF Bytes
<1>. QED  BY <1>1, <1>2 DEF Typed

(* What was said so far.                                                   *)
Sayings ==
  /\ Said \in Bytes /\ Len(Said) = emitted /\ Begins(Stream!Byte, Said, text)
  /\ Begins(Stream!Byte, text, raw) /\ Stream!Utf8Prefix(text) /\ Stream!Utf8Prefix(Said)

LEMMA SayingsAre ==
  ASSUME StreamInv
  PROVE  Sayings /\ Typed
<1>1. Typed
  BY AreTyped DEF StreamInv
<1>2. emitted \in 0..Len(text)
  BY <1>1 DEF Typed
<1>3. Said \in Bytes /\ Len(Said) = emitted /\ Begins(Stream!Byte, Said, text)
  BY <1>1, <1>2, FirstIs, FirstBegins DEF Typed, Said, Bytes
<1>4. Begins(Stream!Byte, text, raw)
  BY <1>1, PrefixIs DEF StreamInv, Spoken, Typed, Bytes
<1>5. Stream!Utf8Prefix(text)
  BY <1>1, <1>4, Utf8First DEF StreamInv, Spoken, Typed
<1>6. Stream!Utf8Prefix(Said)
  BY <1>1, <1>3, <1>5, Utf8First DEF Typed
<1>. QED  BY <1>1, <1>3, <1>4, <1>5, <1>6 DEF Sayings

LEMMA SaidIsSeen ==
  ASSUME StreamInv, streaming # "returned"
  PROVE  Seen(shown, pending, Said)
<1>1. Typed
  BY SayingsAre
<1>2. Stream!FlattenSeq(shown) \in Bytes
  BY <1>1, StreamedIs DEF Typed
<1>3. /\ Stream!FlattenSeq(shown) \o pending = Said
      /\ Len(Stream!FlattenSeq(shown)) = Stream!Whole(Said)
  BY DEF StreamInv, Passed, Stream!Streamed
<1>. QED  BY <1>1, <1>2, <1>3 DEF Typed, Seen

(* What a step that emits up to a place of a text leaves.                  *)
Emits(t, safe) ==
  /\ Seen(shown', pending', SubSeq(t, 1, safe)) /\ emitted' = safe /\ quit' \in BOOLEAN
  /\ text' = IF quit' THEN SubSeq(t, 1, safe) ELSE t
  /\ refused' \in -1..Len(shown')

LEMMA Emitted ==
  ASSUME StreamInv, streaming # "returned", quit = FALSE,
         NEW t \in Bytes, Stream!Utf8Prefix(t), SubSeq(t, 1, emitted) = Said,
         NEW final \in BOOLEAN, NEW keep \in BOOLEAN,
         NEW safe, safe = IF final THEN Len(t) ELSE Len(t) - Stream!PendingStop(t),
         safe \in emitted..Len(t), Stream!Emit(t, final, keep)
  PROVE  Emits(t, safe)
<1>1. Typed /\ Sayings /\ Seen(shown, pending, Said)
  BY SayingsAre, SaidIsSeen
<1>2. emitted \in Nat /\ Len(t) \in Nat /\ safe \in 0..Len(t) /\ t \in Seq(Stream!Byte)
  BY <1>1 DEF Typed, Bytes
<1>3. /\ IF safe > emitted
           THEN /\ Stream!Consume(SubSeq(t, emitted + 1, safe), keep)
                /\ emitted' = safe
           ELSE emitted' = emitted /\ pending' = pending /\ quit' = quit /\ shown' = shown
      /\ text' = IF quit' THEN SubSeq(t, 1, emitted') ELSE t
      /\ refused' = IF quit' THEN Len(shown') ELSE refused
  BY DEF Stream!Emit
<1>. DEFINE new == SubSeq(t, 1, safe)
<1>4. /\ Seen(shown', pending', new) /\ emitted' = safe /\ quit' \in BOOLEAN
      /\ Len(shown) \in Nat /\ Len(shown') \in Nat /\ Len(shown) <= Len(shown')
  <2>1. CASE safe > emitted
    <3>. DEFINE chunk == SubSeq(t, emitted + 1, safe)
    <3>1. Stream!Consume(chunk, keep) /\ emitted' = safe
      BY <1>3, <2>1
    <3>2. chunk \in Bytes
      <4>1. emitted + 1 \in 1..(Len(t) + 1) /\ safe \in ((emitted + 1) - 1)..Len(t)
        BY <1>2, <2>1
      <4>. QED  BY <1>2, <4>1, PartIs DEF Bytes
    <3>3. Said \o chunk = new
      <4>1. 1 \in 1..(Len(t) + 1) /\ emitted \in (1 - 1)..Len(t) /\ safe \in emitted..Len(t)
        BY <1>2
      <4>. QED  BY <1>2, <4>1, ConcatAdjacentSubSeq
    <3>4. Stream!Utf8Prefix(new)
      BY <1>2, FirstBegins, Utf8First
    <3>. HIDE DEF chunk, new
    <3>5. Stream!Utf8Prefix(Said \o chunk) /\ quit \in BOOLEAN
      BY <3>3, <3>4
    <3>6. /\ Seen(shown', pending', Said \o chunk) /\ quit' \in BOOLEAN
          /\ Len(shown) \in Nat /\ Len(shown') \in Nat /\ Len(shown) <= Len(shown')
      BY <1>1, <3>1, <3>2, <3>5, Consumed
    <3>. QED  BY <3>1, <3>3, <3>6
  <2>2. CASE ~(safe > emitted)
    <3>1. safe = emitted
      BY <1>2, <2>2
    <3>2. emitted' = safe /\ pending' = pending /\ quit' = quit /\ shown' = shown
      BY <1>3, <2>2, <3>1
    <3>3. new = Said
      BY <3>1
    <3>4. Seen(shown', pending', new)
      BY <1>1, <3>2, <3>3
    <3>5. Len(shown) \in Nat
      BY <1>1 DEF Typed
    <3>6. Len(shown') = Len(shown) /\ Len(shown) <= Len(shown)
      BY <3>2, <3>5
    <3>. QED  BY <3>2, <3>4, <3>5, <3>6
  <2>. QED  BY <2>1, <2>2
<1>5. text' = IF quit' THEN new ELSE t
  BY <1>3, <1>4
<1>6. refused' \in -1..Len(shown')
  <2>1. refused \in -1..Len(shown)
    BY <1>1 DEF Typed
  <2>. QED  BY <1>3, <1>4, <2>1
<1>. QED  BY <1>4, <1>5, <1>6 DEF Emits

(* After such a step the text is what the model said, up to some point,    *)
(* and the emitted text was passed.                                        *)
Stands(t, safe) ==
  /\ Spoken' /\ Passed' /\ emitted' = safe /\ emitted' \in 0..Len(text')
  /\ text' \in Bytes /\ pending' \in Bytes /\ shown' \in Seq(Bytes)
  /\ quit' \in BOOLEAN /\ refused' \in -1..Len(shown')
  /\ quit' => Len(text') = safe
  /\ ~quit' => text' = t

LEMMA Standing ==
  ASSUME NEW t \in Bytes, NEW safe \in 0..Len(t), Emits(t, safe),
         raw' \in Bytes, Stream!Utf8Prefix(raw'), Begins(Stream!Byte, t, raw'),
         Stream!Hits(t) = {}
  PROVE  Stands(t, safe)
<1>. DEFINE new == SubSeq(t, 1, safe)
<1>1. t \in Seq(Stream!Byte) /\ Len(t) \in Nat
  BY DEF Bytes
<1>2. new \in Bytes /\ Len(new) = safe /\ Begins(Stream!Byte, new, t)
  BY <1>1, FirstIs, FirstBegins DEF Bytes
<1>3. /\ Seen(shown', pending', new) /\ emitted' = safe /\ quit' \in BOOLEAN
      /\ text' = IF quit' THEN new ELSE t
      /\ refused' \in -1..Len(shown')
  BY DEF Emits
<1>4. SubSeq(new, 1, Len(new)) = new
  BY <1>2, SubSeqFull DEF Bytes
<1>5. SubSeq(t, 1, safe) = new
  OBVIOUS
<1>. HIDE DEF new
<1>6. /\ text' \in Bytes /\ Begins(Stream!Byte, text', t) /\ Stream!Hits(text') = {}
      /\ emitted' \in 0..Len(text') /\ SubSeq(text', 1, emitted') = new
      /\ (quit' => Len(text') = safe) /\ (~quit' => text' = t)
  <2>1. CASE quit'
    <3>1. Stream!Hits(new) = {}
      BY <1>2, HitsOfFirst
    <3>. QED  BY <1>1, <1>2, <1>3, <1>4, <2>1, <3>1
  <2>2. CASE ~quit'
    <3>1. Begins(Stream!Byte, t, t)
      BY <1>1 DEF Begins
    <3>. QED  BY <1>1, <1>3, <1>5, <2>2, <3>1
  <2>. QED  BY <2>1, <2>2
<1>7. Begins(Stream!Byte, text', raw')
  BY <1>1, <1>6, BeginsBegins DEF Bytes
<1>8. Stream!IsPrefix(text', raw')
  BY <1>6, <1>7, PrefixIs DEF Bytes
<1>9. Spoken'
  BY <1>6, <1>8 DEF Spoken
<1>10. Said' = new
  BY <1>6 DEF Said
<1>11. /\ shown' \in Seq(Bytes) /\ pending' \in Bytes
       /\ Stream!FlattenSeq(shown') \o pending' = new
       /\ Len(Stream!FlattenSeq(shown')) = Stream!Whole(new)
  BY <1>3 DEF Seen
<1>12. Passed'
  BY <1>10, <1>11 DEF Passed, Stream!Streamed
<1>. QED  BY <1>3, <1>6, <1>9, <1>11, <1>12 DEF Stands

-----------------------------------------------------------------------------
(* Each step keeps all of it.                                              *)

LEMMA PiecesAre ==
  ASSUME NEW p \in Pieces
  PROVE  p \in Bytes
BY LlmAssumption DEF Stream!StreamAssumption, Bytes

LEMMA StreamStarts ==
  ASSUME Stream!Init
  PROVE  StreamInv
<1>1. /\ streaming = "running" /\ text = <<>> /\ emitted = 0 /\ generated = 0 /\ raw = <<>>
      /\ pending = <<>> /\ quit = FALSE /\ shown = <<>>
      /\ reason = "none" /\ full = <<>> /\ refused = -1
  BY DEF Stream!Init
<1>2. <<>> \in Bytes /\ Len(<<>>) = 0
  BY DEF Bytes
<1>3. Stream!TypeOK
  <2>1. Budget \in Nat
    BY LlmAssumption DEF Stream!StreamAssumption
  <2>2. generated \in 0..Budget /\ emitted \in 0..Len(text)
    BY <1>1, <2>1
  <2>3. refused \in -1..Len(shown) /\ shown \in Seq(Seq(Stream!Byte))
    <3>1. <<>> \in Seq(Seq(Stream!Byte)) /\ Len(<<>>) = 0 /\ -1 \in -1..0
      OBVIOUS
    <3>. QED  BY <1>1, <3>1
  <2>4. {text, pending, full, raw} \subseteq Seq(Stream!Byte)
    BY <1>1
  <2>. QED  BY <1>1, <2>2, <2>3, <2>4 DEF Stream!TypeOK
<1>4. Stream!Hits(<<>>) = {}
  <2>1. Stream!Hits(<<>>) \subseteq 1..0
    BY <1>2, HitsAre
  <2>. QED  BY <2>1
<1>5. Spoken
  <2>1. Stream!Utf8Prefix(<<>>)
    BY DEF Stream!Utf8Prefix
  <2>2. Begins(Stream!Byte, <<>>, <<>>)
    BY DEF Begins
  <2>3. Stream!IsPrefix(<<>>, <<>>)
    BY <1>2, <2>2, PrefixIs DEF Bytes
  <2>. QED  BY <1>1, <1>4, <2>1, <2>3 DEF Spoken
<1>6. Passed
  <2>1. Stream!Whole(<<>>) = 0
    BY DEF Stream!Whole
  <2>2. Said = <<>>
    BY <1>1 DEF Said
  <2>. QED  BY <1>1, <2>1, <2>2, NothingStreamed DEF Passed, Stream!Streamed
<1>7. GoesOn
  <2>1. Stream!PendingStop(<<>>) \in 0..0
    BY <1>2, PendingIs
  <2>. QED  BY <1>1, <1>2, <2>1 DEF GoesOn
<1>. QED  BY <1>1, <1>3, <1>5, <1>6, <1>7 DEF StreamInv, HasEnded, HandedOver

(* A piece of text.                                                        *)
LEMMA PieceKeeps ==
  ASSUME StreamInv, NEW p \in Pieces, NEW keep \in BOOLEAN, Stream!Piece(p, keep)
  PROVE  StreamInv'
<1>. DEFINE both == text \o p
            t == Stream!Trim(both)
            hit == Stream!Hits(both) # {}
            held == Stream!PendingStop(text)
            safe == IF hit THEN Len(t) ELSE Len(t) - Stream!PendingStop(t)
<1>1. Typed /\ Sayings
  BY SayingsAre
<1>2. /\ streaming = "running" /\ generated < Budget /\ Stream!Utf8Prefix(raw \o p)
      /\ raw' = raw \o p /\ generated' = generated + 1 /\ full' = full
      /\ Stream!Emit(t, hit, keep)
      /\ reason' = CASE quit' -> "user" [] ~quit' /\ hit -> "stop_sequence"
                     [] OTHER -> reason
      /\ streaming' = CASE quit' \/ hit -> "over"
                        [] ~quit' /\ ~hit /\ generated' = Budget -> "capped"
                        [] OTHER -> "running"
  BY DEF Stream!Piece
<1>3. text = raw /\ emitted = Len(text) - held /\ quit = FALSE /\ reason = "none"
  BY <1>1, <1>2 DEF StreamInv, GoesOn, Typed
<1>4. p \in Bytes /\ text \in Bytes /\ Len(text) \in Nat /\ Len(p) \in Nat
  BY <1>1, PiecesAre DEF Typed, Bytes
<1>5. IsBoth(Stream!Byte, both, text, p) /\ raw' = both /\ Stream!Utf8Prefix(both)
  BY <1>2, <1>3, <1>4, BothAre DEF Bytes
<1>6. \A i \in Stream!Hits(both) : i > Len(text) - held
  <2>1. Stream!Hits(text) = {}
    BY DEF StreamInv, Spoken
  <2>. QED  BY <1>4, <2>1, HeldBack
<1>7. Stream!PendingStop(both) <= held + Len(p)
  BY <1>4, PendingGrows
<1>8. held \in 0..Len(text)
  BY <1>4, PendingIs
<1>. HIDE DEF both, held
<1>9. both \in Bytes /\ Len(both) = Len(text) + Len(p) /\ Begins(Stream!Byte, text, both)
  BY <1>4, <1>5 DEF IsBoth, Begins, Bytes
<1>10. /\ Begins(Stream!Byte, t, both) /\ Stream!Hits(t) = {}
       /\ ~hit => t = both
       /\ hit => /\ Stream!Min(Stream!Hits(both)) \in Stream!Hits(both)
                 /\ Len(t) = Stream!Min(Stream!Hits(both)) - 1
  BY <1>9, TrimIs
<1>11. hit => t = SubSeq(both, 1, Stream!Min(Stream!Hits(both)) - 1)
  BY DEF Stream!Trim
<1>. HIDE DEF t
<1>12. t \in Bytes /\ Len(t) \in Nat /\ Stream!Utf8Prefix(t)
  <2>1. t \in Bytes /\ Stream!Utf8Prefix(t)
    BY <1>5, <1>9, <1>10, Utf8First
  <2>. QED  BY <2>1 DEF Bytes
<1>13. safe \in emitted..Len(t) /\ emitted \in Nat
  <2>1. CASE hit
    <3>1. Stream!Min(Stream!Hits(both)) > Len(text) - held
      BY <1>6, <1>10, <2>1
    <3>2. Stream!Min(Stream!Hits(both)) \in Int
      <4>1. Stream!Hits(both) \subseteq 1..Len(both)
        BY <1>9, HitsAre
      <4>. QED  BY <1>10, <2>1, <4>1
    <3>. QED  BY <1>3, <1>4, <1>8, <1>10, <1>12, <2>1, <3>1, <3>2
  <2>2. CASE ~hit
    <3>1. Stream!PendingStop(t) \in 0..Len(t)
      BY <1>12, PendingIs
    <3>2. t = both /\ Stream!PendingStop(t) <= held + Len(p) /\ Len(t) = Len(text) + Len(p)
      BY <1>7, <1>9, <1>10, <2>2
    <3>3. safe = Len(t) - Stream!PendingStop(t)
      BY <2>2
    <3>. HIDE DEF safe
    <3>. QED  BY <1>3, <1>4, <1>8, <1>12, <3>1, <3>2, <3>3
  <2>. QED  BY <2>1, <2>2
<1>14. SubSeq(t, 1, emitted) = Said
  <2>1. emitted \in 0..Len(t) /\ emitted \in 0..Len(text)
    <3>1. emitted <= Len(t)
      <4>. HIDE DEF safe
      <4>. QED  BY <1>12, <1>13
    <3>. QED  BY <1>1, <1>12, <1>13, <3>1 DEF Typed
  <2>2. SubSeq(t, 1, emitted) = SubSeq(text, 1, emitted)
    BY <1>9, <1>10, <2>1, SameFirst
  <2>. QED  BY <2>2 DEF Said
<1>15. Emits(t, safe)
  <2>1. hit \in BOOLEAN /\ streaming # "returned"
    BY <1>2
  <2>. HIDE DEF hit
  <2>2. safe = IF hit THEN Len(t) ELSE Len(t) - Stream!PendingStop(t)
    OBVIOUS
  <2>. HIDE DEF safe
  <2>. QED  BY <1>2, <1>3, <1>12, <1>13, <1>14, <2>1, <2>2, Emitted
<1>16. Stands(t, safe)
  <2>. HIDE DEF hit, safe
  <2>1. safe \in 0..Len(t)
    BY <1>12, <1>13
  <2>2. raw' \in Bytes /\ Stream!Utf8Prefix(raw') /\ Begins(Stream!Byte, t, raw')
    BY <1>5, <1>9, <1>10
  <2>. QED  BY <1>10, <1>12, <1>15, <2>1, <2>2, Standing
<1>. HIDE DEF safe
<1>17. safe \in Nat
  BY <1>12, <1>13
<1>18. quit' \in BOOLEAN
  BY <1>16 DEF Stands
<1>19. /\ streaming' \in {"running", "capped", "over"}
       /\ reason' \in {"none", "stop_sequence", "user"}
       /\ streaming' = "over" <=> (quit' \/ hit)
       /\ quit' => reason' = "user"
       /\ ~quit' /\ hit => reason' = "stop_sequence"
       /\ ~quit' /\ ~hit => reason' = "none"
  <2>. HIDE DEF hit
  <2>. QED  BY <1>2, <1>3
<1>20. Stream!TypeOK'
  <2>1. generated' \in 0..Budget
    <3>1. generated \in 0..Budget /\ Budget \in Nat
      BY LlmAssumption DEF StreamInv, Stream!TypeOK, Stream!StreamAssumption
    <3>. QED  BY <1>2, <3>1
  <2>2. /\ text' \in Bytes /\ pending' \in Bytes /\ full' \in Bytes /\ raw' \in Bytes
        /\ shown' \in Seq(Bytes)
    BY <1>1, <1>2, <1>5, <1>9, <1>16 DEF Stands, Typed
  <2>3. emitted' \in 0..Len(text') /\ refused' \in -1..Len(shown')
    BY <1>16 DEF Stands
  <2>. QED  BY <1>18, <1>19, <2>1, <2>2, <2>3 DEF Stream!TypeOK, Bytes
<1>21. GoesOn'
  <2>. SUFFICES ASSUME streaming' \in {"running", "capped"}
                PROVE  /\ text' = raw' /\ emitted' = Len(text') - Stream!PendingStop(text')
                       /\ ~quit' /\ reason' = "none"
    BY DEF GoesOn
  <2>1. ~quit' /\ ~hit
    BY <1>19
  <2>2. text' = t /\ t = both /\ emitted' = safe
    BY <1>10, <1>16, <2>1 DEF Stands
  <2>3. safe = Len(t) - Stream!PendingStop(t)
    BY <2>1 DEF safe
  <2>. QED  BY <1>5, <1>19, <2>1, <2>2, <2>3
<1>22. HasEnded'
  <2>. SUFFICES ASSUME streaming' = "over"
                PROVE  /\ emitted' = Len(text')
                       /\ quit' => reason' = "user"
                       /\ reason' = "stop_sequence" =>
                            /\ Stream!Hits(raw') # {}
                            /\ text' = SubSeq(raw', 1, Stream!Min(Stream!Hits(raw')) - 1)
                       /\ reason' \in {"length", "eos", "context_length"} => text' = raw'
    BY <1>19 DEF HasEnded
  <2>1. CASE quit'
    BY <1>16, <1>19, <2>1 DEF Stands
  <2>2. CASE ~quit'
    <3>1. hit /\ reason' = "stop_sequence"
      BY <1>19, <2>2
    <3>2. text' = t /\ emitted' = safe /\ safe = Len(t)
      BY <1>16, <2>2, <3>1 DEF Stands, safe
    <3>. QED  BY <1>5, <1>11, <2>2, <3>1, <3>2
  <2>. QED  BY <2>1, <2>2
<1>. QED  BY <1>16, <1>19, <1>20, <1>21, <1>22 DEF StreamInv, HandedOver, Stands

(* The end of a generation that was not cut.                               *)
LEMMA FlushKeeps ==
  ASSUME StreamInv, streaming \in {"running", "capped"}, NEW keep \in BOOLEAN,
         NEW why \in {"length", "eos", "context_length"}, Stream!Flush(why, keep)
  PROVE  StreamInv'
<1>. DEFINE safe == Len(text)
<1>1. Typed /\ Sayings
  BY SayingsAre
<1>2. /\ Stream!Emit(text, TRUE, keep)
      /\ reason' = IF quit' THEN "user" ELSE why
      /\ streaming' = "over" /\ generated' = generated /\ full' = full /\ raw' = raw
  BY DEF Stream!Flush
<1>3. text = raw /\ quit = FALSE
  BY <1>1 DEF StreamInv, GoesOn, Typed
<1>4. text \in Bytes /\ safe \in Nat /\ safe \in emitted..Len(text) /\ safe \in 0..Len(text)
  BY <1>1 DEF Typed
<1>5. Emits(text, safe)
  <2>1. SubSeq(text, 1, emitted) = Said /\ streaming # "returned"
    BY DEF Said
  <2>2. safe = IF TRUE THEN Len(text) ELSE Len(text) - Stream!PendingStop(text)
    OBVIOUS
  <2>3. Stream!Utf8Prefix(text)
    BY <1>1 DEF Sayings
  <2>. HIDE DEF safe
  <2>. QED  BY <1>2, <1>3, <1>4, <2>1, <2>2, <2>3, Emitted
<1>6. Stands(text, safe)
  <2>1. raw' \in Bytes /\ Stream!Utf8Prefix(raw') /\ Begins(Stream!Byte, text, raw')
    BY <1>1, <1>2 DEF Typed, Sayings, StreamInv, Spoken
  <2>2. Stream!Hits(text) = {}
    BY DEF StreamInv, Spoken
  <2>. HIDE DEF safe
  <2>. QED  BY <1>4, <1>5, <2>1, <2>2, Standing
<1>7. quit' \in BOOLEAN
  BY <1>6 DEF Stands
<1>8. emitted' = Len(text') /\ text' = text
  <2>1. SubSeq(text, 1, Len(text)) = text
    BY <1>4, SubSeqFull DEF Bytes
  <2>2. text' = text
    BY <1>5, <2>1 DEF Emits
  <2>. QED  BY <1>6, <2>2 DEF Stands
<1>9. Stream!TypeOK'
  <2>1. generated' \in 0..Budget
    BY <1>2 DEF StreamInv, Stream!TypeOK
  <2>2. /\ text' \in Bytes /\ pending' \in Bytes /\ full' \in Bytes /\ raw' \in Bytes
        /\ shown' \in Seq(Bytes)
    BY <1>1, <1>2, <1>6 DEF Stands, Typed
  <2>3. emitted' \in 0..Len(text') /\ refused' \in -1..Len(shown')
    BY <1>6 DEF Stands
  <2>4. reason' \in {"user", "length", "eos", "context_length"}
    BY <1>2
  <2>. QED  BY <1>2, <1>7, <2>1, <2>2, <2>3, <2>4 DEF Stream!TypeOK, Bytes
<1>10. HasEnded'
  <2>1. /\ emitted' = Len(text')
        /\ quit' => reason' = "user"
        /\ reason' # "stop_sequence"
        /\ text' = raw'
    BY <1>2, <1>3, <1>8
  <2>. QED  BY <2>1 DEF HasEnded
<1>. QED  BY <1>2, <1>6, <1>9, <1>10 DEF StreamInv, GoesOn, HandedOver, Stands


(* on_logprob stops it.                                                    *)
LEMMA LogprobKeeps ==
  ASSUME StreamInv, Stream!LogprobStops
  PROVE  StreamInv'
<1>1. Typed /\ Sayings
  BY SayingsAre
<1>2. /\ streaming = "running" /\ text' = Said /\ reason' = "user" /\ streaming' = "over"
      /\ refused' = Len(shown)
      /\ emitted' = emitted /\ pending' = pending /\ quit' = quit /\ shown' = shown
      /\ generated' = generated /\ full' = full /\ raw' = raw
  BY DEF Stream!LogprobStops, Said
<1>3. Said' = Said
  <2>1. SubSeq(Said, 1, Len(Said)) = Said
    BY <1>1, SubSeqFull DEF Sayings, Bytes
  <2>2. Said' = SubSeq(Said, 1, emitted)
    BY <1>2 DEF Said
  <2>. QED  BY <1>1, <2>1, <2>2 DEF Sayings
<1>4. Spoken'
  <2>1. Begins(Stream!Byte, Said, raw)
    BY <1>1, BeginsBegins DEF Sayings, Typed, Bytes
  <2>2. Stream!IsPrefix(Said, raw)
    BY <1>1, <2>1, PrefixIs DEF Sayings, Typed, Bytes
  <2>3. Stream!Hits(Said) = {}
    BY <1>1, HitsOfFirst DEF Sayings, Typed, StreamInv, Spoken
  <2>4. Stream!Utf8Prefix(raw)
    BY DEF StreamInv, Spoken
  <2>. QED  BY <1>2, <2>2, <2>3, <2>4 DEF Spoken
<1>5. Passed'
  <2>1. Passed /\ streaming # "returned"
    BY <1>2 DEF StreamInv
  <2>2. Stream!Streamed' = Stream!Streamed
    BY <1>2 DEF Stream!Streamed
  <2>. QED  BY <1>2, <1>3, <2>1, <2>2 DEF Passed
<1>6. emitted' = Len(text')
  BY <1>1, <1>2 DEF Sayings
<1>7. Stream!TypeOK'
  <2>1. Stream!TypeOK
    BY DEF StreamInv
  <2>2. emitted' \in 0..Len(text')
    BY <1>1, <1>2, <1>6 DEF Typed
  <2>3. refused' \in -1..Len(shown')
    <3>1. Len(shown) \in Nat
      BY <1>1 DEF Typed
    <3>. QED  BY <1>2, <3>1
  <2>4. text' \in Seq(Stream!Byte)
    BY <1>1, <1>2 DEF Sayings, Bytes
  <2>. QED  BY <1>2, <2>1, <2>2, <2>3, <2>4 DEF Stream!TypeOK
<1>. QED  BY <1>2, <1>4, <1>5, <1>6, <1>7 DEF StreamInv, GoesOn, HasEnded, HandedOver

LEMMA DecodeFailsKeeps ==
  ASSUME StreamInv, Stream!DecodeFails
  PROVE  StreamInv'
<1>1. /\ streaming = "running" /\ streaming' = "failed"
      /\ text' = text /\ emitted' = emitted /\ pending' = pending /\ quit' = quit
      /\ shown' = shown /\ generated' = generated /\ reason' = reason /\ full' = full
      /\ raw' = raw /\ refused' = refused
  BY DEF Stream!DecodeFails
<1>2. Stream!TypeOK'
  BY <1>1 DEF StreamInv, Stream!TypeOK
<1>3. Spoken'
  BY <1>1 DEF StreamInv, Spoken
<1>4. Passed'
  <2>1. Said' = Said /\ Stream!Streamed' = Stream!Streamed
    BY <1>1 DEF Said, Stream!Streamed
  <2>. QED  BY <1>1, <2>1 DEF StreamInv, Passed
<1>. QED  BY <1>1, <1>2, <1>3, <1>4 DEF StreamInv, GoesOn, HasEnded, HandedOver

(* The reply is handed over.                                               *)
LEMMA ReturnKeeps ==
  ASSUME StreamInv, Stream!Return
  PROVE  StreamInv'
<1>. DEFINE seen == Stream!FlattenSeq(shown)
<1>1. Typed /\ Sayings
  BY SayingsAre
<1>2. /\ streaming = "over" /\ streaming' = "returned" /\ full' = Stream!FullText(text)
      /\ IF pending # <<>> /\ ~quit
           THEN shown' = Append(shown, pending) /\ pending' = <<>>
           ELSE shown' = shown /\ pending' = pending
      /\ text' = text /\ emitted' = emitted /\ quit' = quit /\ generated' = generated
      /\ reason' = reason /\ raw' = raw /\ refused' = refused
  BY DEF Stream!Return
<1>3. emitted = Len(text) /\ Said = text /\ Said' = text
  <2>1. emitted = Len(text)
    BY <1>2 DEF StreamInv, HasEnded
  <2>2. SubSeq(text, 1, Len(text)) = text
    BY <1>1, SubSeqFull DEF Typed, Bytes
  <2>3. Said' = Said
    BY <1>2 DEF Said
  <2>. QED  BY <2>1, <2>2, <2>3 DEF Said
<1>4. /\ shown \in Seq(Bytes) /\ pending \in Bytes /\ seen \in Bytes
      /\ seen \o pending = text /\ Len(seen) = Stream!Whole(text)
  BY <1>2, <1>3, SaidIsSeen DEF Seen
<1>. HIDE DEF seen
<1>5. /\ shown' \in Seq(Bytes) /\ Len(shown) \in Nat /\ Len(shown') \in Nat
      /\ Len(shown) <= Len(shown') /\ pending' \in Bytes
      /\ Stream!FlattenSeq(shown') \o pending' = text
      /\ IF quit THEN Len(Stream!FlattenSeq(shown')) = Stream!Whole(text) ELSE pending' = <<>>
  <2>1. CASE pending # <<>> /\ ~quit
    <3>. DEFINE list == Append(shown, pending)
    <3>1. /\ list \in Seq(Bytes) /\ Len(list) = Len(shown) + 1
          /\ Stream!FlattenSeq(list) = seen \o pending
      BY <1>4, StreamedMore DEF seen
    <3>2. shown' = list /\ pending' = <<>>
      BY <1>2, <2>1
    <3>3. Len(shown) \in Nat /\ <<>> \in Bytes /\ text \o <<>> = text
      BY <1>1, <1>4 DEF Typed, Bytes
    <3>. HIDE DEF list
    <3>. QED  BY <1>4, <2>1, <3>1, <3>2, <3>3
  <2>2. CASE ~(pending # <<>> /\ ~quit)
    <3>1. shown' = shown /\ pending' = pending
      BY <1>2, <2>2
    <3>2. Len(shown) \in Nat
      BY <1>4
    <3>3. /\ Stream!FlattenSeq(shown') = seen /\ Len(shown') = Len(shown)
          /\ Len(shown) <= Len(shown)
      BY <3>1, <3>2 DEF seen
    <3>. QED  BY <1>4, <2>2, <3>1, <3>2, <3>3
  <2>. QED  BY <2>1, <2>2
<1>6. full' \in Bytes
  <2>1. Stream!Whole(text) \in 0..Len(text)
    BY <1>1, WholeFits DEF Typed
  <2>2. SubSeq(text, 1, Stream!Whole(text)) \in Bytes
    BY <1>1, <2>1, FirstIs DEF Typed, Bytes
  <2>. QED  BY <1>2, <2>2 DEF Stream!FullText
<1>7. Stream!TypeOK'
  <2>1. Stream!TypeOK
    BY DEF StreamInv
  <2>2. refused' \in -1..Len(shown')
    <3>1. refused \in -1..Len(shown)
      BY <1>1 DEF Typed
    <3>. QED  BY <1>2, <1>5, <3>1
  <2>3. {text', pending', full', raw'} \subseteq Seq(Stream!Byte)
    BY <1>1, <1>2, <1>5, <1>6 DEF Typed, Bytes
  <2>4. shown' \in Seq(Seq(Stream!Byte))
    BY <1>5 DEF Bytes
  <2>5. emitted' \in 0..Len(text')
    BY <1>2, <2>1 DEF Stream!TypeOK
  <2>. QED  BY <1>2, <2>1, <2>2, <2>3, <2>4, <2>5 DEF Stream!TypeOK
<1>8. Spoken'
  BY <1>2 DEF StreamInv, Spoken
<1>9. Passed'
  BY <1>2, <1>3, <1>5 DEF Passed, Stream!Streamed
<1>10. HasEnded'
  BY <1>2 DEF StreamInv, HasEnded
<1>11. HandedOver'
  BY <1>2, <1>5 DEF HandedOver, Stream!Streamed
<1>. QED  BY <1>2, <1>7, <1>8, <1>9, <1>10, <1>11 DEF StreamInv, GoesOn

LEMMA NoStepKeeps ==
  ASSUME StreamInv, UNCHANGED Stream!vars
  PROVE  StreamInv'
<1>1. /\ streaming' = streaming /\ text' = text /\ emitted' = emitted /\ pending' = pending
      /\ quit' = quit /\ shown' = shown /\ generated' = generated /\ reason' = reason
      /\ full' = full /\ raw' = raw /\ refused' = refused
  BY DEF Stream!vars
<1>2. Stream!TypeOK'
  BY <1>1 DEF StreamInv, Stream!TypeOK
<1>3. Spoken' /\ GoesOn' /\ HasEnded'
  BY <1>1 DEF StreamInv, Spoken, GoesOn, HasEnded
<1>4. Said' = Said /\ Stream!Streamed' = Stream!Streamed
  BY <1>1 DEF Said, Stream!Streamed
<1>5. Passed' /\ HandedOver'
  BY <1>1, <1>4 DEF StreamInv, Passed, HandedOver
<1>. QED  BY <1>2, <1>3, <1>5 DEF StreamInv

LEMMA StreamKeeps ==
  ASSUME StreamInv, [Stream!Next]_(Stream!vars)
  PROVE  StreamInv'
<1>1. ASSUME NEW keep \in BOOLEAN, NEW p \in Pieces, Stream!Piece(p, keep) PROVE StreamInv'
  BY <1>1, PieceKeeps
<1>2. ASSUME NEW keep \in BOOLEAN, Stream!Capped(keep) PROVE StreamInv'
  <2>1. streaming \in {"running", "capped"} /\ Stream!Flush("length", keep)
    BY <1>2 DEF Stream!Capped
  <2>. QED  BY <2>1, FlushKeeps
<1>3. ASSUME NEW keep \in BOOLEAN, Stream!Eos(keep) PROVE StreamInv'
  <2>1. streaming \in {"running", "capped"} /\ Stream!Flush("eos", keep)
    BY <1>3 DEF Stream!Eos
  <2>. QED  BY <2>1, FlushKeeps
<1>4. ASSUME NEW keep \in BOOLEAN, Stream!ContextFull(keep) PROVE StreamInv'
  <2>1. streaming \in {"running", "capped"} /\ Stream!Flush("context_length", keep)
    BY <1>4 DEF Stream!ContextFull
  <2>. QED  BY <2>1, FlushKeeps
<1>5. CASE Stream!LogprobStops
  BY <1>5, LogprobKeeps
<1>6. CASE Stream!DecodeFails
  BY <1>6, DecodeFailsKeeps
<1>7. CASE Stream!Return
  BY <1>7, ReturnKeeps
<1>8. CASE UNCHANGED Stream!vars
  BY <1>8, NoStepKeeps
<1>. QED  BY <1>1, <1>2, <1>3, <1>4, <1>5, <1>6, <1>7, <1>8 DEF Stream!Next

-----------------------------------------------------------------------------
(* What it means for the caller.                                           *)

LEMMA NothingLeaks ==
  ASSUME StreamInv
  PROVE  StopsNeverLeak
<1>1. Stream!TypeOK
  BY DEF StreamInv
<1>2. Typed /\ Sayings
  BY SayingsAre
<1>3. Stream!Streamed \o pending = Said
  BY DEF StreamInv, Passed
<1>4. Stream!Hits(Said) = {}
  BY <1>2, HitsOfFirst DEF Sayings, Typed, StreamInv, Spoken
<1>5. Stream!StopsNeverLeak
  BY <1>3, <1>4 DEF Said, Stream!StopsNeverLeak
<1>. QED  BY <1>1, <1>5 DEF StopsNeverLeak

(* A stop is text: it does not start inside a character.                   *)
StopsAreText == \A stop \in Stops : Head(stop) # Cont

(* So the text before the first stop is whole.                             *)
LEMMA CutIsWhole ==
  ASSUME StopsAreText, NEW s \in Bytes, Stream!Utf8Prefix(s), Stream!Hits(s) # {}
  PROVE  Stream!Whole(SubSeq(s, 1, Stream!Min(Stream!Hits(s)) - 1)) = Stream!Min(Stream!Hits(s)) - 1
<1>. DEFINE m == Stream!Min(Stream!Hits(s))
<1>1. m \in Stream!Hits(s)
  BY TrimIs
<1>. HIDE DEF m
<1>2. m \in 1..Len(s) /\ Len(s) \in Nat
  BY <1>1, HitsAre DEF Bytes
<1>3. PICK stop \in Stops : Occurs(stop, s, m)
  BY <1>1, <1>2, HitsAre
<1>4. s[m] # Cont
  <2>1. stop \in Bytes /\ Len(stop) \in Nat \ {0}
    BY StopsAre
  <2>2. s[m + 1 - 1] = stop[1]
    BY <1>3, <2>1 DEF Occurs
  <2>3. m + 1 - 1 = m
    BY <1>2
  <2>4. Head(stop) = stop[1]
    BY <2>1 DEF Bytes
  <2>. QED  BY <2>2, <2>3, <2>4 DEF StopsAreText
<1>5. Stream!Whole(SubSeq(s, 1, m - 1)) = m - 1
  BY <1>2, <1>4, WholeBeforeLead
<1>. QED  BY <1>5 DEF m

LEMMA TextAgrees ==
  ASSUME StopsAreText, StreamInv
  PROVE  StreamAgreesWithText
<1>. SUFFICES ASSUME streaming = "returned" PROVE StreamAgreesWithText
  BY DEF StreamAgreesWithText, Stream!StopCutsOutput, Stream!StreamAgreesWithText
<1>. DEFINE w == Stream!Whole(text)
<1>1. Typed /\ Sayings
  BY SayingsAre
<1>2. text \in Bytes /\ text \in Seq(Stream!Byte) /\ raw \in Bytes /\ raw \in Seq(Stream!Byte)
  BY <1>1 DEF Typed, Bytes
<1>3. w \in 0..Len(text)
  BY <1>2, WholeFits
<1>4. full = SubSeq(text, 1, w)
  BY DEF StreamInv, HandedOver, Stream!FullText
<1>5. Stream!Whole(full) = w
  BY <1>1, <1>2, <1>4, WholeAgain DEF Sayings
<1>6. Stream!Whole(SubSeq(text, w + 1, Len(text))) = 0
  BY <1>2, RestIsTorn
<1>. HIDE DEF w
<1>7. full \in Seq(Stream!Byte) /\ Len(full) = w /\ Begins(Stream!Byte, full, text)
  BY <1>2, <1>3, <1>4, FirstIs, FirstBegins
<1>8. Begins(Stream!Byte, full, raw)
  BY <1>1, <1>2, <1>7, BeginsBegins DEF Sayings
<1>9. Stream!IsPrefix(full, raw) /\ Stream!IsPrefix(full, text)
  BY <1>2, <1>7, <1>8, PrefixIs
<1>10. Stream!Utf8Prefix(full) /\ Stream!Hits(full) = {}
  <2>1. Stream!Utf8Prefix(full)
    BY <1>1, <1>2, <1>7, Utf8First DEF Sayings
  <2>2. Stream!Hits(full) = {}
    BY <1>2, <1>7, HitsOfFirst DEF StreamInv, Spoken
  <2>. QED  BY <2>1, <2>2
<1>11. /\ emitted = Len(text) /\ (quit => reason = "user")
       /\ reason = "stop_sequence" =>
            Stream!Hits(raw) # {} /\ text = SubSeq(raw, 1, Stream!Min(Stream!Hits(raw)) - 1)
       /\ reason \in {"length", "eos", "context_length"} => text = raw
  BY DEF StreamInv, HasEnded
<1>12. ASSUME reason = "stop_sequence" PROVE full = text
  <2>. DEFINE m == Stream!Min(Stream!Hits(raw))
  <2>1. Stream!Hits(raw) # {} /\ text = SubSeq(raw, 1, m - 1)
    BY <1>11, <1>12
  <2>2. Stream!Whole(SubSeq(raw, 1, m - 1)) = m - 1
    BY <1>2, <2>1, CutIsWhole DEF StreamInv, Spoken
  <2>3. m \in 1..Len(raw) /\ Len(raw) \in Nat
    <3>1. m \in Stream!Hits(raw)
      BY <1>2, <2>1, TrimIs
    <3>. HIDE DEF m
    <3>. QED  BY <1>2, <3>1, HitsAre
  <2>. HIDE DEF m
  <2>4. m - 1 \in 0..Len(raw)
    BY <2>3
  <2>5. Len(text) = m - 1
    BY <1>2, <2>1, <2>4, FirstIs
  <2>6. w = Len(text)
    BY <2>1, <2>2, <2>5 DEF w
  <2>. QED  BY <1>2, <1>4, <2>6, SubSeqFull
<1>13. Stream!StopCutsOutput
  <2>1. reason = "stop_sequence" =>
          Stream!Hits(raw) # {} /\ full = SubSeq(raw, 1, Stream!Min(Stream!Hits(raw)) - 1)
    BY <1>11, <1>12
  <2>2. ASSUME reason \in {"length", "eos", "context_length"}
        PROVE  Stream!Hits(raw) = {} /\ full = Stream!FullText(raw)
    <3>1. text = raw
      BY <1>11, <2>2
    <3>2. Stream!Hits(text) = {} /\ full = Stream!FullText(text)
      BY DEF StreamInv, Spoken, HandedOver
    <3>. QED  BY <3>1, <3>2
  <2>. QED  BY <1>9, <1>10, <2>1, <2>2 DEF Stream!StopCutsOutput
<1>14. Stream!Streamed \in Bytes /\ Stream!Streamed \o pending = text
  <2>1. Stream!Streamed \in Bytes
    BY <1>1, StreamedIs DEF Typed, Stream!Streamed
  <2>2. SubSeq(text, 1, Len(text)) = text
    BY <1>2, SubSeqFull
  <2>3. Said = text
    BY <1>11, <2>2 DEF Said
  <2>. QED  BY <2>1, <2>3 DEF StreamInv, Passed
<1>15. CASE quit
  <2>1. Len(Stream!Streamed) = w
    BY <1>15 DEF StreamInv, HandedOver, w
  <2>2. IsBoth(Stream!Byte, text, Stream!Streamed, pending)
    BY <1>1, <1>14, BothAre DEF Typed, Bytes
  <2>3. Begins(Stream!Byte, Stream!Streamed, text)
    <3>1. Len(pending) \in Nat /\ Stream!Streamed \in Seq(Stream!Byte)
      BY <1>1, <1>14 DEF Typed, Bytes
    <3>2. Len(Stream!Streamed) \in Nat
      BY <3>1
    <3>. QED  BY <2>2, <3>1, <3>2 DEF IsBoth, Begins
  <2>4. Stream!Streamed = full
    BY <1>2, <1>4, <2>1, <2>3, BeginsIs
  <2>5. Stream!IsPrefix(full, full)
    <3>1. Begins(Stream!Byte, full, full)
      BY <1>3, <1>7 DEF Begins
    <3>. QED  BY <1>7, <3>1, PrefixIs
  <2>6. Stream!Utf8(full)
    BY <1>5, <1>7, <1>10 DEF Stream!Utf8
  <2>7. Stream!StreamAgreesWithText
    BY <2>4, <2>5, <2>6 DEF Stream!StreamAgreesWithText
  <2>. QED  BY <1>13, <2>7 DEF StreamAgreesWithText
<1>16. CASE ~quit
  <2>1. pending = <<>>
    BY <1>16 DEF StreamInv, HandedOver
  <2>2. Stream!Streamed = text
    <3>1. Stream!Streamed \o <<>> = Stream!Streamed
      BY <1>14 DEF Bytes
    <3>. QED  BY <1>14, <2>1, <3>1
  <2>3. Stream!Utf8(full)
    BY <1>5, <1>7, <1>10 DEF Stream!Utf8
  <2>4. Stream!Whole(SubSeq(Stream!Streamed, Len(full) + 1, Len(Stream!Streamed))) = 0
    BY <1>6, <1>7, <2>2
  <2>5. reason = "stop_sequence" \/ quit => Stream!Streamed = full
    BY <1>12, <1>16, <2>2
  <2>6. Stream!StreamAgreesWithText
    BY <1>9, <2>2, <2>3, <2>4, <2>5 DEF Stream!StreamAgreesWithText
  <2>. QED  BY <1>13, <2>6 DEF StreamAgreesWithText
<1>17. quit \in BOOLEAN
  BY <1>1 DEF Typed
<1>. QED  BY <1>15, <1>16, <1>17

(* No byte of a stop sequence is ever shown, however the pieces cut it,    *)
(* and what was shown and what the joiner holds is what was emitted:       *)
(* StopStreamState (generation_state.h) and StreamJoiner (utils.cpp).      *)
THEOREM StopsAreNeverShown == Stream!Spec => []StopsNeverLeak
<1>1. Stream!Init => StreamInv
  BY StreamStarts
<1>2. StreamInv /\ [Stream!Next]_(Stream!vars) => StreamInv'
  BY StreamKeeps
<1>3. StreamInv => StopsNeverLeak
  BY NothingLeaks
<1>. QED  BY <1>1, <1>2, <1>3, PTL DEF Stream!Spec

(* Where no stop starts inside a character, the text that is returned is   *)
(* all the model said up to the first stop, well-formed, and the stream    *)
(* agrees with it: generate() (llm.cpp) and finish() (utils.cpp).          *)
THEOREM StreamIsTheText == StopsAreText => (Stream!Spec => []StreamAgreesWithText)
<1>. SUFFICES ASSUME StopsAreText PROVE Stream!Spec => []StreamAgreesWithText
  OBVIOUS
<1>1. Stream!Init => StreamInv
  BY StreamStarts
<1>2. StreamInv /\ [Stream!Next]_(Stream!vars) => StreamInv'
  BY StreamKeeps
<1>3. StreamInv => StreamAgreesWithText
  BY TextAgrees
<1>. QED  BY <1>1, <1>2, <1>3, PTL DEF Stream!Spec

=============================================================================

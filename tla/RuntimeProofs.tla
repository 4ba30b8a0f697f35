--------------------------- MODULE RuntimeProofs ---------------------------
(***************************************************************************)
(* Theorems about the runtime package: EventBus, the global registry       *)
(* (Coordinator) and RuntimeContext, for any threads and any bounds.       *)
(***************************************************************************)
EXTENDS EventBus, Coordinator, RuntimeContext, FiniteSetTheorems, SequenceTheorems, TLAPS

-----------------------------------------------------------------------------
(* EventBus *)

\* An emission calls nothing that was spent when it began.
EmissionInv(m) ==
  /\ phase[m] = "new" => todo[m] = {} /\ inside[m] = {} /\ called[m] = {}
  /\ todo[m] \subseteq made
  /\ inside[m] \subseteq made \cap OnceSub
  /\ inside[m] \cap subs = {}
  /\ spent[m] \subseteq OnceSub
  /\ spent[m] \cap (todo[m] \cup inside[m] \cup called[m]) = {}

\* A subscription of once() that has been unwrapped is no longer subscribed, so
\* an emission that begins afterwards copies nothing that was called before.
BusInv ==
  /\ BusTypeOK
  /\ begun \subseteq made
  /\ begun \cap subs = {}
  /\ \A m \in Emission : EmissionInv(m)

LEMMA BusInitInv == BusInit => BusInv
BY EventBusAssumption DEF BusInit, BusInv, BusTypeOK, EmissionInv, EventBusAssumption

LEMMA BusStepInv == BusInv /\ [BusNext]_busVars => BusInv'
<1> SUFFICES ASSUME BusInv, [BusNext]_busVars PROVE BusInv'
  OBVIOUS
<1> USE EventBusAssumption DEF EventBusAssumption, BusInv, BusTypeOK, EmissionInv
<1>1. CASE Clear
  BY <1>1 DEF Clear
<1>2. ASSUME NEW s \in Sub, On(s) PROVE BusInv'
  BY <1>2 DEF On
<1>3. ASSUME NEW s \in Sub, Off(s) PROVE BusInv'
  BY <1>3 DEF Off
<1>4. ASSUME NEW star \in BOOLEAN, OffAll(star) PROVE BusInv'
  BY <1>4 DEF OffAll
<1>5. ASSUME NEW m \in Emission, Emit(m) PROVE BusInv'
  BY <1>5 DEF Emit
<1>6. ASSUME NEW m \in Emission, CallHandler(m) PROVE BusInv'
  <2>1. PICK s \in todo[m] \ OnceSub :
          /\ todo' = [todo EXCEPT ![m] = @ \ {s}]
          /\ called' = [called EXCEPT ![m] = @ \cup {s}]
    BY <1>6 DEF CallHandler
  <2>2. BusTypeOK'
    BY <1>6, <2>1 DEF CallHandler
  <2>3. EmissionInv(m)'
    <3>1. /\ todo'[m] = todo[m] \ {s} /\ called'[m] = called[m] \cup {s}
          /\ UNCHANGED <<made, subs, phase, inside, spent>>
      BY <1>6, <2>1 DEF CallHandler
    <3>2. phase[m] # "new" \/ todo[m] = {}
      BY DEF BusInv
    <3>3. s \notin spent[m]
      OBVIOUS
    <3> QED BY <3>1, <3>2, <3>3
  <2>4. ASSUME NEW k \in Emission, k # m PROVE EmissionInv(k)'
    BY <1>6, <2>1, <2>4 DEF CallHandler
  <2> QED BY <1>6, <2>1, <2>2, <2>3, <2>4 DEF CallHandler
<1>7. ASSUME NEW m \in Emission, Unwrap(m) PROVE BusInv'
  <2>1. PICK s \in todo[m] \cap OnceSub :
          /\ todo' = [todo EXCEPT ![m] = @ \ {s}]
          /\ inside' = [inside EXCEPT ![m] = {s}]
          /\ subs' = subs \ {s}
    BY <1>7 DEF Unwrap
  <2>2. BusTypeOK'
    BY <1>7, <2>1 DEF Unwrap
  <2>3. EmissionInv(m)'
    <3>1. /\ todo'[m] = todo[m] \ {s} /\ inside'[m] = {s} /\ subs' = subs \ {s}
          /\ UNCHANGED <<made, phase, called, spent>>
      BY <1>7, <2>1 DEF Unwrap
    <3>2. phase[m] # "new" \/ todo[m] = {}
      BY DEF BusInv
    <3>3. s \notin spent[m] /\ s \in made
      OBVIOUS
    <3> QED BY <3>1, <3>2, <3>3
  <2>4. ASSUME NEW k \in Emission, k # m PROVE EmissionInv(k)'
    BY <1>7, <2>1, <2>4 DEF Unwrap
  <2> QED BY <1>7, <2>1, <2>2, <2>3, <2>4 DEF Unwrap
<1>8. ASSUME NEW m \in Emission, CallOnce(m) PROVE BusInv'
  BY <1>8 DEF CallOnce
<1>9. ASSUME NEW m \in Emission, EmitEnds(m) PROVE BusInv'
  BY <1>9 DEF EmitEnds
<1>10. CASE UNCHANGED busVars
  BY <1>10 DEF busVars
<1> QED BY <1>1, <1>2, <1>3, <1>4, <1>5, <1>6, <1>7, <1>8, <1>9, <1>10 DEF BusNext

\* No emission calls a handler of once() that had been called before it began.
THEOREM OnceOnly == BusSpec => []OnceIsOver
<1>1. BusInv => OnceIsOver
  BY DEF BusInv, EmissionInv, OnceIsOver
<1> QED BY <1>1, BusInitInv, BusStepInv, PTL DEF BusSpec

\* The event bus keeps its types.
THEOREM EventBusTypes == BusSpec => []BusTypeOK
<1>1. BusInv => BusTypeOK
  BY DEF BusInv
<1> QED BY <1>1, BusInitInv, BusStepInv, PTL DEF BusSpec

-----------------------------------------------------------------------------
(* Coordinator *)

\* One thread at a time is inside factories: it has the lock.
LockInv == \A p, q \in Thread : making[p] # <<>> /\ making[q] # <<>> => p = q

\* A name that is being made, by a factory that left it alone, is not there yet and is
\* being made once.
FrameInv ==
  \A p \in Thread : \A i \in 1..Len(making[p]) :
    making[p][i] \notin reentered =>
      /\ modules[making[p][i]] = 0
      /\ given[making[p][i]] = {}
      /\ \A j \in 1..Len(making[p]) : making[p][j] = making[p][i] => j = i

\* Only the module registered now has been handed out.
GivenInv == \A n \in Name : n \notin reentered => given[n] \subseteq {modules[n]} \ {0}

\* Whoever looks something up knows its name.
WantInv == \A p \in Thread : at[p] \in {"getting", "wiring"} => want[p] \in Name

CoordInv == CoordTypeOK /\ LockInv /\ FrameInv /\ GivenInv /\ WantInv

LEMMA MaxModulesType == MaxModules \in Nat
BY CoordinatorAssumption DEF CoordinatorAssumption

\* The elements of a sequence, and of the empty one.
LEMMA Elements ==
  ASSUME NEW S
  PROVE  /\ <<>> \in Seq(S) /\ Len(<<>>) = 0
         /\ \A s \in Seq(S) : Len(s) \in Nat /\ \A i \in 1..Len(s) : s[i] \in S
         /\ \A s \in Seq(S) : s # <<>> => Len(s) # 0
OBVIOUS

\* Entering a factory makes the sequence of names longer by one.
LEMMA Pushed ==
  ASSUME NEW S, NEW s \in Seq(S), NEW e \in S
  PROVE  /\ Append(s, e) \in Seq(S) /\ Append(s, e) # <<>>
         /\ Len(Append(s, e)) = Len(s) + 1 /\ Len(s) \in Nat
         /\ \A i \in 1..Len(s) : Append(s, e)[i] = s[i]
         /\ Append(s, e)[Len(s) + 1] = e
OBVIOUS

\* Leaving it makes the sequence shorter by one and changes nothing else.
LEMMA Popped ==
  ASSUME NEW S, NEW s \in Seq(S), s # <<>>
  PROVE  /\ SubSeq(s, 1, Len(s) - 1) \in Seq(S)
         /\ Len(s) \in Nat \ {0} /\ s[Len(s)] \in S
         /\ Len(SubSeq(s, 1, Len(s) - 1)) = Len(s) - 1
         /\ \A i \in 1..(Len(s) - 1) : SubSeq(s, 1, Len(s) - 1)[i] = s[i]
<1>1. Len(s) \in Nat /\ Len(s) # 0
  BY Elements
<1>2. \A i \in 1..Len(s) : s[i] \in S
  BY Elements
<1> DEFINE k == Len(s) - 1
<1>3. Len(s) \in 1..Len(s) /\ k \in Nat /\ \A i \in 1..k : s[i] \in S
  BY <1>1, <1>2
<1> HIDE DEF k
<1>4. /\ SubSeq(s, 1, k) \in Seq(S)
      /\ Len(SubSeq(s, 1, k)) = IF 1 <= k THEN k - 1 + 1 ELSE 0
      /\ \A i \in 1..(k - 1 + 1) : SubSeq(s, 1, k)[i] = s[1 + i - 1]
  BY <1>3, SubSeqProperties
<1>5. Len(SubSeq(s, 1, k)) = k /\ k - 1 + 1 = k
  BY <1>3, <1>4
<1>6. \A i \in 1..k : 1 + i - 1 = i
  BY <1>3
<1>7. \A i \in 1..k : SubSeq(s, 1, k)[i] = s[i]
  BY <1>4, <1>5, <1>6
<1> QED BY <1>1, <1>2, <1>3, <1>4, <1>5, <1>7 DEF k

\* The names of the factories a thread is in, and the numbers of modules.
LEMMA FramesTyped ==
  ASSUME CoordInv
  PROVE  /\ \A q \in Thread : /\ making[q] \in Seq(Name)
                              /\ Len(making[q]) \in Nat
                              /\ \A i \in 1..Len(making[q]) : making[q][i] \in Name
         /\ createdM < MaxModules => createdM + 1 \in 1..MaxModules /\ createdM + 1 \in 0..MaxModules
         /\ \A n \in Name : /\ modules[n] \in 0..MaxModules
                            /\ modules[n] # 0 => modules[n] \in 1..MaxModules
<1>1. /\ \A q \in Thread : making[q] \in Seq(Name)
      /\ createdM \in 0..MaxModules
      /\ \A n \in Name : modules[n] \in 0..MaxModules
  BY DEF CoordInv, CoordTypeOK
<1>2. \A q \in Thread : /\ Len(making[q]) \in Nat
                        /\ \A i \in 1..Len(making[q]) : making[q][i] \in Name
  BY <1>1, Elements
<1>3. /\ createdM < MaxModules => createdM + 1 \in 1..MaxModules /\ createdM + 1 \in 0..MaxModules
      /\ \A n \in Name : modules[n] # 0 => modules[n] \in 1..MaxModules
  BY <1>1, MaxModulesType
<1> QED BY <1>1, <1>2, <1>3

\* A step of get() that is no factory's goes on with types kept.
LEMMA ProceedTypes ==
  ASSUME CoordInv, NEW p \in Thread, NEW m \in 0..MaxModules, Proceed(p, m) \/ GetRaises(p)
  PROVE  /\ at' \in [Thread -> {"idle", "getting", "wiring", "asking", "executing"}]
         /\ want' \in [Thread -> Name \cup {""}]
         /\ wired' \in 0..MaxModules
         /\ WantInv'
<1> USE DEF CoordInv, CoordTypeOK, WantInv
<1>0. "controller" \in Name
  BY DEF Name
<1>1. CASE Proceed(p, m)
  <2>1. CASE at[p] = "getting" /\ at' = [at EXCEPT ![p] = "asking"] /\ UNCHANGED <<want, wired>>
    BY <2>1
  <2>2. CASE want' = [want EXCEPT ![p] = "controller"] /\ UNCHANGED <<at, wired>>
    BY <2>2, <1>0
  <2>3. CASE /\ at' = [at EXCEPT ![p] = "idle"] /\ want' = [want EXCEPT ![p] = ""]
             /\ wired' = IF want[p] = "controller" THEN m ELSE wired
    BY <2>3
  <2> QED BY <1>1, <2>1, <2>2, <2>3 DEF Proceed
<1>2. CASE GetRaises(p)
  BY <1>2 DEF GetRaises
<1> QED BY <1>1, <1>2

LEMMA CoordInitInv == CoordInit => CoordInv
<1> SUFFICES ASSUME CoordInit PROVE CoordInv
  OBVIOUS
<1>0. 0 \in 0..MaxModules
  BY MaxModulesType
<1> USE DEF CoordInit
<1>1. CoordTypeOK
  <2>1. modules \in [Name -> 0..MaxModules] /\ createdM \in 0..MaxModules /\ wired \in 0..MaxModules
    BY <1>0
  <2>2. given \in [Name -> SUBSET (1..MaxModules)]
    OBVIOUS
  <2>3. want \in [Thread -> Name \cup {""}]
    OBVIOUS
  <2>4. making \in [Thread -> Seq(Name)]
    BY Elements
  <2>5. /\ factories \subseteq Name /\ reentered \subseteq Name
        /\ at \in [Thread -> {"idle", "getting", "wiring", "asking", "executing"}]
    OBVIOUS
  <2> QED BY <2>1, <2>2, <2>3, <2>4, <2>5 DEF CoordTypeOK
<1>2. LockInv /\ GivenInv /\ WantInv
  BY DEF LockInv, GivenInv, WantInv
<1>3. FrameInv
  BY Elements DEF FrameInv
<1> QED BY <1>1, <1>2, <1>3 DEF CoordInv

\* Whoever is in the registry while a factory runs is the thread that runs it.
LEMMA OnlyOne ==
  ASSUME CoordInv, NEW p \in Thread, MayEnter(p)
  PROVE  \A q \in Thread : q # p => making[q] = <<>>
BY DEF MayEnter

\* Registering and removing keep the invariant.
LEMMA ChangesKeep ==
  ASSUME CoordInv, NEW n \in Name, Register(n) \/ RegisterFactory(n) \/ Unregister(n)
  PROVE  CoordInv'
<1>0. MaxModules \in Nat
  BY MaxModulesType
<1> USE DEF CoordInv
<1>1. ASSUME n \notin BeingMade, NEW q \in Thread, NEW i \in 1..Len(making[q])
      PROVE  making[q][i] # n
  BY <1>1 DEF BeingMade, Frames
<1>2. LockInv' /\ WantInv'
  BY DEF LockInv, WantInv, Register, RegisterFactory, Unregister, handleVars
<1>3. CASE Register(n)
  <2> USE <1>3 DEF Register, handleVars
  <2>1. createdM + 1 \in 1..MaxModules /\ createdM + 1 \in 0..MaxModules
    BY FramesTyped
  <2>2. CoordTypeOK'
    BY <2>1 DEF CoordTypeOK
  <2>3. GivenInv'
    BY DEF GivenInv, CoordTypeOK
  <2>4. FrameInv'
    <3> SUFFICES ASSUME NEW q \in Thread, NEW i \in 1..Len(making[q]),
                        making[q][i] \notin reentered'
                 PROVE  /\ modules'[making[q][i]] = 0
                        /\ given'[making[q][i]] = {}
                        /\ \A j \in 1..Len(making[q]) : making[q][j] = making[q][i] => j = i
      BY DEF FrameInv
    <3>1. making[q][i] # n
      BY <1>1
    <3>2. making[q][i] \notin reentered /\ making[q][i] \in Name
      BY <3>1, FramesTyped
    <3>3. modules'[making[q][i]] = modules[making[q][i]] /\ given'[making[q][i]] = given[making[q][i]]
      BY <3>1, <3>2 DEF CoordTypeOK
    <3> QED BY <3>2, <3>3 DEF FrameInv
  <2> QED BY <1>2, <2>2, <2>3, <2>4
<1>4. CASE RegisterFactory(n)
  BY <1>2, <1>4 DEF RegisterFactory, CoordTypeOK, FrameInv, GivenInv, handleVars
<1>5. CASE Unregister(n)
  <2> USE <1>5 DEF Unregister, handleVars
  <2>1. 0 \in 0..MaxModules
    BY <1>0
  <2>2. CoordTypeOK'
    BY <2>1 DEF CoordTypeOK
  <2>3. GivenInv'
    BY DEF GivenInv, CoordTypeOK
  <2>4. FrameInv'
    <3> SUFFICES ASSUME NEW q \in Thread, NEW i \in 1..Len(making[q]),
                        making[q][i] \notin reentered'
                 PROVE  /\ modules'[making[q][i]] = 0
                        /\ given'[making[q][i]] = {}
                        /\ \A j \in 1..Len(making[q]) : making[q][j] = making[q][i] => j = i
      BY DEF FrameInv
    <3>1. making[q][i] \notin reentered /\ making[q][i] \in Name
      BY <1>1, FramesTyped
    <3>2. /\ modules'[making[q][i]] \in {modules[making[q][i]], 0}
          /\ given'[making[q][i]] \in {given[making[q][i]], {}}
      BY <3>1 DEF CoordTypeOK
    <3> QED BY <3>1, <3>2 DEF FrameInv
  <2> QED BY <1>2, <2>2, <2>3, <2>4
<1> QED BY <1>3, <1>4, <1>5

\* Finding a module keeps it.
LEMMA FoundKeeps ==
  ASSUME CoordInv, NEW p \in Thread, NEW n \in Name, GetFound(p, n)
  PROVE  CoordInv'
<1> USE DEF GetFound
<1>1. modules[n] \in 0..MaxModules /\ modules[n] \in 1..MaxModules
  BY FramesTyped
<1>2. /\ at' \in [Thread -> {"idle", "getting", "wiring", "asking", "executing"}]
      /\ want' \in [Thread -> Name \cup {""}]
      /\ wired' \in 0..MaxModules
      /\ WantInv'
  <2>1. CASE making[p] = <<>>
    BY <1>1, <2>1, ProceedTypes
  <2>2. CASE making[p] # <<>>
    BY <2>2 DEF handleVars, CoordInv, CoordTypeOK, WantInv
  <2> QED BY <2>1, <2>2
<1> USE DEF CoordInv
<1>3. CoordTypeOK'
  BY <1>1, <1>2 DEF CoordTypeOK
<1>4. GivenInv'
  BY DEF GivenInv, CoordTypeOK
<1>5. FrameInv'
  <2> SUFFICES ASSUME NEW q \in Thread, NEW i \in 1..Len(making[q]),
                      making[q][i] \notin reentered
               PROVE  /\ modules[making[q][i]] = 0
                      /\ given'[making[q][i]] = {}
                      /\ \A j \in 1..Len(making[q]) : making[q][j] = making[q][i] => j = i
    BY DEF FrameInv
  <2>1. /\ modules[making[q][i]] = 0 /\ given[making[q][i]] = {}
        /\ \A j \in 1..Len(making[q]) : making[q][j] = making[q][i] => j = i
    BY DEF FrameInv
  <2>2. making[q][i] \in Name /\ making[q][i] # n
    BY <2>1, FramesTyped
  <2>3. given'[making[q][i]] = given[making[q][i]]
    BY <2>2 DEF CoordTypeOK
  <2> QED BY <2>1, <2>3
<1> QED BY <1>2, <1>3, <1>4, <1>5 DEF LockInv

\* Starting a factory keeps it.
LEMMA MakeKeeps ==
  ASSUME CoordInv, NEW p \in Thread, NEW n \in Name, GetMake(p, n)
  PROVE  CoordInv'
<1> USE DEF GetMake, handleVars
<1> DEFINE s == making[p]
           t == Append(making[p], n)
<1>1. /\ t \in Seq(Name) /\ Len(t) = Len(s) + 1 /\ Len(s) \in Nat
      /\ \A i \in 1..Len(s) : t[i] = s[i]
      /\ t[Len(s) + 1] = n
  BY Pushed, FramesTyped
<1>2. making' = [making EXCEPT ![p] = t] /\ making'[p] = t
  BY DEF CoordInv, CoordTypeOK
<1> HIDE DEF t
<1> USE DEF CoordInv
<1>3. CoordTypeOK'
  BY <1>1, <1>2 DEF CoordTypeOK
<1>4. LockInv'
  BY <1>2, OnlyOne DEF LockInv, CoordTypeOK
<1>5. GivenInv' /\ WantInv'
  BY DEF GivenInv, WantInv
<1>6. FrameInv'
  <2> SUFFICES ASSUME NEW q \in Thread, NEW i \in 1..Len(making'[q]),
                      making'[q][i] \notin reentered'
               PROVE  /\ modules'[making'[q][i]] = 0
                      /\ given'[making'[q][i]] = {}
                      /\ \A j \in 1..Len(making'[q]) : making'[q][j] = making'[q][i] => j = i
    BY DEF FrameInv
  <2>0. /\ modules' = modules /\ given' = given /\ modules[n] = 0
        /\ reentered' = reentered \cup ({n} \cap Frames(p))
    OBVIOUS
  <2> HIDE DEF GetMake, CoordInv
  <2>1. q = p
    <3> SUFFICES ASSUME q # p PROVE FALSE
      OBVIOUS
    <3>1. making'[q] = making[q] /\ making[q] = <<>>
      BY OnlyOne, <1>2 DEF CoordInv, CoordTypeOK, GetMake
    <3>2. Len(making'[q]) = 0
      BY <3>1, Elements
    <3> QED BY <3>2
  <2>2. making'[q] = t /\ i \in 1..(Len(s) + 1)
    BY <1>1, <1>2, <2>1
  <2>3. CASE i = Len(s) + 1
    <3>1. t[i] = n /\ n \notin reentered /\ n \notin Frames(p)
      BY <1>1, <2>0, <2>2, <2>3
    <3>2. given[n] = {}
      BY <2>0, <3>1 DEF GivenInv, CoordInv
    <3>3. \A j \in 1..Len(s) : t[j] # n
      BY <1>1, <3>1 DEF Frames
    <3>4. \A j \in 1..(Len(s) + 1) : t[j] = n => j = Len(s) + 1
      BY <1>1, <3>3
    <3> QED BY <1>1, <2>0, <2>2, <2>3, <3>1, <3>2, <3>4
  <2>4. CASE i \in 1..Len(s)
    <3>1. t[i] = s[i] /\ s[i] \notin reentered
      BY <1>1, <2>0, <2>2, <2>4
    <3>2. n # s[i]
      <4>1. s[i] \in Frames(p)
        BY <2>4 DEF Frames
      <4> QED BY <2>0, <2>2, <3>1, <4>1
    <3>3. /\ modules[s[i]] = 0 /\ given[s[i]] = {}
          /\ \A j \in 1..Len(s) : s[j] = s[i] => j = i
      BY <2>4, <3>1 DEF FrameInv, CoordInv
    <3>4. \A j \in 1..(Len(s) + 1) : t[j] = t[i] => j = i
      BY <1>1, <3>1, <3>2, <3>3
    <3> QED BY <1>1, <2>0, <2>2, <3>1, <3>3, <3>4
  <2>5. i = Len(s) + 1 \/ i \in 1..Len(s)
    BY <1>1, <2>2
  <2> QED BY <2>3, <2>4, <2>5
<1> QED BY <1>3, <1>4, <1>5, <1>6

\* What is left of the factories when the innermost one ends.
LEMMA Left ==
  ASSUME CoordInv, NEW p \in Thread, making[p] # <<>>, Pop(p)
  PROVE  /\ making' \in [Thread -> Seq(Name)]
         /\ Len(making[p]) \in Nat \ {0} /\ Innermost(p) \in Name
         /\ Innermost(p) = making[p][Len(making[p])]
         /\ Len(making'[p]) = Len(making[p]) - 1
         /\ \A i \in 1..(Len(making[p]) - 1) : making'[p][i] = making[p][i]
         /\ \A q \in Thread : q # p => making'[q] = <<>> /\ making[q] = <<>>
         /\ LockInv'
<1>1. making[p] \in Seq(Name)
  BY DEF CoordInv, CoordTypeOK
<1> DEFINE t == SubSeq(making[p], 1, Len(making[p]) - 1)
<1>2. /\ t \in Seq(Name)
      /\ Len(making[p]) \in Nat \ {0} /\ making[p][Len(making[p])] \in Name
      /\ Len(t) = Len(making[p]) - 1
      /\ \A i \in 1..(Len(making[p]) - 1) : t[i] = making[p][i]
  BY <1>1, Popped
<1>3. making' = [making EXCEPT ![p] = t] /\ making'[p] = t
  BY DEF Pop, CoordInv, CoordTypeOK
<1> HIDE DEF t
<1>4. making' \in [Thread -> Seq(Name)]
  BY <1>2, <1>3 DEF CoordInv, CoordTypeOK
<1>5. \A q \in Thread : q # p => making'[q] = <<>> /\ making[q] = <<>>
  BY <1>3 DEF CoordInv, CoordTypeOK, LockInv
<1>6. LockInv'
  BY <1>5 DEF LockInv
<1> QED BY <1>2, <1>3, <1>4, <1>5, <1>6 DEF Innermost

\* The end of a factory keeps it.
LEMMA ReturnsKeeps ==
  ASSUME CoordInv, NEW p \in Thread, FactoryReturns(p)
  PROVE  CoordInv'
<1> DEFINE n == Innermost(p)
           m == createdM + 1
           L == Len(making[p])
<1>1. /\ making[p] # <<>> /\ Pop(p) /\ createdM < MaxModules /\ createdM' = m
      /\ modules' = [modules EXCEPT ![n] = m]
      /\ factories' = factories \ {n}
      /\ given' = IF n \in factories THEN [given EXCEPT ![n] = @ \cup {m}] ELSE given
      /\ UNCHANGED handleVars \/ Proceed(p, m) \/ GetRaises(p)
      /\ reentered' = reentered
  BY DEF FactoryReturns
<1>2. /\ making' \in [Thread -> Seq(Name)] /\ LockInv'
      /\ L \in Nat \ {0} /\ n \in Name /\ n = making[p][L]
      /\ Len(making'[p]) = L - 1
      /\ \A i \in 1..(L - 1) : making'[p][i] = making[p][i]
      /\ \A q \in Thread : q # p => making'[q] = <<>>
  BY <1>1, Left
<1>3. m \in 1..MaxModules /\ m \in 0..MaxModules
  BY <1>1, FramesTyped
<1>4. /\ at' \in [Thread -> {"idle", "getting", "wiring", "asking", "executing"}]
      /\ want' \in [Thread -> Name \cup {""}]
      /\ wired' \in 0..MaxModules
      /\ WantInv'
  <2>1. CASE UNCHANGED handleVars
    BY <2>1 DEF handleVars, CoordInv, CoordTypeOK, WantInv
  <2>2. CASE Proceed(p, m) \/ GetRaises(p)
    BY <1>3, <2>2, ProceedTypes
  <2> QED BY <1>1, <2>1, <2>2
<1> HIDE DEF n, m, L
<1> USE DEF CoordInv
<1>5. CoordTypeOK'
  BY <1>1, <1>2, <1>3, <1>4 DEF CoordTypeOK
<1>6. n \notin reentered => given[n] = {}
  <2>1. L \in 1..Len(making[p])
    BY <1>2 DEF L
  <2> QED BY <1>2, <2>1 DEF FrameInv
<1>7. GivenInv'
  <2> SUFFICES ASSUME NEW k \in Name, k \notin reentered
               PROVE  given'[k] \subseteq {modules'[k]} \ {0}
    BY <1>1 DEF GivenInv
  <2>1. CASE k = n
    <3>0. m # 0
      BY <1>3, MaxModulesType
    <3>1. given[n] = {} /\ modules'[n] = m
      <4>1. DOMAIN modules = Name
        BY DEF CoordTypeOK
      <4> QED BY <1>1, <1>2, <1>6, <2>1, <4>1
    <3>2. given'[n] \subseteq given[n] \cup {m}
      BY <1>1, <1>2 DEF CoordTypeOK
    <3> QED BY <2>1, <3>0, <3>1, <3>2
  <2>2. CASE k # n
    BY <1>1, <1>2, <2>2 DEF GivenInv, CoordTypeOK
  <2> QED BY <2>1, <2>2
<1>8. FrameInv'
  <2> SUFFICES ASSUME NEW q \in Thread, NEW i \in 1..Len(making'[q]),
                      making'[q][i] \notin reentered
               PROVE  /\ modules'[making'[q][i]] = 0
                      /\ given'[making'[q][i]] = {}
                      /\ \A j \in 1..Len(making'[q]) : making'[q][j] = making'[q][i] => j = i
    BY <1>1 DEF FrameInv
  <2>1. q = p /\ i \in 1..(L - 1)
    BY <1>2, Elements
  <2>2. /\ making'[q][i] = making[p][i] /\ making[p][i] \in Name
        /\ i \in 1..Len(making[p])
    <3>1. i \in 1..Len(making[p])
      BY <1>2, <2>1 DEF L
    <3> QED BY <1>2, <2>1, <3>1, FramesTyped
  <2>3. /\ modules[making[p][i]] = 0 /\ given[making[p][i]] = {}
        /\ \A j \in 1..Len(making[p]) : making[p][j] = making[p][i] => j = i
    BY <2>2 DEF FrameInv
  <2>4. making[p][i] # n
    BY <1>2, <2>1, <2>3 DEF L
  <2>5. modules'[making[p][i]] = 0 /\ given'[making[p][i]] = {}
    BY <1>1, <1>2, <2>2, <2>3, <2>4 DEF CoordTypeOK
  <2> QED BY <1>2, <2>1, <2>2, <2>3, <2>5 DEF L
<1> QED BY <1>2, <1>4, <1>5, <1>7, <1>8

\* So does an exception in one.
LEMMA RaisesKeeps ==
  ASSUME CoordInv, NEW p \in Thread, FactoryRaises(p)
  PROVE  CoordInv'
<1> USE DEF FactoryRaises, regVars
<1>1. /\ making' \in [Thread -> Seq(Name)] /\ LockInv'
      /\ Len(making[p]) \in Nat \ {0}
      /\ Len(making'[p]) = Len(making[p]) - 1
      /\ \A i \in 1..(Len(making[p]) - 1) : making'[p][i] = making[p][i]
      /\ \A q \in Thread : q # p => making'[q] = <<>>
  BY Left
<1>2. /\ at' \in [Thread -> {"idle", "getting", "wiring", "asking", "executing"}]
      /\ want' \in [Thread -> Name \cup {""}]
      /\ wired' \in 0..MaxModules
      /\ WantInv'
  <2>0. 0 \in 0..MaxModules
    BY MaxModulesType
  <2>1. CASE UNCHANGED handleVars
    BY <2>1 DEF handleVars, CoordInv, CoordTypeOK, WantInv
  <2>2. CASE GetRaises(p)
    BY <2>0, <2>2, ProceedTypes
  <2> QED BY <2>1, <2>2
<1> USE DEF CoordInv
<1>3. CoordTypeOK'
  BY <1>1, <1>2 DEF CoordTypeOK
<1>4. GivenInv'
  BY DEF GivenInv
<1>5. FrameInv'
  <2> SUFFICES ASSUME NEW q \in Thread, NEW i \in 1..Len(making'[q]),
                      making'[q][i] \notin reentered
               PROVE  /\ modules[making'[q][i]] = 0
                      /\ given[making'[q][i]] = {}
                      /\ \A j \in 1..Len(making'[q]) : making'[q][j] = making'[q][i] => j = i
    BY DEF FrameInv
  <2>1. q = p /\ i \in 1..(Len(making[p]) - 1)
    BY <1>1, Elements
  <2>2. making'[q][i] = making[p][i] /\ i \in 1..Len(making[p])
    BY <1>1, <2>1
  <2>3. /\ modules[making[p][i]] = 0 /\ given[making[p][i]] = {}
        /\ \A j \in 1..Len(making[p]) : making[p][j] = making[p][i] => j = i
    BY <2>2 DEF FrameInv
  <2> QED BY <1>1, <2>1, <2>2, <2>3
<1> QED BY <1>1, <1>2, <1>3, <1>4, <1>5

\* The steps outside the registry keep it.
LEMMA OutsideKeeps ==
  ASSUME CoordInv, NEW p \in Thread,
         \/ GetNothing(p) \/ Answer(p) \/ Execute(p)
         \/ \E n \in Name \ {"kernel_boot"} : Wire(p, n)
         \/ \E k \in TaskKind : Handle(p, k)
  PROVE  CoordInv'
<1> USE DEF regVars
<1>1. UNCHANGED <<regVars, making, wired>>
  BY DEF GetNothing, Answer, Execute, Wire, Handle
<1>2. /\ at' \in [Thread -> {"idle", "getting", "wiring", "asking", "executing"}]
      /\ want' \in [Thread -> Name \cup {""}]
      /\ \A q \in Thread : q # p => at'[q] = at[q] /\ want'[q] = want[q]
      /\ at'[p] \in {"getting", "wiring"} => want'[p] \in Name
  <2>0. "controller" \in Name /\ "kernel_boot" \in Name
    BY DEF Name
  <2> USE DEF CoordInv, CoordTypeOK
  <2>1. CASE GetNothing(p)
    BY <2>0, <2>1 DEF GetNothing
  <2>2. CASE Answer(p) \/ Execute(p)
    BY <2>2 DEF Answer, Execute
  <2>3. CASE \E n \in Name \ {"kernel_boot"} : Wire(p, n)
    BY <2>3 DEF Wire
  <2>4. CASE \E k \in TaskKind : Handle(p, k)
    BY <2>0, <2>4 DEF Handle
  <2> QED BY <2>1, <2>2, <2>3, <2>4
<1> USE DEF CoordInv
<1>3. CoordTypeOK'
  BY <1>1, <1>2 DEF CoordTypeOK
<1>4. WantInv'
  BY <1>2 DEF WantInv
<1>5. LockInv' /\ GivenInv' /\ FrameInv'
  BY <1>1 DEF LockInv, GivenInv, FrameInv
<1> QED BY <1>3, <1>4, <1>5

LEMMA CoordStepInv == CoordInv /\ [CoordNext]_coordVars => CoordInv'
<1> SUFFICES ASSUME CoordInv, [CoordNext]_coordVars PROVE CoordInv'
  OBVIOUS
<1>1. ASSUME NEW n \in Name, Register(n) \/ RegisterFactory(n) \/ Unregister(n)
      PROVE  CoordInv'
  BY <1>1, ChangesKeep
<1>2. ASSUME NEW p \in Thread, NEW n \in Name, GetFound(p, n) \/ GetMake(p, n)
      PROVE  CoordInv'
  BY <1>2, FoundKeeps, MakeKeeps
<1>3. ASSUME NEW p \in Thread, FactoryReturns(p) \/ FactoryRaises(p)
      PROVE  CoordInv'
  BY <1>3, ReturnsKeeps, RaisesKeeps
<1>4. ASSUME NEW p \in Thread,
             \/ GetNothing(p) \/ Answer(p) \/ Execute(p)
             \/ \E n \in Name \ {"kernel_boot"} : Wire(p, n)
             \/ \E k \in TaskKind : Handle(p, k)
      PROVE  CoordInv'
  BY <1>4, OutsideKeeps
<1>5. CASE UNCHANGED coordVars
  BY <1>5 DEF coordVars, CoordInv, CoordTypeOK, LockInv, FrameInv, GivenInv, WantInv
<1> QED BY <1>1, <1>2, <1>3, <1>4, <1>5 DEF CoordNext

\* However many threads ask for a name, and however factories use the registry while they
\* run, everybody gets the same module until the name is registered or removed again,
\* unless a factory got or registered the very name it was making.
THEOREM OneModule == CoordSpec => []OneModulePerName
<1>1. CoordInv => OneModulePerName
  <2> SUFFICES ASSUME CoordInv, NEW n \in Name, n \notin reentered
               PROVE  ~(Cardinality(given[n]) > 1)
    BY DEF OneModulePerName
  <2>1. given[n] \subseteq {modules[n]}
    BY DEF CoordInv, GivenInv
  <2>2. IsFiniteSet({modules[n]}) /\ Cardinality({modules[n]}) = 1
    BY FS_Singleton
  <2>3. Cardinality(given[n]) <= 1 /\ Cardinality(given[n]) \in Nat
    BY <2>1, <2>2, FS_Subset, FS_CardinalityType
  <2> QED BY <2>3
<1> QED BY <1>1, CoordInitInv, CoordStepInv, PTL DEF CoordSpec

\* The registry and the coordinator keep their types.
THEOREM CoordinatorTypes == CoordSpec => []CoordTypeOK
<1>1. CoordInv => CoordTypeOK
  BY DEF CoordInv
<1> QED BY <1>1, CoordInitInv, CoordStepInv, PTL DEF CoordSpec

-----------------------------------------------------------------------------
(* RuntimeContext *)

LEMMA OrderIs ==
  /\ Len(Order) = 26 /\ DOMAIN Order = 1..26
  /\ Layers = {Order[i] : i \in 1..26}
BY DEF Order, Layers

\* What a layer is built from is created by an earlier statement.
LEMMA NeedsEarlier ==
  ASSUME NEW i \in 1..26
  PROVE  \A l \in Needs(Order[i]) : \E j \in 1..26 : j < i /\ Order[j] = l
<1>1. i \in {1, 2, 3, 5, 6, 7, 8, 9, 12, 14, 15, 19, 21, 22, 23} => Needs(Order[i]) = {}
  BY DEF Order, Needs
<1>2. i = 4 => Needs(Order[i]) = {Order[1], Order[2], Order[3]}
  BY DEF Order, Needs
<1>3. i \in {10, 11, 13} => Needs(Order[i]) = {Order[9]}
  BY DEF Order, Needs
<1>4. i \in {16, 17} => Needs(Order[i]) = {Order[15]}
  BY DEF Order, Needs
<1>5. i \in {18, 26} => Needs(Order[i]) = {Order[17]}
  BY DEF Order, Needs
<1>6. i = 20 => Needs(Order[i]) = {Order[17], Order[15], Order[19]}
  BY DEF Order, Needs
<1>7. i = 24 => Needs(Order[i]) = {Order[23]}
  BY DEF Order, Needs
<1>8. i = 25 => Needs(Order[i]) = {Order[8]}
  BY DEF Order, Needs
<1>9. \/ i \in {1, 2, 3, 5, 6, 7, 8, 9, 12, 14, 15, 19, 21, 22, 23}
      \/ i = 4 \/ i \in {10, 11, 13} \/ i \in {16, 17} \/ i \in {18, 26}
      \/ i = 20 \/ i = 24 \/ i = 25
  OBVIOUS
<1> QED BY <1>1, <1>2, <1>3, <1>4, <1>5, <1>6, <1>7, <1>8, <1>9

\* Everything an initialize() has passed stands in the context it fills.
FillInv ==
  /\ DOMAIN layers = Context
  /\ created \in Nat /\ created <= MaxContexts /\ global \in 0..created
  /\ \A c \in Context : layers[c] \subseteq Layers
  /\ \A p \in Caller : /\ next[p] \in 1..27 /\ ctxOf[p] \in 0..created
                       /\ place[p] = "filling" => ctxOf[p] # 0
                       /\ place[p] = "filling" =>
                            \A i \in 1..26 : i < next[p] => Order[i] \in layers[ctxOf[p]]
  /\ DOMAIN place = Caller /\ DOMAIN next = Caller /\ DOMAIN ctxOf = Caller

\* Every context that is not complete has one of the reasons, whoever holds it.
ReasonInv ==
  \A c \in 1..created : layers[c] # Layers =>
     \/ c \in failed \union dropped
     \/ \E q \in Caller : place[q] = "filling" /\ ctxOf[q] = c
     \/ \E q \in Caller : place[q] = "initialize" /\ global = c

CtxInv == FillInv /\ DependenciesFirst /\ ReasonInv

LEMMA CtxInitInv == CtxInit => CtxInv
<1> SUFFICES ASSUME CtxInit PROVE CtxInv
  OBVIOUS
<1> USE RuntimeContextAssumption DEF RuntimeContextAssumption
<1>1. FillInv
  BY DEF CtxInit, FillInv
<1>2. DependenciesFirst
  BY DEF CtxInit, DependenciesFirst
<1>3. ReasonInv
  BY DEF CtxInit, ReasonInv
<1> QED BY <1>1, <1>2, <1>3 DEF CtxInv

\* A thread that fills a layer is at a statement of initialize().
LEMMA NextInRange ==
  ASSUME FillInv, NEW p \in Caller, FillLayer(p) PROVE next[p] \in 1..26
<1>1. next[p] <= 26
  BY OrderIs DEF FillLayer
<1>2. next[p] \in 1..27
  BY DEF FillInv
<1> QED BY <1>1, <1>2

LEMMA FillStep == FillInv /\ [CtxNext]_ctxVars => FillInv'
<1> SUFFICES ASSUME FillInv, [CtxNext]_ctxVars PROVE FillInv'
  OBVIOUS
<1> USE RuntimeContextAssumption DEF RuntimeContextAssumption, StageTo, Context
<1>1. CASE Reset
  BY <1>1 DEF Reset, FillInv
<1>2. ASSUME NEW p \in Caller, Look(p) PROVE FillInv'
  BY <1>2 DEF Look, FillInv
<1>3. ASSUME NEW p \in Caller, Create(p) PROVE FillInv'
  BY <1>3 DEF Create, FillInv
<1>4. ASSUME NEW p \in Caller, Initialize(p) PROVE FillInv'
  BY <1>4 DEF Initialize, FillInv
<1>5. ASSUME NEW p \in Caller, FillLayer(p) PROVE FillInv'
  <2>0. next[p] \in 1..26
    BY <1>5, NextInRange
  <2>1. Order[next[p]] \in Layers
    BY <2>0, OrderIs
  <2>2. /\ layers' = [layers EXCEPT ![ctxOf[p]] = @ \union {Order[next[p]]}]
        /\ next' = [next EXCEPT ![p] = @ + 1]
        /\ place[p] = "filling" /\ UNCHANGED <<global, created, place, ctxOf>>
    BY <1>5 DEF FillLayer, LayerAt
  <2>3. \A c \in Context : layers[c] \subseteq layers'[c] /\ layers'[c] \subseteq Layers
    BY <2>1, <2>2 DEF FillInv
  <2>4. ctxOf[p] \in Context /\ Order[next[p]] \in layers'[ctxOf[p]]
    BY <2>2 DEF FillInv
  <2>5. ASSUME NEW q \in Caller, place'[q] = "filling", NEW i \in 1..26, i < next'[q]
        PROVE  Order[i] \in layers'[ctxOf'[q]]
    <3>1. ctxOf[q] \in Context
      BY <2>2, <2>5 DEF FillInv
    <3>2. CASE q = p /\ i = next[p]
      BY <2>2, <2>4, <3>2
    <3>3. CASE ~(q = p /\ i = next[p])
      <4>1. i < next[q]
        <5>1. next'[q] = IF q = p THEN next[p] + 1 ELSE next[q]
          BY <2>2 DEF FillInv
        <5> QED BY <2>0, <2>5, <3>3, <5>1
      <4>2. Order[i] \in layers[ctxOf[q]]
        BY <2>2, <2>5, <4>1 DEF FillInv
      <4> QED BY <2>2, <2>3, <3>1, <4>2
    <3> QED BY <3>2, <3>3
  <2>6. \A q \in Caller : next'[q] \in 1..27
    <3>1. \A q \in Caller : next'[q] = IF q = p THEN next[p] + 1 ELSE next[q]
      BY <2>2 DEF FillInv
    <3>2. next[p] + 1 \in 1..27
      BY <2>0
    <3> QED BY <3>1, <3>2 DEF FillInv
  <2> QED BY <2>2, <2>3, <2>5, <2>6 DEF FillInv
<1>6. ASSUME NEW p \in Caller, LayerRaises(p) PROVE FillInv'
  BY <1>6 DEF LayerRaises, FillInv
<1>7. ASSUME NEW p \in Caller, Return(p) PROVE FillInv'
  BY <1>7 DEF Return, FillInv
<1>8. ASSUME NEW p \in Caller, AskAgain(p) PROVE FillInv'
  BY <1>8 DEF AskAgain, FillInv
<1>9. CASE UNCHANGED ctxVars
  BY <1>9 DEF ctxVars, FillInv
<1> QED BY <1>1, <1>2, <1>3, <1>4, <1>5, <1>6, <1>7, <1>8, <1>9 DEF CtxNext

LEMMA DependenciesStep == FillInv /\ DependenciesFirst /\ [CtxNext]_ctxVars => DependenciesFirst'
<1> SUFFICES ASSUME FillInv, DependenciesFirst, [CtxNext]_ctxVars PROVE DependenciesFirst'
  OBVIOUS
<1>1. ASSUME NEW p \in Caller, FillLayer(p) PROVE DependenciesFirst'
  <2>1. next[p] \in 1..26
    BY <1>1, NextInRange
  <2>2. place[p] = "filling" /\ layers' = [layers EXCEPT ![ctxOf[p]] = @ \union {Order[next[p]]}]
    BY <1>1 DEF FillLayer, LayerAt
  <2>3. Needs(Order[next[p]]) \subseteq layers[ctxOf[p]]
    BY <2>1, <2>2, NeedsEarlier DEF FillInv
  <2> QED BY <2>2, <2>3 DEF DependenciesFirst, FillInv
<1>2. CASE UNCHANGED layers
  BY <1>2 DEF DependenciesFirst
<1> QED
  BY <1>1, <1>2
  DEF CtxNext, ctxVars, Reset, Look, Create, Initialize, LayerRaises, Return, AskAgain

LEMMA ReasonStep == FillInv /\ ReasonInv /\ [CtxNext]_ctxVars => ReasonInv'
<1> SUFFICES ASSUME FillInv, ReasonInv, [CtxNext]_ctxVars, NEW c \in 1..created', layers'[c] # Layers
             PROVE  \/ c \in failed' \union dropped'
                    \/ \E q \in Caller : place'[q] = "filling" /\ ctxOf'[q] = c
                    \/ \E q \in Caller : place'[q] = "initialize" /\ global' = c
  BY DEF ReasonInv
<1> DEFINE Goal == \/ c \in failed' \union dropped'
                   \/ \E q \in Caller : place'[q] = "filling" /\ ctxOf'[q] = c
                   \/ \E q \in Caller : place'[q] = "initialize" /\ global' = c
<1> SUFFICES Goal
  OBVIOUS
<1>0. DOMAIN place = Caller /\ DOMAIN ctxOf = Caller /\ created \in Nat
  BY DEF FillInv
<1>a. created' = created => c \in Context
  BY RuntimeContextAssumption DEF RuntimeContextAssumption, FillInv, Context
<1> USE <1>0 DEF StageTo
<1>1. CASE Reset
  BY <1>1 DEF Reset, Drop, ReasonInv
<1>2. ASSUME NEW p \in Caller, Look(p) PROVE Goal
  BY <1>2 DEF Look, ReasonInv
<1>3. ASSUME NEW p \in Caller, Create(p) PROVE Goal
  <2>1. CASE c = created + 1
    BY <1>3, <2>1 DEF Create
  <2>2. CASE c \in 1..created
    BY <1>3, <2>2 DEF Create, Drop, ReasonInv
  <2> QED BY <1>3, <2>1, <2>2 DEF Create
<1>4. ASSUME NEW p \in Caller, Initialize(p) PROVE Goal
  BY <1>4 DEF Initialize, ReasonInv
<1>5. ASSUME NEW p \in Caller, FillLayer(p) PROVE Goal
  <2>1. layers[c] # Layers
    <3>0. created' = created
      BY <1>5 DEF FillLayer
    <3>1. c \in Context
      BY <3>0, <1>a
    <3>2. DOMAIN layers = Context /\ layers'[c] \subseteq Layers
      BY <3>1, FillStep DEF FillInv
    <3>3. layers[c] \subseteq layers'[c]
      BY <1>5, <3>1, <3>2 DEF FillLayer
    <3> QED BY <3>2, <3>3
  <2> QED BY <2>1, <1>5 DEF FillLayer, ReasonInv
<1>6. ASSUME NEW p \in Caller, LayerRaises(p) PROVE Goal
  BY <1>6 DEF LayerRaises, ReasonInv
<1>7. ASSUME NEW p \in Caller, Return(p) PROVE Goal
  <2>1. layers' = layers /\ created' = created /\ failed' = failed /\ dropped' = dropped /\ global' = global
    BY <1>7 DEF Return
  <2>2. CASE place[p] = "filling" /\ ctxOf[p] = c
    <3>1. next[p] > 26
      BY <1>7, <2>2, OrderIs DEF Return
    <3>2. c \in Context
      BY <2>1, <1>a
    <3>3. \A i \in 1..26 : Order[i] \in layers[c]
      BY <2>2, <3>1 DEF FillInv
    <3>4. layers[c] \subseteq Layers
      BY <3>2 DEF FillInv
    <3>5. layers[c] = Layers
      BY <3>3, <3>4, OrderIs
    <3> QED BY <2>1, <3>5
  <2>3. CASE ~(place[p] = "filling" /\ ctxOf[p] = c)
    <3>1. \A q \in Caller : q # p => place'[q] = place[q] /\ ctxOf'[q] = ctxOf[q]
      BY <1>7 DEF Return
    <3>2. place[p] # "initialize"
      BY <1>7 DEF Return
    <3> QED BY <2>1, <2>3, <3>1, <3>2 DEF ReasonInv
  <2> QED BY <2>2, <2>3
<1>8. ASSUME NEW p \in Caller, AskAgain(p) PROVE Goal
  BY <1>8 DEF AskAgain, ReasonInv
<1>9. CASE UNCHANGED ctxVars
  BY <1>9 DEF ctxVars, ReasonInv
<1> QED BY <1>1, <1>2, <1>3, <1>4, <1>5, <1>6, <1>7, <1>8, <1>9 DEF CtxNext

\* However many threads create, fill and reset contexts: no layer stands before
\* what it was built from, and a half-built context was handed out for a reason.
THEOREM ContextSound == CtxSpec => []ContextsSound
<1>1. CtxInv => ContextsSound
  BY DEF CtxInv, FillInv, ReasonInv, ContextsSound, HalfBuiltHasReason
<1>2. CtxInv /\ [CtxNext]_ctxVars => CtxInv'
  BY FillStep, DependenciesStep, ReasonStep DEF CtxInv
<1> QED BY <1>1, <1>2, CtxInitInv, PTL DEF CtxSpec

\* What FillInv does not say of the types.
PlaceType ==
  /\ place \in [Caller -> {"idle", "create", "initialize", "filling", "return", "has", "raised"}]
  /\ layers \in [Context -> SUBSET Layers]
  /\ next \in [Caller -> Int] /\ ctxOf \in [Caller -> Int]
  /\ failed \subseteq Context /\ dropped \subseteq Context

\* The runtime context keeps its types.
THEOREM ContextTypes == CtxSpec => []CtxTypeOK
<1>1. CtxInit => FillInv /\ PlaceType
  <2> HIDE DEF Context
  <2> QED BY CtxInitInv DEF CtxInv, CtxInit, PlaceType
<1>2. FillInv /\ PlaceType /\ [CtxNext]_ctxVars => PlaceType'
  <2> SUFFICES ASSUME FillInv, PlaceType, [CtxNext]_ctxVars PROVE PlaceType'
    OBVIOUS
  <2>1. \A x \in 0..created : x = 0 \/ x \in Context
    BY RuntimeContextAssumption DEF RuntimeContextAssumption, FillInv, Context
  <2>2. Drop(global) \subseteq Context
    <3>1. global = 0 \/ global \in Context
      BY <2>1 DEF FillInv
    <3> QED BY <3>1 DEF Drop, PlaceType
  <2>3. \A p \in Caller : place[p] = "filling" => ctxOf[p] \in Context
    BY <2>1 DEF FillInv
  <2>0. global \in Int
    BY DEF FillInv
  <2> USE DEF StageTo, PlaceType
  <2> HIDE DEF Context, Layers
  <2>4. CASE Reset
    BY <2>2, <2>4 DEF Reset
  <2>5. ASSUME NEW p \in Caller, Look(p) \/ Initialize(p) \/ Return(p) \/ AskAgain(p)
        PROVE  PlaceType'
    BY <2>0, <2>5 DEF Look, Initialize, Return, AskAgain
  <2>6. ASSUME NEW p \in Caller, Create(p) PROVE PlaceType'
    BY <2>2, <2>6 DEF Create
  <2>7. ASSUME NEW p \in Caller, FillLayer(p) PROVE PlaceType'
    <3>1. Order[next[p]] \in Layers
      BY <2>7, NextInRange, OrderIs
    <3> QED BY <2>3, <2>7, <3>1 DEF FillLayer, LayerAt
  <2>8. ASSUME NEW p \in Caller, LayerRaises(p) PROVE PlaceType'
    BY <2>3, <2>8 DEF LayerRaises
  <2>9. CASE UNCHANGED ctxVars
    BY <2>9 DEF ctxVars
  <2> QED BY <2>4, <2>5, <2>6, <2>7, <2>8, <2>9 DEF CtxNext
<1>3. FillInv /\ PlaceType => CtxTypeOK
  <2> SUFFICES ASSUME FillInv, PlaceType PROVE CtxTypeOK
    OBVIOUS
  <2>1. Len(Order) + 1 = 27
    BY OrderIs
  <2>2. MaxContexts \in Nat
    BY RuntimeContextAssumption DEF RuntimeContextAssumption
  <2>3. created \in 0..MaxContexts /\ global \in 0..created
    BY <2>2 DEF FillInv
  <2>4. \A p \in Caller : ctxOf[p] \in 0..MaxContexts /\ next[p] \in 1..27
    BY <2>2, <2>3 DEF FillInv
  <2>5. ctxOf \in [Caller -> 0..MaxContexts] /\ next \in [Caller -> 1..27]
    BY <2>4 DEF PlaceType
  <2> QED BY <2>1, <2>3, <2>5 DEF PlaceType, CtxTypeOK
<1> QED BY <1>1, <1>2, <1>3, FillStep, PTL DEF CtxSpec
=============================================================================

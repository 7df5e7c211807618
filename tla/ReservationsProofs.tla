------------------------- MODULE ReservationsProofs -------------------------
(***************************************************************************)
(* Proofs about the reservations: their types, that a reservation has one  *)
(* kind and an owner, that its owner keeps it, and that the generation     *)
(* tells every change of registration.                                     *)
(***************************************************************************)
EXTENDS ReservationsProps, TLAPS

\* A generation that was read is not ahead of the present one.
SeenBefore == \A h \in Hosts : seen[h].known => seen[h].gen <= gen

IInv == TypeOK /\ Consistent /\ OwnReservation /\ GenerationTells /\ SeenBefore

\* Nothing is reserved, registered or seen at the start.
LEMMA InitIInv == Init => IInv
<1> SUFFICES ASSUME Init PROVE IInv
  OBVIOUS
<1>1. seen \in [Hosts -> [gen : Nat, key : Keys, known : BOOLEAN]]
  BY DEF Init, NotSeen, Keys
<1>2. TypeOK
  BY <1>1 DEF Init, TypeOK, Keys
<1>3. Consistent /\ OwnReservation
  BY DEF Init, Consistent, OwnReservation
<1>4. GenerationTells /\ SeenBefore
  BY DEF Init, GenerationTells, SeenBefore, NotSeen
<1> QED
  BY <1>2, <1>3, <1>4 DEF IInv

\* The next generation is not one that anybody has read.
LEMMA NewGeneration ==
    ASSUME IInv, gen' = gen + 1, UNCHANGED seen
    PROVE  GenerationTells' /\ SeenBefore'
<1>1. gen \in Nat /\ \A h \in Hosts : seen[h].gen \in Nat
  BY DEF IInv, TypeOK
<1>2. \A h \in Hosts : seen[h].known => seen[h].gen <= gen
  BY DEF IInv, SeenBefore
<1>3. \A h \in Hosts : seen'[h] = seen[h]
  OBVIOUS
<1>4. \A h \in Hosts : ~(seen'[h].known /\ seen'[h].gen = gen')
  BY <1>1, <1>2, <1>3
<1>5. \A h \in Hosts : seen'[h].known => seen'[h].gen <= gen'
  BY <1>1, <1>2, <1>3
<1> QED
  BY <1>4, <1>5 DEF GenerationTells, SeenBefore

\* Without a change of registration, what was read stays as it was.
LEMMA SameGeneration ==
    ASSUME IInv, UNCHANGED <<gen, key, seen>>
    PROVE  GenerationTells' /\ SeenBefore'
BY DEF IInv, GenerationTells, SeenBefore

\* Every command and a restart keep it.
LEMMA StepIInv == IInv /\ [Next]_vars => IInv'
<1> SUFFICES ASSUME IInv, [Next]_vars PROVE IInv'
  OBVIOUS
<1> USE ReservationsAssumption
<1>1. ASSUME NEW h \in Hosts, NEW rk \in {h, None}, NEW sark \in {h, None},
             Register(h, rk, sark)
      PROVE  IInv'
  <2>1. TypeOK'
    BY <1>1 DEF IInv, TypeOK, Register, Ready, Counted, Keys, Types
  <2>2. Consistent'
    BY <1>1 DEF IInv, TypeOK, Consistent, Register, Ready, Owner
  <2>3. OwnReservation'
    BY <1>1 DEF IInv, TypeOK, OwnReservation, Register, Ready, Owner
  <2>4. GenerationTells' /\ SeenBefore'
    BY <1>1, NewGeneration DEF Register, Counted
  <2> QED
    BY <2>1, <2>2, <2>3, <2>4 DEF IInv
<1>2. ASSUME NEW h \in Hosts, NEW rk \in {h, None}, Reserve(h, rk)
      PROVE  IInv'
  <2>1. TypeOK'
    BY <1>2 DEF IInv, TypeOK, Reserve, Types
  <2>2. Consistent'
    BY <1>2 DEF IInv, TypeOK, Consistent, Reserve, Ready, Owner
  <2>3. OwnReservation'
    BY <1>2 DEF IInv, TypeOK, OwnReservation, Reserve, Ready, Owner, Types
  <2>4. GenerationTells' /\ SeenBefore'
    BY <1>2, SameGeneration DEF Reserve
  <2> QED
    BY <2>1, <2>2, <2>3, <2>4 DEF IInv
<1>3. ASSUME NEW h \in Hosts, NEW rk \in {h, None}, Release(h, rk)
      PROVE  IInv'
  <2>1. TypeOK'
    BY <1>3 DEF IInv, TypeOK, Release
  <2>2. Consistent'
    BY <1>3 DEF IInv, TypeOK, Consistent, Release, Ready
  <2>3. OwnReservation'
    BY <1>3 DEF IInv, TypeOK, OwnReservation, Release, Owner
  <2>4. GenerationTells' /\ SeenBefore'
    BY <1>3, SameGeneration DEF Release
  <2> QED
    BY <2>1, <2>2, <2>3, <2>4 DEF IInv
<1>4. ASSUME NEW h \in Hosts, NEW rk \in {h, None}, Clear(h, rk)
      PROVE  IInv'
  <2>1. TypeOK'
    BY <1>4 DEF IInv, TypeOK, Clear, Counted, Keys
  <2>2. Consistent'
    BY <1>4 DEF IInv, TypeOK, Consistent, Clear, Ready
  <2>3. OwnReservation'
    BY <1>4 DEF IInv, TypeOK, OwnReservation, Clear, Owner
  <2>4. GenerationTells' /\ SeenBefore'
    BY <1>4, NewGeneration DEF Clear, Counted
  <2> QED
    BY <2>1, <2>2, <2>3, <2>4 DEF IInv
<1>5. ASSUME NEW h \in Hosts, NEW rk \in {h, None}, NEW sark \in Keys,
             NEW t \in {0} \cup Types, Preempt(h, rk, sark, t)
      PROVE  IInv'
  <2>1. TypeOK'
    BY <1>5 DEF IInv, TypeOK, Preempt, Counted, Keys
  <2>2. Consistent'
    BY <1>5 DEF IInv, TypeOK, Consistent, Preempt, Ready, Keys
  <2>3. OwnReservation'
    BY <1>5 DEF IInv, TypeOK, OwnReservation, Preempt
  <2>4. GenerationTells' /\ SeenBefore'
    BY <1>5, NewGeneration DEF Preempt, Counted
  <2> QED
    BY <2>1, <2>2, <2>3, <2>4 DEF IInv
<1>6. ASSUME NEW h \in Hosts, NEW sark \in {h, None}, RegisterAndIgnore(h, sark)
      PROVE  IInv'
  <2>1. TypeOK'
    BY <1>6 DEF IInv, TypeOK, RegisterAndIgnore, Counted, Keys, Types
  <2>2. Consistent'
    BY <1>6 DEF IInv, TypeOK, Consistent, RegisterAndIgnore, Ready
  <2>3. OwnReservation'
    BY <1>6 DEF IInv, TypeOK, OwnReservation, RegisterAndIgnore
  <2>4. GenerationTells' /\ SeenBefore'
    BY <1>6, NewGeneration DEF RegisterAndIgnore, Counted
  <2> QED
    BY <2>1, <2>2, <2>3, <2>4 DEF IInv
<1>7. ASSUME NEW h \in Hosts, ReadKeys(h)
      PROVE  IInv'
  <2>1. TypeOK' /\ Consistent' /\ OwnReservation'
    BY <1>7 DEF IInv, TypeOK, Consistent, OwnReservation, ReadKeys, state
  <2>2. GenerationTells' /\ SeenBefore'
    BY <1>7 DEF IInv, TypeOK, GenerationTells, SeenBefore, ReadKeys, state
  <2> QED
    BY <2>1, <2>2 DEF IInv
<1>8. ASSUME NEW h \in Hosts, ReadReservation(h)
      PROVE  IInv'
  <2>1. TypeOK' /\ Consistent'
    BY <1>8 DEF IInv, TypeOK, Consistent, ReadReservation, state
  <2>2. OwnReservation'
    BY <1>8 DEF IInv, TypeOK, OwnReservation, ReadReservation, state
  <2>3. GenerationTells' /\ SeenBefore'
    BY <1>8, SameGeneration DEF ReadReservation, state
  <2> QED
    BY <2>1, <2>2, <2>3 DEF IInv
<1>9. ASSUME NEW h \in Hosts, Spc2Reserve(h) \/ Spc2Release(h)
      PROVE  IInv'
  <2>0. UNCHANGED <<key, type, gen, reset, starts, history>> /\ spc2' \in BOOLEAN
    BY <1>9 DEF Spc2Reserve, Spc2Release
  <2>1. TypeOK' /\ OwnReservation'
    BY <2>0 DEF IInv, TypeOK, OwnReservation, history
  <2>2. Consistent'
    BY <1>9 DEF IInv, TypeOK, Consistent, Spc2Reserve, Spc2Release, Nobody, history
  <2>3. GenerationTells' /\ SeenBefore'
    BY <2>0, SameGeneration DEF history
  <2> QED
    BY <2>1, <2>2, <2>3 DEF IInv
<1>10. ASSUME NEW h \in Hosts, UnitAttention(h)
       PROVE  IInv'
  <2>1. TypeOK' /\ Consistent' /\ OwnReservation'
    BY <1>10 DEF IInv, TypeOK, Consistent, OwnReservation, UnitAttention, state
  <2>2. GenerationTells' /\ SeenBefore'
    BY <1>10, SameGeneration DEF UnitAttention, state
  <2> QED
    BY <2>1, <2>2 DEF IInv
<1>11. CASE Restart
  <2>0. seen' \in [Hosts -> [gen : Nat, key : Keys, known : BOOLEAN]]
    BY <1>11 DEF Restart, Keys, NotSeen
  <2>4. starts' \in Nat /\ holds' \subseteq Hosts /\ robbed' \subseteq Hosts
    BY <1>11 DEF IInv, TypeOK, Restart
  <2>1. TypeOK'
    <3>1. key' \in Keys /\ type' \in {0} \cup Types /\ gen' \in Nat
      BY <1>11 DEF Restart, Keys
    <3>2. spc2' \in BOOLEAN /\ reset' \in BOOLEAN /\ zeroed' \in BOOLEAN
      BY <1>11 DEF IInv, TypeOK, Restart
    <3> QED
      BY <2>0, <2>4, <3>1, <3>2, Zenon DEF TypeOK
  <2>2. Consistent' /\ OwnReservation'
    BY <1>11 DEF IInv, TypeOK, Consistent, OwnReservation, Restart
  <2>3. GenerationTells' /\ SeenBefore'
    BY <1>11 DEF GenerationTells, SeenBefore, Restart, NotSeen
  <2> QED
    BY <2>1, <2>2, <2>3 DEF IInv
<1>12. CASE UNCHANGED vars
  <2>1. TypeOK' /\ Consistent' /\ OwnReservation'
    BY <1>12 DEF IInv, TypeOK, Consistent, OwnReservation, vars, state, history
  <2>2. GenerationTells' /\ SeenBefore'
    BY <1>12, SameGeneration DEF vars, state, history
  <2> QED
    BY <2>1, <2>2 DEF IInv
<1> QED
  BY <1>1, <1>2, <1>3, <1>4, <1>5, <1>6, <1>7, <1>8, <1>9, <1>10, <1>11, <1>12
  DEF Next, Out

\* It holds in every state.
LEMMA Invariance == Spec => []IInv
BY InitIInv, StepIInv, PTL DEF Spec

\* The globals of spc.c keep their types.
THEOREM TypeCorrect == Spec => []TypeOK
<1>1. IInv => TypeOK
  BY DEF IInv
<1> QED
  BY <1>1, Invariance, PTL

\* However many hosts reserve: one kind of reservation at a time, with an owner, save
\* the one a PREEMPT has just given to the key zero.
THEOREM ConsistentAlways == Spec => []Consistent
<1>1. IInv => Consistent
  BY DEF IInv
<1> QED
  BY <1>1, Invariance, PTL

\* However many hosts reserve: only the force of another host or a restart takes a
\* reservation from the host that was told it has it.
THEOREM OwnerKeeps == Spec => []OwnReservation
<1>1. IInv => OwnReservation
  BY DEF IInv
<1> QED
  BY <1>1, Invariance, PTL

\* However long the daemon runs: the same generation means the same key.
THEOREM GenerationSound == Spec => []GenerationTells
<1>1. IInv => GenerationTells
  BY DEF IInv
<1> QED
  BY <1>1, Invariance, PTL
=============================================================================

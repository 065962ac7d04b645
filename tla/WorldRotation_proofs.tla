------------------------ MODULE WorldRotation_proofs ------------------------
(* Proofs about WorldRotation: for any finite number of sessions, RotationInv *)
(* is inductive.  The counters are sums of two cardinalities, and each step   *)
(* adds one session to one of the sets, removes one, or moves one from the    *)
(* holders of a seat to those that are leaving; SeatsShareTheDraw then holds  *)
(* because a counter of 0 or 1 says whose seats there can be.                 *)
EXTENDS WorldRotation, FiniteSetTheorems, TLAPS

USE DEF HandlerPc, CleanupPc, Seat, NoSeat

\* Subsets of Session have a number of elements, and it changes by one with a member.
LEMMA Count ==
    ASSUME NEW S \in SUBSET Session
    PROVE  /\ Cardinality(S) \in Nat
           /\ Cardinality(S) = 0 <=> S = {}
           /\ \A s \in Session : Cardinality(S \cup {s}) =
                 IF s \in S THEN Cardinality(S) ELSE Cardinality(S) + 1
           /\ \A s \in Session : Cardinality(S \ {s}) =
                 IF s \in S THEN Cardinality(S) - 1 ELSE Cardinality(S)
<1>1. IsFiniteSet(S)
  BY RotationAssumption, FS_Subset
<1>2. Cardinality(S) \in Nat
  BY <1>1, FS_CardinalityType
<1>3. Cardinality(S) = 0 <=> S = {}
  BY <1>1, FS_EmptySet
<1>4. ASSUME NEW s \in Session
      PROVE Cardinality(S \cup {s}) = IF s \in S THEN Cardinality(S) ELSE Cardinality(S) + 1
  BY <1>1, FS_AddElement
<1>5. ASSUME NEW s \in Session
      PROVE Cardinality(S \ {s}) = IF s \in S THEN Cardinality(S) - 1 ELSE Cardinality(S)
  BY <1>1, FS_RemoveElement
<1> QED
  BY <1>2, <1>3, <1>4, <1>5

\* A seat is taken: the counter and the holders grow by one.
LEMMA TakeSeat ==
    ASSUME NEW rotation, NEW rotation2, NEW seat, NEW seat2, NEW pc, NEW value,
           NEW s \in Session, Counted(rotation, seat, pc), rotation.sessions \in Nat,
           ~seat[s].held,
           rotation2 = Acquire(rotation, value),
           Holders(seat2) = Holders(seat) \cup {s}
    PROVE  Counted(rotation2, seat2, pc)
<1>1. Holders(seat) \in SUBSET Session /\ Leaving(pc) \in SUBSET Session /\ s \notin Holders(seat)
  BY DEF Holders, Leaving
<1>2. Cardinality(Holders(seat2)) = Cardinality(Holders(seat)) + 1
  BY <1>1, Count
<1>3. rotation2.sessions = rotation.sessions + 1
  BY DEF Acquire
<1> QED
  BY <1>1, <1>2, <1>3, Count DEF Counted

\* Before anybody is registered nothing is drawn.
LEMMA InitInv == Init => RotationInv
<1> SUFFICES ASSUME Init PROVE RotationInv
  OBVIOUS
<1>1. Holders(collabSeat) = {} /\ Holders(mezfesSeat) = {}
  BY DEF Init, Holders
<1>2. Leaving("leaveCollab") = {} /\ Leaving("leaveMezFes") = {}
  BY DEF Init, Leaving
<1>3. SeatsCounted
  <2>1. Cardinality({}) = 0
    BY FS_EmptySet
  <2>2. /\ collab.sessions = 0 /\ collab.active = None
        /\ mezfes.sessions = 0 /\ mezfes.active = None
    BY DEF Init
  <2> QED
    BY <1>1, <1>2, <2>1, <2>2 DEF SeatsCounted, Counted
<1> QED
  BY <1>3 DEF Init, RotationInv, TypeOK, SeatsShareTheDraw, CleanupIsFinal

\* Who holds a seat and who is leaving depends on these variables only.
LEMMA SameBooks ==
    ASSUME RotationInv, UNCHANGED <<collab, mezfes, collabSeat, mezfesSeat>>,
           Leaving("leaveCollab")' = Leaving("leaveCollab"),
           Leaving("leaveMezFes")' = Leaving("leaveMezFes")
    PROVE  SeatsCounted' /\ SeatsShareTheDraw'
<1>1. SeatsCounted'
  BY DEF RotationInv, SeatsCounted, Counted
<1>2. SeatsShareTheDraw'
  BY DEF RotationInv, SeatsShareTheDraw
<1> QED
  BY <1>1, <1>2

\* AcquireCollabEvent: the first seat draws when there is no other to contradict.
LEMMA TakesCollab ==
    ASSUME RotationInv, NEW s \in Session, AcquireCollabEvent(s)
    PROVE  RotationInv'
<1> USE DEF RotationInv
<1>1. Leaving("leaveCollab")' = Leaving("leaveCollab")
      /\ Leaving("leaveMezFes")' = Leaving("leaveMezFes")
  BY DEF AcquireCollabEvent, Leaving
<1>2. CASE UNCHANGED <<collab, collabSeat>>
  <2>1. SeatsCounted' /\ SeatsShareTheDraw'
    BY <1>1, <1>2, SameBooks DEF AcquireCollabEvent
  <2>2. TypeOK' /\ CleanupIsFinal'
    BY <1>2 DEF AcquireCollabEvent, TypeOK, CleanupIsFinal
  <2> QED
    BY <2>1, <2>2
<1>3. ASSUME ~collabSeat[s].held, NEW e \in CollabEvent, collab' = Acquire(collab, e),
             collabSeat' = [collabSeat EXCEPT ![s] = [held |-> TRUE, value |-> collab'.active]]
      PROVE RotationInv'
  <2>1. collab'.active \in CollabEvent \cup {None} /\ collab'.sessions \in Nat
    BY <1>3 DEF Acquire, TypeOK
  <2>2. TypeOK'
    <3>1. collab' \in [active: CollabEvent \cup {None}, sessions: Nat]
      BY <1>3, <2>1 DEF Acquire
    <3>2. collabSeat' \in [Session -> Seat(CollabEvent)]
      BY <1>3, <2>1 DEF TypeOK
    <3> QED
      BY <3>1, <3>2, Zenon DEF AcquireCollabEvent, TypeOK
  <2>3. SeatsCounted'
    <3>1. Holders(collabSeat') = Holders(collabSeat) \cup {s}
      BY <1>3 DEF Holders, TypeOK
    <3>2. Counted(collab, collabSeat, "leaveCollab") /\ collab.sessions \in Nat
      BY DEF SeatsCounted, TypeOK
    <3> HIDE DEF RotationInv
    <3>3. Counted(collab', collabSeat', "leaveCollab")
      BY <1>3, <3>1, <3>2, TakeSeat, ZenonT(60)
    <3> QED
      BY <3>3, <1>1 DEF RotationInv, SeatsCounted, Counted, AcquireCollabEvent
  <2>4. SeatsShareTheDraw'
    <3>1. CASE collab.sessions = 0
      <4>1. Holders(collabSeat) = {}
        <5>1. Holders(collabSeat) \in SUBSET Session
              /\ Leaving("leaveCollab") \in SUBSET Session
          BY DEF Holders, Leaving
        <5>2. Cardinality(Holders(collabSeat)) = 0
          BY <3>1, <5>1, Count DEF SeatsCounted, Counted
        <5> QED
          BY <5>1, <5>2, Count
      <4> QED
        BY <4>1, <1>3 DEF SeatsShareTheDraw, Holders, TypeOK, AcquireCollabEvent
    <3>2. CASE collab.sessions # 0
      <4>1. collab'.active = collab.active
        BY <1>3, <3>2 DEF Acquire
      <4> QED
        BY <4>1, <1>3 DEF SeatsShareTheDraw, TypeOK, AcquireCollabEvent
    <3> QED
      BY <3>1, <3>2
  <2>5. CleanupIsFinal'
    BY DEF AcquireCollabEvent, CleanupIsFinal
  <2> QED
    BY <2>2, <2>3, <2>4, <2>5
<1> QED
  BY <1>2, <1>3 DEF AcquireCollabEvent, MayTake

\* AcquireMezFesMinigame: the same, and a session that is closed takes nothing.
LEMMA TakesMezFes ==
    ASSUME RotationInv, NEW s \in Session, AcquireMezFesMinigame(s)
    PROVE  RotationInv'
<1> USE DEF RotationInv
<1>1. Leaving("leaveCollab")' = Leaving("leaveCollab")
      /\ Leaving("leaveMezFes")' = Leaving("leaveMezFes")
  BY DEF AcquireMezFesMinigame, Leaving
<1>2. CASE UNCHANGED <<mezfes, mezfesSeat>>
  <2>1. SeatsCounted' /\ SeatsShareTheDraw'
    BY <1>1, <1>2, SameBooks DEF AcquireMezFesMinigame
  <2>2. TypeOK' /\ CleanupIsFinal'
    BY <1>2 DEF AcquireMezFesMinigame, TypeOK, CleanupIsFinal
  <2> QED
    BY <2>1, <2>2
<1>3. ASSUME ~mezfesSeat[s].held, ~closed[s], NEW g \in Minigame, mezfes' = Acquire(mezfes, g),
             mezfesSeat' = [mezfesSeat EXCEPT ![s] = [held |-> TRUE, value |-> mezfes'.active]]
      PROVE RotationInv'
  <2>1. mezfes'.active \in Minigame \cup {None} /\ mezfes'.sessions \in Nat
    BY <1>3 DEF Acquire, TypeOK
  <2>2. TypeOK'
    <3>1. mezfes' \in [active: Minigame \cup {None}, sessions: Nat]
      BY <1>3, <2>1 DEF Acquire
    <3>2. mezfesSeat' \in [Session -> Seat(Minigame)]
      BY <1>3, <2>1 DEF TypeOK
    <3> QED
      BY <3>1, <3>2, Zenon DEF AcquireMezFesMinigame, TypeOK
  <2>3. SeatsCounted'
    <3>1. Holders(mezfesSeat') = Holders(mezfesSeat) \cup {s}
      BY <1>3 DEF Holders, TypeOK
    <3>2. Counted(mezfes, mezfesSeat, "leaveMezFes") /\ mezfes.sessions \in Nat
      BY DEF SeatsCounted, TypeOK
    <3> HIDE DEF RotationInv
    <3>3. Counted(mezfes', mezfesSeat', "leaveMezFes")
      BY <1>3, <3>1, <3>2, TakeSeat, ZenonT(60)
    <3> QED
      BY <3>3, <1>1 DEF RotationInv, SeatsCounted, Counted, AcquireMezFesMinigame
  <2>4. SeatsShareTheDraw'
    <3>1. CASE mezfes.sessions = 0
      <4>1. Holders(mezfesSeat) = {}
        <5>1. Holders(mezfesSeat) \in SUBSET Session
              /\ Leaving("leaveMezFes") \in SUBSET Session
          BY DEF Holders, Leaving
        <5>2. Cardinality(Holders(mezfesSeat)) = 0
          BY <3>1, <5>1, Count DEF SeatsCounted, Counted
        <5> QED
          BY <5>1, <5>2, Count
      <4> QED
        BY <4>1, <1>3 DEF SeatsShareTheDraw, Holders, TypeOK, AcquireMezFesMinigame
    <3>2. CASE mezfes.sessions # 0
      <4>1. mezfes'.active = mezfes.active
        BY <1>3, <3>2 DEF Acquire
      <4> QED
        BY <4>1, <1>3 DEF SeatsShareTheDraw, TypeOK, AcquireMezFesMinigame
    <3> QED
      BY <3>1, <3>2
  <2>5. CleanupIsFinal'
    BY <1>3 DEF AcquireMezFesMinigame, CleanupIsFinal, TypeOK
  <2> QED
    BY <2>2, <2>3, <2>4, <2>5
<1> QED
  BY <1>2, <1>3 DEF AcquireMezFesMinigame, MayTake, StillOpen

\* A seat is given back: its session moves from the holders to the leaving.
LEMMA GiveBack ==
    ASSUME NEW rotation, NEW seat, NEW seat2, NEW out \in SUBSET Session, NEW out2,
           NEW s \in Session, s \in Holders(seat), s \notin out,
           rotation.sessions = Cardinality(Holders(seat)) + Cardinality(out),
           Holders(seat2) = Holders(seat) \ {s}, out2 = out \cup {s}
    PROVE  rotation.sessions = Cardinality(Holders(seat2)) + Cardinality(out2)
<1>1. Holders(seat) \in SUBSET Session
  BY DEF Holders
<1>2. /\ Cardinality(Holders(seat)) \in Nat /\ Cardinality(out) \in Nat
      /\ Cardinality(Holders(seat2)) = Cardinality(Holders(seat)) - 1
      /\ Cardinality(out2) = Cardinality(out) + 1
  BY <1>1, Count
<1> QED
  BY <1>2

\* A session leaves the rotation: it is not counted any more, and the last one
\* takes the draw with it.
LEMMA LeaveRotation ==
    ASSUME NEW rotation, NEW rotation2, NEW seat, NEW out \in SUBSET Session, NEW out2,
           NEW s \in Session, s \in out, rotation2 = Release(rotation),
           rotation.sessions = Cardinality(Holders(seat)) + Cardinality(out),
           out2 = out \ {s}
    PROVE  /\ rotation2.sessions = Cardinality(Holders(seat)) + Cardinality(out2)
           /\ rotation2.sessions = 0 => rotation2.active = None
           /\ rotation2.sessions \in Nat
           /\ rotation2.active # rotation.active => Holders(seat) = {}
<1>1. Holders(seat) \in SUBSET Session
  BY DEF Holders
<1>2. /\ Cardinality(Holders(seat)) \in Nat /\ Cardinality(out) \in Nat
      /\ Cardinality(out2) = Cardinality(out) - 1 /\ Cardinality(out2) \in Nat
      /\ Cardinality(Holders(seat)) = 0 <=> Holders(seat) = {}
  BY <1>1, Count
<1>3. rotation.sessions \in Nat /\ rotation.sessions # 0
  BY <1>2
<1>4. /\ rotation2.sessions = rotation.sessions - 1
      /\ rotation2.active = IF rotation.sessions = 1 THEN None ELSE rotation.active
  BY <1>3 DEF Release
<1> QED
  BY <1>2, <1>3, <1>4

\* ReleaseCollabEvent: whoever gives a seat back is counted as leaving from then on.
LEMMA GivesCollab ==
    ASSUME RotationInv, NEW s \in Session, ReleaseCollabEvent(s)
    PROVE  RotationInv'
<1>1. Leaving("leaveMezFes")' = Leaving("leaveMezFes")
  BY DEF ReleaseCollabEvent, Leaving, RotationInv, TypeOK
<1>2. TypeOK'
  <2>1. collabSeat' \in [Session -> Seat(CollabEvent)]
    BY DEF ReleaseCollabEvent, RotationInv, TypeOK
  <2> QED
    BY <2>1 DEF ReleaseCollabEvent, RotationInv, TypeOK
<1>3. Counted(collab, collabSeat, "leaveCollab")'
  <2>1. CASE ~collabSeat[s].held
    <3>1. Leaving("leaveCollab")' = Leaving("leaveCollab")
      BY <2>1 DEF ReleaseCollabEvent, Leaving, RotationInv, TypeOK
    <3>2. collabSeat' = collabSeat
      BY <2>1 DEF ReleaseCollabEvent, RotationInv, TypeOK
    <3>3. collab' = collab /\ Counted(collab, collabSeat, "leaveCollab")
      BY DEF ReleaseCollabEvent, RotationInv, SeatsCounted
    <3> QED
      BY <3>1, <3>2, <3>3 DEF Counted
  <2>2. CASE collabSeat[s].held
    <3>1. Leaving("leaveCollab")' = Leaving("leaveCollab") \cup {s}
      BY <2>2 DEF ReleaseCollabEvent, Leaving, RotationInv, TypeOK
    <3>2. Holders(collabSeat') = Holders(collabSeat) \ {s} /\ s \in Holders(collabSeat)
      BY <2>2 DEF ReleaseCollabEvent, Holders, RotationInv, TypeOK
    <3>3. Leaving("leaveCollab") \in SUBSET Session /\ s \notin Leaving("leaveCollab")
      BY DEF ReleaseCollabEvent, Leaving
    <3>4. collab' = collab /\ Counted(collab, collabSeat, "leaveCollab")
      BY DEF ReleaseCollabEvent, RotationInv, SeatsCounted
    <3>5. collab.sessions = Cardinality(Holders(collabSeat')) + Cardinality(Leaving("leaveCollab")')
      BY <3>1, <3>2, <3>3, <3>4, GiveBack DEF Counted
    <3> QED
      BY <3>4, <3>5 DEF Counted
  <2> QED
    BY <2>1, <2>2
<1>4. Counted(mezfes, mezfesSeat, "leaveMezFes")'
  <2>1. UNCHANGED <<mezfes, mezfesSeat>> /\ Counted(mezfes, mezfesSeat, "leaveMezFes")
    BY DEF ReleaseCollabEvent, RotationInv, SeatsCounted
  <2> QED
    BY <1>1, <2>1 DEF Counted
<1>5. SeatsShareTheDraw'
  BY DEF ReleaseCollabEvent, SeatsShareTheDraw, RotationInv, TypeOK
<1>6. CleanupIsFinal'
  BY DEF ReleaseCollabEvent, CleanupIsFinal, RotationInv, TypeOK
<1> QED
  BY <1>2, <1>3, <1>4, <1>5, <1>6 DEF RotationInv, SeatsCounted

\* ReleaseMezFesMinigame: the same for MezFes.
LEMMA GivesMezFes ==
    ASSUME RotationInv, NEW s \in Session, ReleaseMezFesMinigame(s)
    PROVE  RotationInv'
<1>1. Leaving("leaveCollab")' = Leaving("leaveCollab")
  BY DEF ReleaseMezFesMinigame, Leaving, RotationInv, TypeOK
<1>2. TypeOK'
  <2>1. mezfesSeat' \in [Session -> Seat(Minigame)]
    BY DEF ReleaseMezFesMinigame, RotationInv, TypeOK
  <2> QED
    BY <2>1 DEF ReleaseMezFesMinigame, RotationInv, TypeOK
<1>3. Counted(mezfes, mezfesSeat, "leaveMezFes")'
  <2>1. CASE ~mezfesSeat[s].held
    <3>1. Leaving("leaveMezFes")' = Leaving("leaveMezFes")
      BY <2>1 DEF ReleaseMezFesMinigame, Leaving, RotationInv, TypeOK
    <3>2. mezfesSeat' = mezfesSeat
      BY <2>1 DEF ReleaseMezFesMinigame, RotationInv, TypeOK
    <3>3. mezfes' = mezfes /\ Counted(mezfes, mezfesSeat, "leaveMezFes")
      BY DEF ReleaseMezFesMinigame, RotationInv, SeatsCounted
    <3> QED
      BY <3>1, <3>2, <3>3 DEF Counted
  <2>2. CASE mezfesSeat[s].held
    <3>1. Leaving("leaveMezFes")' = Leaving("leaveMezFes") \cup {s}
      BY <2>2 DEF ReleaseMezFesMinigame, Leaving, RotationInv, TypeOK
    <3>2. Holders(mezfesSeat') = Holders(mezfesSeat) \ {s} /\ s \in Holders(mezfesSeat)
      BY <2>2 DEF ReleaseMezFesMinigame, Holders, RotationInv, TypeOK
    <3>3. Leaving("leaveMezFes") \in SUBSET Session /\ s \notin Leaving("leaveMezFes")
      BY DEF ReleaseMezFesMinigame, Leaving
    <3>4. mezfes' = mezfes /\ Counted(mezfes, mezfesSeat, "leaveMezFes")
      BY DEF ReleaseMezFesMinigame, RotationInv, SeatsCounted
    <3>5. mezfes.sessions = Cardinality(Holders(mezfesSeat')) + Cardinality(Leaving("leaveMezFes")')
      BY <3>1, <3>2, <3>3, <3>4, GiveBack DEF Counted
    <3> QED
      BY <3>4, <3>5 DEF Counted
  <2> QED
    BY <2>1, <2>2
<1>4. Counted(collab, collabSeat, "leaveCollab")'
  <2>1. UNCHANGED <<collab, collabSeat>> /\ Counted(collab, collabSeat, "leaveCollab")
    BY DEF ReleaseMezFesMinigame, RotationInv, SeatsCounted
  <2> QED
    BY <1>1, <2>1 DEF Counted
<1>5. SeatsShareTheDraw'
  BY DEF ReleaseMezFesMinigame, SeatsShareTheDraw, RotationInv, TypeOK
<1>6. CleanupIsFinal'
  BY DEF ReleaseMezFesMinigame, CleanupIsFinal, RotationInv, TypeOK
<1> QED
  BY <1>2, <1>3, <1>4, <1>5, <1>6 DEF RotationInv, SeatsCounted

\* LeaveCollab: the draw is cleared only when nobody holds a seat.
LEMMA LeavesCollab ==
    ASSUME RotationInv, NEW s \in Session, LeaveCollab(s)
    PROVE  RotationInv'
<1>1. Leaving("leaveMezFes")' = Leaving("leaveMezFes")
  BY DEF LeaveCollab, Leaving, RotationInv, TypeOK
<1>2. /\ collab'.sessions = Cardinality(Holders(collabSeat)) + Cardinality(Leaving("leaveCollab")')
      /\ collab'.sessions = 0 => collab'.active = None
      /\ collab'.sessions \in Nat
      /\ collab'.active # collab.active => Holders(collabSeat) = {}
  <2>1. Leaving("leaveCollab")' = Leaving("leaveCollab") \ {s}
    BY DEF LeaveCollab, Leaving, RotationInv, TypeOK
  <2>2. Leaving("leaveCollab") \in SUBSET Session /\ s \in Leaving("leaveCollab")
    BY DEF LeaveCollab, Leaving
  <2>3. collab' = Release(collab)
        /\ collab.sessions = Cardinality(Holders(collabSeat)) + Cardinality(Leaving("leaveCollab"))
    BY DEF LeaveCollab, RotationInv, SeatsCounted, Counted
  <2> QED
    BY <2>1, <2>2, <2>3, LeaveRotation, SMTT(40)
<1>3. collabSeat' = collabSeat
  BY DEF LeaveCollab
<1>4. TypeOK'
  <2>1. collab' \in [active: CollabEvent \cup {None}, sessions: Nat]
    BY <1>2 DEF LeaveCollab, Release, RotationInv, TypeOK
  <2> QED
    BY <2>1 DEF LeaveCollab, RotationInv, TypeOK
<1>5. Counted(collab, collabSeat, "leaveCollab")'
  BY <1>2, <1>3 DEF Counted
<1>6. Counted(mezfes, mezfesSeat, "leaveMezFes")'
  <2>1. UNCHANGED <<mezfes, mezfesSeat>> /\ Counted(mezfes, mezfesSeat, "leaveMezFes")
    BY DEF LeaveCollab, RotationInv, SeatsCounted
  <2> QED
    BY <1>1, <2>1 DEF Counted
<1>7. SeatsShareTheDraw'
  BY <1>2, <1>3 DEF LeaveCollab, SeatsShareTheDraw, Holders, RotationInv
<1>8. CleanupIsFinal'
  BY DEF LeaveCollab, CleanupIsFinal, RotationInv, TypeOK
<1> QED
  BY <1>4, <1>5, <1>6, <1>7, <1>8 DEF RotationInv, SeatsCounted

\* LeaveMezFes: the same for MezFes.
LEMMA LeavesMezFes ==
    ASSUME RotationInv, NEW s \in Session, LeaveMezFes(s)
    PROVE  RotationInv'
<1>1. Leaving("leaveCollab")' = Leaving("leaveCollab")
  BY DEF LeaveMezFes, Leaving, RotationInv, TypeOK
<1>2. /\ mezfes'.sessions = Cardinality(Holders(mezfesSeat)) + Cardinality(Leaving("leaveMezFes")')
      /\ mezfes'.sessions = 0 => mezfes'.active = None
      /\ mezfes'.sessions \in Nat
      /\ mezfes'.active # mezfes.active => Holders(mezfesSeat) = {}
  <2>1. Leaving("leaveMezFes")' = Leaving("leaveMezFes") \ {s}
    BY DEF LeaveMezFes, Leaving, RotationInv, TypeOK
  <2>2. Leaving("leaveMezFes") \in SUBSET Session /\ s \in Leaving("leaveMezFes")
    BY DEF LeaveMezFes, Leaving
  <2>3. mezfes' = Release(mezfes)
        /\ mezfes.sessions = Cardinality(Holders(mezfesSeat)) + Cardinality(Leaving("leaveMezFes"))
    BY DEF LeaveMezFes, RotationInv, SeatsCounted, Counted
  <2> QED
    BY <2>1, <2>2, <2>3, LeaveRotation
<1>3. mezfesSeat' = mezfesSeat
  BY DEF LeaveMezFes
<1>4. TypeOK'
  <2>1. mezfes' \in [active: Minigame \cup {None}, sessions: Nat]
    BY <1>2 DEF LeaveMezFes, Release, RotationInv, TypeOK
  <2> QED
    BY <2>1 DEF LeaveMezFes, RotationInv, TypeOK
<1>5. Counted(mezfes, mezfesSeat, "leaveMezFes")'
  BY <1>2, <1>3 DEF Counted
<1>6. Counted(collab, collabSeat, "leaveCollab")'
  <2>1. UNCHANGED <<collab, collabSeat>> /\ Counted(collab, collabSeat, "leaveCollab")
    BY DEF LeaveMezFes, RotationInv, SeatsCounted
  <2> QED
    BY <1>1, <2>1 DEF Counted
<1>7. SeatsShareTheDraw'
  BY <1>2, <1>3 DEF LeaveMezFes, SeatsShareTheDraw, Holders, RotationInv
<1>8. CleanupIsFinal'
  BY DEF LeaveMezFes, CleanupIsFinal, RotationInv, TypeOK
<1> QED
  BY <1>4, <1>5, <1>6, <1>7, <1>8 DEF RotationInv, SeatsCounted

\* The other steps touch neither rotation.
LEMMA OtherSteps ==
    ASSUME RotationInv, NEW s \in Session, StartLogin(s) \/ MarkClosed(s) \/ StartCleanup(s)
    PROVE  RotationInv'
<1>1. UNCHANGED <<collab, mezfes, collabSeat, mezfesSeat>>
  BY DEF StartLogin, MarkClosed, StartCleanup
<1>2. Leaving("leaveCollab")' = Leaving("leaveCollab")
      /\ Leaving("leaveMezFes")' = Leaving("leaveMezFes")
  BY DEF StartLogin, MarkClosed, StartCleanup, Leaving, RotationInv, TypeOK
<1>3. SeatsCounted' /\ SeatsShareTheDraw'
  BY <1>1, <1>2, SameBooks
<1>4. TypeOK'
  BY Zenon DEF StartLogin, MarkClosed, StartCleanup, RotationInv, TypeOK
<1>5. CleanupIsFinal'
  BY DEF StartLogin, MarkClosed, StartCleanup, CleanupIsFinal, RotationInv, TypeOK
<1> QED
  BY <1>3, <1>4, <1>5 DEF RotationInv

\* Every step keeps the books.
LEMMA StepInv == RotationInv /\ [Next]_vars => RotationInv'
<1> SUFFICES ASSUME RotationInv, [Next]_vars PROVE RotationInv'
  OBVIOUS
<1>1. CASE UNCHANGED vars
  <2>1. Leaving("leaveCollab")' = Leaving("leaveCollab")
        /\ Leaving("leaveMezFes")' = Leaving("leaveMezFes")
    BY <1>1 DEF vars, Leaving
  <2>2. SeatsCounted' /\ SeatsShareTheDraw'
    BY <1>1, <2>1, SameBooks DEF vars
  <2>3. TypeOK' /\ CleanupIsFinal'
    BY <1>1 DEF vars, TypeOK, CleanupIsFinal, RotationInv
  <2> QED
    BY <2>2, <2>3 DEF RotationInv
<1>2. ASSUME NEW s \in Session, Handle(s) \/ MarkClosed(s) \/ Cleanup(s)
      PROVE RotationInv'
  BY <1>2, TakesCollab, TakesMezFes, GivesCollab, GivesMezFes, LeavesCollab, LeavesMezFes,
     OtherSteps DEF Handle, Cleanup
<1> QED
  BY <1>1, <1>2 DEF Next

\* However many players log in, log in again and leave, in whatever order the two
\* goroutines of a session run, the counters of the rotations are right.
THEOREM RotationInvariance == Spec => []RotationInv
  BY InitInv, StepInv, PTL DEF Spec

\* Every player of a world sees the same collaboration and the same minigame.
THEOREM OneDraw == Spec => []SeatsShareTheDraw
<1>1. RotationInv => SeatsShareTheDraw
  BY DEF RotationInv
<1> QED
  BY <1>1, RotationInvariance, PTL

\* A step that draws does so in a world where nobody is counted.
LEMMA DrawStep ==
    RotationInv /\ [Next]_vars =>
        [/\ collab.active # None /\ collab'.active # None
              => collab'.active = collab.active
         /\ mezfes.active # None /\ mezfes'.active # None
              => mezfes'.active = mezfes.active]_vars
<1> SUFFICES ASSUME RotationInv, NEW s \in Session,
                    Handle(s) \/ MarkClosed(s) \/ Cleanup(s)
             PROVE  /\ collab.active # None /\ collab'.active # None
                         => collab'.active = collab.active
                    /\ mezfes.active # None /\ mezfes'.active # None
                         => mezfes'.active = mezfes.active
  BY DEF Next
<1>1. /\ collab.sessions = 0 => collab.active = None
      /\ mezfes.sessions = 0 => mezfes.active = None
  BY DEF RotationInv, SeatsCounted, Counted
<1>2. CASE AcquireCollabEvent(s)
  BY <1>1, <1>2 DEF AcquireCollabEvent, Acquire
<1>3. CASE AcquireMezFesMinigame(s)
  BY <1>1, <1>3 DEF AcquireMezFesMinigame, Acquire
<1>4. CASE LeaveCollab(s)
  BY <1>4 DEF LeaveCollab, Release
<1>5. CASE LeaveMezFes(s)
  BY <1>5 DEF LeaveMezFes, Release
<1>6. CASE UNCHANGED <<collab, mezfes>>
  BY <1>6
<1> QED
  BY <1>2, <1>3, <1>4, <1>5, <1>6
     DEF Handle, Cleanup, StartLogin, StartCleanup, MarkClosed, ReleaseCollabEvent,
         ReleaseMezFesMinigame

\* No player's event or game is exchanged while the world is occupied.
THEOREM DrawIsStable == Spec => DrawStableWhileOccupied
<1>1. RotationInv /\ [Next]_vars =>
        [/\ collab.active # None /\ collab'.active # None
              => collab'.active = collab.active
         /\ mezfes.active # None /\ mezfes'.active # None
              => mezfes'.active = mezfes.active]_vars
  BY DrawStep
<1> QED
  BY <1>1, RotationInvariance, PTL DEF Spec, DrawStableWhileOccupied

\* When the last session of the world is gone, so is the minigame.
THEOREM MezFesCleared == Spec => []MezFesClearedWhenEmpty
<1>1. RotationInv => MezFesClearedWhenEmpty
  <2> SUFFICES ASSUME RotationInv, \A s \in Session : cleanup[s] = "gone"
               PROVE  mezfes = [active |-> None, sessions |-> 0]
    BY DEF MezFesClearedWhenEmpty
  <2>1. Holders(mezfesSeat) = {} /\ Leaving("leaveMezFes") = {}
    BY DEF RotationInv, CleanupIsFinal, Holders, Leaving
  <2>2. Cardinality({}) = 0
    BY FS_EmptySet
  <2>3. Counted(mezfes, mezfesSeat, "leaveMezFes")
    BY DEF RotationInv, SeatsCounted
  <2>4. mezfes.sessions = 0 /\ mezfes.active = None
    BY <2>1, <2>2, <2>3 DEF Counted
  <2>5. mezfes \in [active: Minigame \cup {None}, sessions: Nat]
    BY DEF RotationInv, TypeOK
  <2> QED
    BY <2>4, <2>5
<1> QED
  BY <1>1, RotationInvariance, PTL

\* Without a late seat, what the collaboration's release has given back stays so.
LEMMA GivenBackStep ==
    ASSUME TypeOK, TypeOK', CollabGivenBack, [Next]_vars,
           [\A s \in Session : ~collabSeat[s].held /\ collabSeat'[s].held
              => cleanup[s] \in {"none", "releaseCollab"}]_vars
    PROVE  CollabGivenBack'
<1>1. CASE UNCHANGED vars
  BY <1>1 DEF vars, CollabGivenBack
<1>2. ASSUME ~UNCHANGED vars,
             NEW s \in Session, Handle(s) \/ MarkClosed(s) \/ Cleanup(s)
      PROVE CollabGivenBack'
  <2>1. CASE AcquireCollabEvent(s)
    <3>1. cleanup' = cleanup
      BY <2>1 DEF AcquireCollabEvent
    <3> QED
      BY <1>2, <3>1 DEF CollabGivenBack
  <2>2. CASE ReleaseCollabEvent(s)
    <3>1. ~collabSeat'[s].held
      BY <2>2 DEF ReleaseCollabEvent, TypeOK
    <3>2. \A t \in Session \ {s} : collabSeat'[t] = collabSeat[t] /\ cleanup'[t] = cleanup[t]
      BY <2>2 DEF ReleaseCollabEvent, TypeOK
    <3> QED
      BY <3>1, <3>2 DEF CollabGivenBack
  <2>3. CASE \/ StartLogin(s) \/ AcquireMezFesMinigame(s) \/ MarkClosed(s)
             \/ StartCleanup(s) \/ LeaveCollab(s) \/ ReleaseMezFesMinigame(s)
             \/ LeaveMezFes(s)
    <3>1. collabSeat' = collabSeat
      BY <2>3 DEF StartLogin, AcquireMezFesMinigame, MarkClosed, StartCleanup, LeaveCollab,
                  ReleaseMezFesMinigame, LeaveMezFes
    <3>2. \A t \in Session : \/ cleanup'[t] = cleanup[t]
                              \/ cleanup'[t] = "releaseCollab"
                              \/ cleanup[t] \in {"leaveCollab", "releaseMezFes", "leaveMezFes"}
      BY <2>3 DEF StartLogin, AcquireMezFesMinigame, MarkClosed, StartCleanup, LeaveCollab,
                  ReleaseMezFesMinigame, LeaveMezFes, TypeOK
    <3> QED
      BY <3>1, <3>2 DEF CollabGivenBack
  <2> QED
    BY <1>2, <2>1, <2>2, <2>3 DEF Handle, Cleanup
<1> QED
  BY <1>1, <1>2 DEF Next

\* An empty world has no holder and nobody on the way out, so its counter is 0.
LEMMA EmptyWorld ==
    ASSUME RotationInv, CollabGivenBack
    PROVE  CollabClearedWhenEmpty
<1> SUFFICES ASSUME \A s \in Session : cleanup[s] = "gone"
             PROVE  collab = [active |-> None, sessions |-> 0]
  BY DEF CollabClearedWhenEmpty
<1>1. Holders(collabSeat) = {} /\ Leaving("leaveCollab") = {}
  BY DEF CollabGivenBack, Holders, Leaving
<1>2. Cardinality({}) = 0
  BY FS_EmptySet
<1>3. Counted(collab, collabSeat, "leaveCollab")
  BY DEF RotationInv, SeatsCounted
<1>4. collab.sessions = 0 /\ collab.active = None
  BY <1>1, <1>2, <1>3 DEF Counted
<1>5. collab \in [active: CollabEvent \cup {None}, sessions: Nat]
  BY DEF RotationInv, TypeOK
<1> QED
  BY <1>4, <1>5

\* The collaboration survives its world only by a login that takes its seat after
\* the cleanup of its session: rule that one step out and the docs are right.
THEOREM OnlyALateSeatStays == Spec /\ NoLateSeat => []CollabClearedWhenEmpty
<1>1. Init => CollabGivenBack
  BY DEF Init, CollabGivenBack
<1>2. /\ RotationInv /\ RotationInv' /\ CollabGivenBack /\ [Next]_vars
      /\ [\A s \in Session : ~collabSeat[s].held /\ collabSeat'[s].held
            => cleanup[s] \in {"none", "releaseCollab"}]_vars
      => CollabGivenBack'
  BY GivenBackStep DEF RotationInv
<1>3. RotationInv /\ CollabGivenBack => CollabClearedWhenEmpty
  BY EmptyWorld
<1> QED
  BY <1>1, <1>2, <1>3, RotationInvariance, PTL DEF Spec, NoLateSeat
=============================================================================

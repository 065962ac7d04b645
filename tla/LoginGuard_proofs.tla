-------------------------- MODULE LoginGuard_proofs --------------------------
(* Proofs about LoginGuard: for any number of sessions, channels, characters *)
(* and users, the guard never lets two characters of one user play at once.  *)
(*                                                                           *)
(* OneCharacterPerAccount is not inductive: it does not say why the second   *)
(* of two racing logins sees the first.  RivalsNoticed does: a session       *)
(* publishes its character and user before it looks, so of two rivals the    *)
(* one that looked later found the other.                                    *)
EXTENDS LoginGuard, TLAPS

\* The fields of every session start empty.
LEMMA InitIInv == Init => IInv
  BY LoginAssumption
     DEF Init, IInv, TypeOK, Identity, RivalsNoticed, Published, Pc, Scanning

\* Every step keeps the types of the session fields and the handler's locals.
LEMMA TypesInv == ASSUME TypeOK, Identity, [Next]_vars PROVE TypeOK'
<1> USE LoginAssumption DEF TypeOK, Pc, Scanning
<1>1. CASE UNCHANGED vars
  BY <1>1 DEF vars, status, fields, locals
<1>2. ASSUME NEW s \in Session, Register(s) PROVE TypeOK'
  BY <1>2 DEF Register, Goto, fields, locals
<1>3. ASSUME NEW s \in Session, Receive(s) PROVE TypeOK'
  BY <1>3 DEF Receive, Goto, status, fields, locals
<1>4. ASSUME NEW s \in Session, NextPacket(s) PROVE TypeOK'
  BY <1>4 DEF NextPacket, Goto, status, fields, locals
<1>5. ASSUME NEW s \in Session, Check(s) PROVE TypeOK'
  <2>1. closed' \in [Session -> BOOLEAN]
    BY <1>5, Zenon DEF Check
  <2>2. asks' \in [Session -> Char \cup {Nobody}]
    BY <1>5 DEF Check
  <2>3. pc' \in [Session -> Pc]
    BY <1>5 DEF Check, Goto
  <2> QED
    BY <1>5, <2>1, <2>2, <2>3 DEF Check, fields
<1>6. ASSUME NEW s \in Session, Bind(s) PROVE TypeOK'
  BY <1>6 DEF Bind, Goto, status, locals
<1>7. ASSUME NEW s \in Session, Resolve(s) PROVE TypeOK'
  <2>1. userID' \in [Session -> User \cup {Nobody}]
    <3>1. owner[charID[s]] \in User
      BY <1>7 DEF Resolve, Identity
    <3> QED
      BY <1>7, <3>1 DEF Resolve
  <2>2. todo' \in [Session -> SUBSET Channel]
    BY <1>7, SMTT(40) DEF Resolve, Asked
  <2>3. found' \in [Session -> SUBSET Session]
    BY <1>7 DEF Resolve
  <2>4. pc' \in [Session -> Pc]
    BY <1>7 DEF Resolve, Goto
  <2> QED
    BY <1>7, <2>1, <2>2, <2>3, <2>4 DEF Resolve, status
<1>8. ASSUME NEW s \in Session, Collect(s) PROVE TypeOK'
  <2>1. todo' \in [Session -> SUBSET Channel]
    BY <1>8 DEF Collect
  <2>2. found' \in [Session -> SUBSET Session]
    BY <1>8 DEF Collect
  <2>3. pc' \in [Session -> Pc]
    BY <1>8 DEF Collect, Goto
  <2> QED
    BY <1>8, <2>1, <2>2, <2>3 DEF Collect, status, fields
<1>9. ASSUME NEW s \in Session, Inspect(s) PROVE TypeOK'
  <2>1. found' \in [Session -> SUBSET Session]
    BY <1>9 DEF Inspect
  <2>2. other' \in [Session -> Session]
    BY <1>9 DEF Inspect
  <2>3. passed' \in [Session -> BOOLEAN]
    BY <1>9, Zenon DEF Inspect
  <2>4. pc' \in [Session -> Pc]
    BY <1>9 DEF Inspect, Goto
  <2> QED
    BY <1>9, <2>1, <2>2, <2>3, <2>4 DEF Inspect, status
<1>10. ASSUME NEW s \in Session, Compare(s) PROVE TypeOK'
  <2>1. found' \in [Session -> SUBSET Session]
    BY <1>10 DEF Compare
  <2>2. dropped' \in [Session -> BOOLEAN]
    BY <1>10, Zenon DEF Compare
  <2>3. pc' \in [Session -> Pc]
    BY <1>10 DEF Compare, Goto
  <2> QED
    BY <1>10, <2>1, <2>2, <2>3 DEF Compare, fields
<1>11. ASSUME NEW s \in Session, Close(s) PROVE TypeOK'
  BY <1>11 DEF Close, fields, locals
<1>12. ASSUME NEW s \in Session, Unregister(s) PROVE TypeOK'
  BY <1>12 DEF Unregister, fields, locals
<1> QED
  BY <1>1, <1>2, <1>3, <1>4, <1>5, <1>6, <1>7, <1>8, <1>9, <1>10, <1>11,
     <1>12 DEF Next, Login

\* Every step keeps the fields of a session those its login asked for.
LEMMA IdentityInv == ASSUME TypeOK, Identity, [Next]_vars PROVE Identity'
<1> USE LoginAssumption DEF TypeOK, Identity, Published, Pc, Scanning
<1>1. CASE UNCHANGED vars
  BY <1>1 DEF vars, status, fields, locals
<1>2. ASSUME NEW s \in Session, Register(s) PROVE Identity'
  BY <1>2 DEF Register, Goto, fields, locals
<1>3. ASSUME NEW s \in Session, Receive(s) PROVE Identity'
  BY <1>3 DEF Receive, Goto, status, fields, locals
<1>4. ASSUME NEW s \in Session, NextPacket(s) PROVE Identity'
  BY <1>4 DEF NextPacket, Goto, status, fields, locals
<1>5. ASSUME NEW s \in Session, Check(s) PROVE Identity'
  BY <1>5 DEF Check, Goto, fields
<1>6. ASSUME NEW s \in Session, Bind(s) PROVE Identity'
  BY <1>6 DEF Bind, Goto, status, locals
<1>7. ASSUME NEW s \in Session, Resolve(s) PROVE Identity'
  BY <1>7 DEF Resolve, Goto, status
<1>8. ASSUME NEW s \in Session, Collect(s) PROVE Identity'
  BY <1>8 DEF Collect, Goto, status, fields
<1>9. ASSUME NEW s \in Session, Inspect(s) PROVE Identity'
  BY <1>9 DEF Inspect, Goto, status
<1>10. ASSUME NEW s \in Session, Compare(s) PROVE Identity'
  BY <1>10 DEF Compare, Goto, fields
<1>11. ASSUME NEW s \in Session, Close(s) PROVE Identity'
  BY <1>11 DEF Close, fields, locals
<1>12. ASSUME NEW s \in Session, Unregister(s) PROVE Identity'
  BY <1>12 DEF Unregister, fields, locals
<1> QED
  BY <1>1, <1>2, <1>3, <1>4, <1>5, <1>6, <1>7, <1>8, <1>9, <1>10, <1>11,
     <1>12 DEF Next, Login

\* Every step keeps it so that one of two rivals has yet to look at the other:
\* collecting finds every open session that has published itself, a candidate
\* is dropped only if it is closed or no rival, and whoever publishes a new
\* character has everybody to look at.
LEMMA RivalsNoticedInv ==
  ASSUME TypeOK, Identity, RivalsNoticed, [Next]_vars
  PROVE  RivalsNoticed'
<1> USE LoginAssumption
    DEF TypeOK, RivalsNoticed, Rival, Cleared, Published, Pc, Scanning
<1>1. CASE UNCHANGED vars
  BY <1>1 DEF vars, status, fields, locals
<1>2. ASSUME NEW s \in Session, Register(s) PROVE RivalsNoticed'
  BY <1>2 DEF Register, Goto, fields, locals
<1>3. ASSUME NEW s \in Session, Receive(s) PROVE RivalsNoticed'
  BY <1>3 DEF Receive, Goto, status, fields, locals
<1>4. ASSUME NEW s \in Session, NextPacket(s) PROVE RivalsNoticed'
  BY <1>4 DEF NextPacket, Goto, status, fields, locals
<1>5. ASSUME NEW s \in Session, Check(s) PROVE RivalsNoticed'
  BY <1>5, SMTT(20) DEF Check, Goto, fields
<1>6. ASSUME NEW s \in Session, Bind(s) PROVE RivalsNoticed'
  BY <1>6 DEF Bind, Goto, status, locals
<1>7. ASSUME NEW s \in Session, Resolve(s) PROVE RivalsNoticed'
  BY <1>7 DEF Resolve, Goto, status, Identity, Asked
<1>8. ASSUME NEW s \in Session, Collect(s) PROVE RivalsNoticed'
  BY <1>8 DEF Collect, Goto, status, fields, Identity
<1>9. ASSUME NEW s \in Session, Inspect(s) PROVE RivalsNoticed'
  BY <1>9, SMTT(20) DEF Inspect, Goto, status, Identity
<1>10. ASSUME NEW s \in Session, Compare(s) PROVE RivalsNoticed'
  BY <1>10 DEF Compare, Goto, fields, Identity
<1>11. ASSUME NEW s \in Session, Close(s) PROVE RivalsNoticed'
  BY <1>11 DEF Close, fields, locals
<1>12. ASSUME NEW s \in Session, Unregister(s) PROVE RivalsNoticed'
  BY <1>12 DEF Unregister, fields, locals
<1> QED
  BY <1>1, <1>2, <1>3, <1>4, <1>5, <1>6, <1>7, <1>8, <1>9, <1>10, <1>11,
     <1>12 DEF Next, Login

\* IInv holds in every state of every execution of the login handlers.
THEOREM Invariance == Spec => []IInv
<1>1. Init => IInv
  BY InitIInv
<1>2. IInv /\ [Next]_vars => IInv'
  BY TypesInv, IdentityInv, RivalsNoticedInv DEF IInv
<1> QED
  BY <1>1, <1>2, PTL DEF Spec

\* The account guard of handleMsgSysLogin does what its comment says, however
\* logins on any of the channels race: two open sessions it has let in never
\* play different characters of one user.
THEOREM OneCharacter == Spec => []OneCharacterPerAccount
<1>1. IInv => OneCharacterPerAccount
  BY DEF IInv, Identity, RivalsNoticed, Rival, Cleared, Published,
         OneCharacterPerAccount
<1> QED
  BY <1>1, Invariance, PTL
=============================================================================

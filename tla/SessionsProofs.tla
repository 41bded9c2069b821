---------------------------- MODULE SessionsProofs ----------------------------
(***************************************************************************)
(* Sessions of any number of browsers, tabs and tokens, for any grace      *)
(* period: a session has one live token, and the sessions of the user are  *)
(* revoked only after a browser outlasted a grace period with its token.   *)
(*                                                                         *)
(* OneLiveToken needs that a session is named after a token that exists    *)
(* (OriginsOK): a new token then cannot join another session by its        *)
(* number.  NoUnprovokedRevocation needs what holds before a request finds *)
(* its token revoked: unless somebody was late, nobody has a token whose   *)
(* grace has ended and no request is old enough to end one (Prompt).       *)
(*                                                                         *)
(* RefusedForAReason and LogoutEndsSession follow the token of a call from *)
(* the store to its end.  The store of a browser without a fault has the   *)
(* head of a session, or another call of the browser is about to replace   *)
(* it (StoreOK); what a call may believe of its token is CallOK.  Both     *)
(* rest on calls of one browser that meet being marked (CallsOK), on a new *)
(* token being with one call only (FreshOK) and on no other browser having *)
(* a token of the same session (OwnersOK).                                 *)
(***************************************************************************)
EXTENDS Sessions, TLAPS

(* A session is named after a token that was issued; a token that was not  *)
(* issued is not revoked.                                                  *)
OriginsOK ==
  /\ \A t \in 1 .. issued : origin[t] \in 1 .. issued
  /\ \A t \in Tokens \ (1 .. issued) : revokedAt[t] = NULL

(* Whoever has a token whose grace has ended was late with it.  A request  *)
(* for a refresh has a token.                                              *)
Prompt ==
  late \/ /\ \A t \in 1 .. issued : revokedAt[t] # NULL =>
               \/ clock - revokedAt[t] <= Grace
               \/ /\ \A b \in Browsers : store[b] # t
                  /\ \A tab \in Tabs : held[tab] # t
          /\ \A tab \in Tabs : pc[tab] \in {"rotate", "revoke"} =>
               clock - now[tab] <= Grace
          /\ \A tab \in Tabs : pc[tab] \in {"arrive", "rotate", "find"} =>
               held[tab] # None

IndInv == TypeOK /\ OriginsOK /\ OneLiveToken /\ Prompt /\ NoUnprovokedRevocation

USE DEF None, NULL, Tokens, Goto, Hold, SetStore, PCs, revokeVars

(* Initially there are no tokens.                                          *)
LEMMA IndInit == Init => IndInv
<1> SUFFICES ASSUME Init PROVE IndInv
  OBVIOUS
<1> USE SessionAssumption DEF Init
<1>1. TypeOK
  <2>1. account \in BOOLEAN /\ late \in BOOLEAN
    BY Zenon
  <2>2. issued \in 0 .. MaxTokens /\ origin \in [Tokens -> 0 .. MaxTokens]
    OBVIOUS
  <2>3. clock \in 0 .. MaxClock /\ revokedAt \in [Tokens -> NULL .. clock]
    OBVIOUS
  <2>4. /\ store \in [Browsers -> 0 .. issued] /\ held \in [Tabs -> 0 .. issued]
        /\ pc \in [Tabs -> PCs] /\ now \in [Tabs -> 0 .. clock]
    OBVIOUS
  <2>5. doomed \in [Tabs -> SUBSET (1 .. issued)]
    OBVIOUS
  <2>6. swept \subseteq 1 .. issued /\ taken \in [Browsers -> SUBSET (1 .. issued)]
    OBVIOUS
  <2> QED
    BY <2>1, <2>2, <2>3, <2>4, <2>5, <2>6 DEF TypeOK
<1>2. OriginsOK
  BY DEF OriginsOK
<1>3. live = {}
  BY DEF live
<1>4. OneLiveToken
  BY <1>3 DEF OneLiveToken
<1>5. Prompt
  BY DEF Prompt
<1>6. NoUnprovokedRevocation
  BY DEF NoUnprovokedRevocation
<1> QED
  BY <1>1, <1>2, <1>4, <1>5, <1>6 DEF IndInv

(* The number of a new token is the next one.                              *)
LEMMA InsertType ==
  ASSUME TypeOK, NEW o \in Tokens, Insert(issued + 1, o)
  PROVE  /\ issued \in Nat /\ issued' = issued + 1 /\ issued' \in 0 .. MaxTokens
         /\ origin' \in [Tokens -> 0 .. MaxTokens]
         /\ 1 .. issued \subseteq 1 .. issued' /\ 0 .. issued \subseteq 0 .. issued'
         /\ origin'[issued + 1] = o
         /\ \A t \in 1 .. issued : t \in Tokens /\ origin'[t] = origin[t]
<1> USE SessionAssumption
<1>1. issued \in Nat /\ issued' = issued + 1 /\ issued + 1 \in Tokens
  BY DEF TypeOK, Insert
<1> QED
  BY <1>1 DEF TypeOK, Insert

(* The types of what a new token does not change.                          *)
LEMMA GrowType ==
  ASSUME TypeOK, issued \in Nat, issued' = issued + 1,
         1 .. issued \subseteq 1 .. issued', 0 .. issued \subseteq 0 .. issued'
  PROVE  /\ expired \subseteq 1 .. issued'
         /\ store \in [Browsers -> 0 .. issued']
         /\ held \in [Tabs -> 0 .. issued']
         /\ doomed \in [Tabs -> SUBSET (1 .. issued')]
         /\ swept \subseteq 1 .. issued'
         /\ taken \in [Browsers -> SUBSET (1 .. issued')]
<1>1. \A tab \in Tabs : doomed[tab] \subseteq 1 .. issued'
  BY DEF TypeOK
<1>2. doomed \in [Tabs -> SUBSET (1 .. issued')]
  BY <1>1 DEF TypeOK
<1>3. \A b \in Browsers : taken[b] \subseteq 1 .. issued'
  BY DEF TypeOK
<1>4. taken \in [Browsers -> SUBSET (1 .. issued')]
  BY <1>3 DEF TypeOK
<1> QED
  BY <1>2, <1>4 DEF TypeOK

(* A token is taken by the call that has it.                               *)
LEMMA TakeType ==
  ASSUME TypeOK, NEW tab \in Tabs, Take(tab),
         1 .. issued \subseteq 1 .. issued'
  PROVE  /\ taken' \in [Browsers -> SUBSET (1 .. issued')]
         /\ held[tab] \in live => held[tab] \in taken'[Home[tab]]
         /\ \A b \in Browsers : taken[b] \subseteq taken'[b]
<1>1. Home[tab] \in Browsers /\ taken \in [Browsers -> SUBSET (1 .. issued)]
  BY SessionAssumption DEF TypeOK
<1>2. \A b \in Browsers :
        taken'[b] = IF b = Home[tab] THEN taken[b] \cup ({held[tab]} \cap live)
                    ELSE taken[b]
  BY <1>1 DEF Take
<1>3. DOMAIN taken' = Browsers /\ taken' = [b \in Browsers |-> taken'[b]]
  BY <1>1 DEF Take
<1>4. live \subseteq 1 .. issued
  BY DEF live
<1>5. \A b \in Browsers : taken'[b] \subseteq 1 .. issued'
  BY <1>1, <1>2, <1>4
<1> QED
  BY <1>1, <1>2, <1>3, <1>5

(* A rotation keeps the types of the tokens.                               *)
LEMMA RotatedType ==
  ASSUME TypeOK, NEW tab \in Tabs, Rotated(tab), clock' = clock,
         OriginsOK
  PROVE  /\ held[tab] \in live /\ origin[held[tab]] \in Tokens
         /\ Insert(issued + 1, origin[held[tab]])
         /\ revokedAt' \in [Tokens -> NULL .. clock']
         /\ Take(tab) /\ swept' = swept
<1>1. held[tab] \in live /\ held[tab] \in 1 .. issued
  BY DEF Rotated, Rotatable, live
<1>2. held[tab] \in Tokens /\ origin[held[tab]] \in Tokens
  BY <1>1, SessionAssumption DEF TypeOK, OriginsOK
<1>3. now[tab] \in NULL .. clock
  BY DEF TypeOK
<1> QED
  BY <1>1, <1>2, <1>3 DEF Rotated, TypeOK

(* A request that ends leaves nothing behind.                              *)
LEMMA ForgetType ==
  ASSUME TypeOK, NEW tab \in Tabs, Forget(tab), clock' = clock
  PROVE  now' \in [Tabs -> 0 .. clock']
<1>1. 0 \in 0 .. clock'
  BY SessionAssumption DEF TypeOK
<1> QED
  BY <1>1 DEF TypeOK, Forget

(* A finished call leaves a tab without token, time and list of victims.   *)
LEMMA EndType ==
  ASSUME TypeOK, NEW tab \in Tabs, End(tab), clock' = clock, issued' = issued
  PROVE  /\ pc' \in [Tabs -> PCs]
         /\ held' \in [Tabs -> 0 .. issued']
         /\ now' \in [Tabs -> 0 .. clock'] /\ dated' \subseteq Tabs
         /\ doomed' \in [Tabs -> SUBSET (1 .. issued')]
         /\ overlapped' \subseteq Tabs
<1>1. now' \in [Tabs -> 0 .. clock']
  BY ForgetType DEF End
<1>2. 0 \in 0 .. issued'
  BY SessionAssumption DEF TypeOK
<1> QED
  BY <1>1, <1>2 DEF TypeOK, End

(* A call that begins counts as overlapping with those in flight.          *)
LEMMA BeginType ==
  ASSUME TypeOK, NEW tab \in Tabs, NEW l \in PCs, Begin(tab, l)
  PROVE  pc' \in [Tabs -> PCs] /\ overlapped' \subseteq Tabs
<1>1. Busy(Home[tab]) \subseteq Tabs
  BY DEF Busy
<1> QED
  BY <1>1 DEF TypeOK, Begin

(* A fault is charged to the browser it hits.                              *)
LEMMA FaultType ==
  ASSUME TypeOK, NEW tab \in Tabs, Fault(tab)
  PROVE  faulted' \subseteq Browsers /\ faults' \in 0 .. MaxFaults
  BY SessionAssumption DEF TypeOK, Fault

(* A tab reads a time that has come.                                       *)
LEMMA ReadClockType ==
  ASSUME TypeOK, NEW tab \in Tabs, ReadClock(tab), clock' = clock
  PROVE  now' \in [Tabs -> 0 .. clock']
<1>1. clock \in 0 .. clock'
  BY SessionAssumption DEF TypeOK
<1> QED
  BY <1>1 DEF TypeOK, ReadClock

(* Every action keeps the types.                                           *)
LEMMA TypeStep == TypeOK /\ OriginsOK /\ [Next]_vars => TypeOK'
<1> SUFFICES ASSUME TypeOK, OriginsOK, [Next]_vars PROVE TypeOK'
  OBVIOUS
<1> USE SessionAssumption DEF TypeOK, tokenVars, clockVars, readVars, faultVars
<1>1. ASSUME NEW tab \in Tabs, Register(tab) PROVE TypeOK'
  <2>1. pc' \in [Tabs -> PCs] /\ overlapped' \subseteq Tabs
    BY <1>1, BeginType DEF Register
  <2> QED
    BY <1>1, <2>1 DEF Register, Begin
<1>2. ASSUME NEW tab \in Tabs, CreateUser(tab) PROVE TypeOK'
  BY <1>2 DEF CreateUser
<1>3. ASSUME NEW tab \in Tabs, Login(tab) PROVE TypeOK'
  <2>1. pc' \in [Tabs -> PCs] /\ overlapped' \subseteq Tabs
    BY <1>3, BeginType DEF Login
  <2> QED
    BY <1>3, <2>1 DEF Login, Begin
<1>4. ASSUME NEW tab \in Tabs, IssuePair(tab) PROVE TypeOK'
  <2>1. issued + 1 \in Tokens /\ Insert(issued + 1, issued + 1)
    BY <1>4 DEF IssuePair, Insert
  <2>2. /\ issued \in Nat /\ issued' = issued + 1 /\ issued' \in 0 .. MaxTokens
        /\ origin' \in [Tokens -> 0 .. MaxTokens]
        /\ 1 .. issued \subseteq 1 .. issued' /\ 0 .. issued \subseteq 0 .. issued'
    BY <2>1, InsertType
  <2>3. issued + 1 \in 0 .. issued'
    BY <2>2
  <2> HIDE DEF TypeOK
  <2>4. /\ expired \subseteq 1 .. issued'
        /\ store \in [Browsers -> 0 .. issued']
        /\ held \in [Tabs -> 0 .. issued']
        /\ doomed \in [Tabs -> SUBSET (1 .. issued')]
        /\ swept \subseteq 1 .. issued'
        /\ taken \in [Browsers -> SUBSET (1 .. issued')]
    BY <2>2, GrowType
  <2> QED
    BY <1>4, <2>2, <2>3, <2>4 DEF IssuePair, TypeOK
<1>5. ASSUME NEW tab \in Tabs, RefreshAccess(tab) PROVE TypeOK'
  <2>1. pc' \in [Tabs -> PCs] /\ overlapped' \subseteq Tabs
    BY <1>5, BeginType DEF RefreshAccess
  <2> QED
    BY <1>5, <2>1 DEF RefreshAccess, Begin
<1>6. ASSUME NEW tab \in Tabs, Refresh(tab) PROVE TypeOK'
  <2>1. ReadClock(tab) /\ clock' = clock
    BY <1>6 DEF Refresh
  <2>2. now' \in [Tabs -> 0 .. clock'] /\ dated' \subseteq Tabs
    BY <1>6, <2>1, ReadClockType DEF Refresh
  <2>3. pc' \in [Tabs -> PCs]
    BY <1>6 DEF Refresh
  <2> QED
    BY <1>6, <2>2, <2>3 DEF Refresh
<1>7. ASSUME NEW tab \in Tabs, Rotate(tab) PROVE TypeOK'
  <2>1. Rotated(tab) /\ clock' = clock
    BY <1>7 DEF Rotate
  <2>2. /\ origin[held[tab]] \in Tokens /\ Insert(issued + 1, origin[held[tab]])
        /\ revokedAt' \in [Tokens -> NULL .. clock']
        /\ Take(tab) /\ swept' = swept
    BY <2>1, RotatedType
  <2>3. /\ issued \in Nat /\ issued' = issued + 1 /\ issued' \in 0 .. MaxTokens
        /\ origin' \in [Tokens -> 0 .. MaxTokens]
        /\ 1 .. issued \subseteq 1 .. issued' /\ 0 .. issued \subseteq 0 .. issued'
    BY <2>2, InsertType
  <2>4. issued + 1 \in 0 .. issued'
    BY <2>3
  <2> HIDE DEF TypeOK
  <2>5. /\ expired \subseteq 1 .. issued'
        /\ store \in [Browsers -> 0 .. issued']
        /\ held \in [Tabs -> 0 .. issued']
        /\ doomed \in [Tabs -> SUBSET (1 .. issued')]
        /\ swept \subseteq 1 .. issued'
    BY <2>3, GrowType
  <2>6. taken' \in [Browsers -> SUBSET (1 .. issued')]
    BY <2>2, <2>3, TakeType
  <2> QED
    <3>1. Forget(tab)
      BY <1>7 DEF Rotate
    <3>2. now' \in [Tabs -> 0 .. clock']
      BY <2>1, <3>1, ForgetType
    <3>3. pc' \in [Tabs -> PCs] /\ held' \in [Tabs -> 0 .. issued']
      BY <1>7, <2>4, <2>5 DEF Rotate, TypeOK
    <3> QED
      BY <1>7, <2>2, <2>3, <2>5, <2>6, <3>2, <3>3 DEF Rotate, TypeOK
<1>8. ASSUME NEW tab \in Tabs, RotateRefused(tab) PROVE TypeOK'
  BY <1>8 DEF RotateRefused
<1>9. ASSUME NEW tab \in Tabs, RotateError(tab) PROVE TypeOK'
  <2>1. CASE Rotated(tab)
    <3>1. clock' = clock
      BY <1>9 DEF RotateError
    <3>2. /\ origin[held[tab]] \in Tokens
          /\ Insert(issued + 1, origin[held[tab]])
          /\ revokedAt' \in [Tokens -> NULL .. clock']
          /\ Take(tab) /\ swept' = swept
      BY <2>1, <3>1, RotatedType
    <3>3. /\ issued \in Nat /\ issued' = issued + 1 /\ issued' \in 0 .. MaxTokens
          /\ origin' \in [Tokens -> 0 .. MaxTokens]
          /\ 1 .. issued \subseteq 1 .. issued'
          /\ 0 .. issued \subseteq 0 .. issued'
      BY <3>2, InsertType
    <3> HIDE DEF TypeOK
    <3>4. /\ expired \subseteq 1 .. issued'
          /\ store \in [Browsers -> 0 .. issued']
          /\ held \in [Tabs -> 0 .. issued']
          /\ doomed \in [Tabs -> SUBSET (1 .. issued')]
          /\ swept \subseteq 1 .. issued'
      BY <3>3, GrowType
    <3>5. taken' \in [Browsers -> SUBSET (1 .. issued')]
      BY <3>2, <3>3, TakeType
    <3> QED
      <4>1. /\ pc' \in [Tabs -> PCs]
            /\ now' \in [Tabs -> 0 .. clock'] /\ dated' \subseteq Tabs
        BY <1>9 DEF RotateError, TypeOK
      <4>2. faulted' \subseteq Browsers /\ faults' \in 0 .. MaxFaults
        BY <1>9 DEF RotateError, Fault, TypeOK
      <4> QED
        BY <1>9, <3>2, <3>3, <3>4, <3>5, <4>1, <4>2 DEF RotateError, TypeOK
  <2>2. CASE UNCHANGED <<issued, origin, revokeVars>>
    <3>1. faulted' \subseteq Browsers /\ faults' \in 0 .. MaxFaults
      BY <1>9, FaultType DEF RotateError
    <3>2. pc' \in [Tabs -> PCs]
      BY <1>9 DEF RotateError
    <3> QED
      BY <1>9, <2>2, <3>1, <3>2 DEF RotateError
  <2> QED
    BY <1>9, <2>1, <2>2 DEF RotateError
<1>10. ASSUME NEW tab \in Tabs, FindByHash(tab) PROVE TypeOK'
  <2>1. now' \in [Tabs -> 0 .. clock']
    <3>1. CASE Reused(tab)
      BY <1>10, <3>1 DEF FindByHash
    <3>2. CASE ~Reused(tab)
      BY <1>10, <3>2, ForgetType DEF FindByHash
    <3> QED
      BY <3>1, <3>2
  <2>2. pc' \in [Tabs -> PCs]
    BY <1>10 DEF FindByHash
  <2> QED
    BY <1>10, <2>1, <2>2 DEF FindByHash
<1>11. ASSUME NEW tab \in Tabs, ScanForUser(tab) PROVE TypeOK'
  BY <1>11 DEF ScanForUser, live
<1>12. ASSUME NEW tab \in Tabs, RevokeAllForUser(tab) PROVE TypeOK'
  <2>1. Forget(tab) /\ clock' = clock /\ issued' = issued
    BY <1>12 DEF RevokeAllForUser
  <2>2. now' \in [Tabs -> 0 .. clock']
    BY <2>1, ForgetType
  <2>3. revokedAt' \in [Tokens -> NULL .. clock']
    BY <1>12 DEF RevokeAllForUser
  <2>4. doomed' \in [Tabs -> SUBSET (1 .. issued')]
    BY <1>12, <2>1 DEF RevokeAllForUser
  <2>5. swept' \subseteq 1 .. issued'
    BY <1>12, <2>1 DEF RevokeAllForUser
  <2> QED
    BY <1>12, <2>1, <2>2, <2>3, <2>4, <2>5 DEF RevokeAllForUser
<1>13. ASSUME NEW tab \in Tabs, StoreTokens(tab) PROVE TypeOK'
  <2>1. End(tab) /\ clock' = clock /\ issued' = issued
    BY <1>13 DEF StoreTokens
  <2>2. /\ pc' \in [Tabs -> PCs] /\ held' \in [Tabs -> 0 .. issued']
        /\ now' \in [Tabs -> 0 .. clock'] /\ dated' \subseteq Tabs
        /\ doomed' \in [Tabs -> SUBSET (1 .. issued')]
        /\ overlapped' \subseteq Tabs
    BY <2>1, EndType
  <2>3. store' \in [Browsers -> 0 .. issued']
    BY <1>13, <2>1 DEF StoreTokens
  <2> QED
    BY <1>13, <2>2, <2>3 DEF StoreTokens
<1>14. ASSUME NEW tab \in Tabs, ClearStore(tab) PROVE TypeOK'
  <2>1. End(tab) /\ clock' = clock /\ issued' = issued
    BY <1>14 DEF ClearStore
  <2>2. /\ pc' \in [Tabs -> PCs] /\ held' \in [Tabs -> 0 .. issued']
        /\ now' \in [Tabs -> 0 .. clock'] /\ dated' \subseteq Tabs
        /\ doomed' \in [Tabs -> SUBSET (1 .. issued')]
        /\ overlapped' \subseteq Tabs
    BY <2>1, EndType
  <2>3. store' \in [Browsers -> 0 .. issued']
    BY <1>14, <2>1 DEF ClearStore
  <2> QED
    BY <1>14, <2>2, <2>3 DEF ClearStore
<1>15. ASSUME NEW tab \in Tabs, Lose(tab) PROVE TypeOK'
  <2>1. End(tab) /\ clock' = clock /\ issued' = issued
    BY <1>15 DEF Lose
  <2>2. /\ pc' \in [Tabs -> PCs] /\ held' \in [Tabs -> 0 .. issued']
        /\ now' \in [Tabs -> 0 .. clock'] /\ dated' \subseteq Tabs
        /\ doomed' \in [Tabs -> SUBSET (1 .. issued')]
        /\ overlapped' \subseteq Tabs
    BY <2>1, EndType
  <2>3. store' \in [Browsers -> 0 .. issued']
    <3>1. 0 \in 0 .. issued'
      BY <2>1
    <3> QED
      BY <1>15, <2>1, <3>1 DEF Lose
  <2>4. faulted' \subseteq Browsers /\ faults' \in 0 .. MaxFaults
    BY <1>15, FaultType DEF Lose
  <2> QED
    BY <1>15, <2>2, <2>3, <2>4 DEF Lose
<1>16. ASSUME NEW tab \in Tabs, Logout(tab) PROVE TypeOK'
  <2>1. pc' \in [Tabs -> PCs] /\ overlapped' \subseteq Tabs
    BY <1>16, BeginType DEF Logout
  <2> QED
    BY <1>16, <2>1 DEF Logout, Begin
<1>17. ASSUME NEW tab \in Tabs, LookupRefresh(tab) PROVE TypeOK'
  <2>1. pc' \in [Tabs -> PCs]
    BY <1>17 DEF LookupRefresh
  <2>2. now' \in [Tabs -> 0 .. clock']
    <3>1. CASE UNCHANGED now
      BY <1>17, <3>1 DEF LookupRefresh
    <3>2. CASE ReadClock(tab)
      BY <1>17, <3>2, ReadClockType DEF LookupRefresh
    <3> QED
      BY <1>17, <3>1, <3>2 DEF LookupRefresh
  <2> QED
    BY <1>17, <2>1, <2>2 DEF LookupRefresh
<1>18. ASSUME NEW tab \in Tabs, Revoke(tab) PROVE TypeOK'
  <2>1. Forget(tab) /\ clock' = clock /\ issued' = issued
    BY <1>18 DEF Revoke
  <2>2. now' \in [Tabs -> 0 .. clock']
    BY <2>1, ForgetType
  <2>3. revokedAt' \in [Tokens -> NULL .. clock']
    <3>1. now[tab] \in NULL .. clock'
      BY <2>1
    <3> QED
      BY <1>18, <2>1, <3>1 DEF Revoke, RevokeOne
  <2>4. taken' \in [Browsers -> SUBSET (1 .. issued')]
    BY <1>18, <2>1, TakeType DEF Revoke
  <2>5. pc' \in [Tabs -> PCs]
    BY <1>18 DEF Revoke
  <2> QED
    BY <1>18, <2>1, <2>2, <2>3, <2>4, <2>5 DEF Revoke
<1>19. ASSUME NEW tab \in Tabs, LogoutError(tab) PROVE TypeOK'
  <2>1. Forget(tab) /\ clock' = clock
    BY <1>19 DEF LogoutError
  <2>2. now' \in [Tabs -> 0 .. clock']
    BY <2>1, ForgetType
  <2> QED
    <3>1. faulted' \subseteq Browsers /\ faults' \in 0 .. MaxFaults
      BY <1>19, FaultType DEF LogoutError
    <3>2. pc' \in [Tabs -> PCs]
      BY <1>19 DEF LogoutError
    <3> QED
      BY <1>19, <2>2, <3>1, <3>2 DEF LogoutError
<1>20. ASSUME NEW tab \in Tabs, SignOut(tab) PROVE TypeOK'
  <2>1. End(tab) /\ clock' = clock /\ issued' = issued
    BY <1>20 DEF SignOut
  <2>2. /\ pc' \in [Tabs -> PCs] /\ held' \in [Tabs -> 0 .. issued']
        /\ now' \in [Tabs -> 0 .. clock'] /\ dated' \subseteq Tabs
        /\ doomed' \in [Tabs -> SUBSET (1 .. issued')]
        /\ overlapped' \subseteq Tabs
    BY <2>1, EndType
  <2>3. store' \in [Browsers -> 0 .. issued']
    BY <1>20, <2>1 DEF SignOut
  <2> QED
    BY <1>20, <2>2, <2>3 DEF SignOut
<1>21. ASSUME NEW t \in Tokens, Expire(t) PROVE TypeOK'
  BY <1>21 DEF Expire, live
<1>22. CASE Tick
  <2>1. late' \in BOOLEAN
    BY <1>22, Zenon DEF Tick
  <2>2. clock' \in 0 .. MaxClock /\ 0 .. clock \subseteq 0 .. clock'
        /\ NULL .. clock \subseteq NULL .. clock'
    BY <1>22 DEF Tick
  <2> QED
    BY <1>22, <2>1, <2>2 DEF Tick
<1>23. CASE UNCHANGED vars
  BY <1>23 DEF vars
<1> QED
  BY <1>1, <1>2, <1>3, <1>4, <1>5, <1>6, <1>7, <1>8, <1>9, <1>10, <1>11,
     <1>12, <1>13, <1>14, <1>15, <1>16, <1>17, <1>18, <1>19, <1>20, <1>21,
     <1>22, <1>23 DEF Next

(* A step that issues no token revokes some or none.                       *)
LEMMA TokenSteps ==
  ASSUME TypeOK, [Next]_vars
  PROVE  \/ \E tab \in Tabs : IssuePair(tab) \/ Rotated(tab)
         \/ /\ issued' = issued /\ origin' = origin
            /\ \A t \in Tokens : revokedAt[t] # NULL => revokedAt'[t] # NULL
            /\ \A t \in Tokens : t \notin 1 .. issued => revokedAt'[t] = revokedAt[t]
<1> DEFINE Quiet ==
      /\ issued' = issued /\ origin' = origin
      /\ \A t \in Tokens : revokedAt[t] # NULL => revokedAt'[t] # NULL
      /\ \A t \in Tokens : t \notin 1 .. issued => revokedAt'[t] = revokedAt[t]
<1> USE DEF tokenVars
<1>1. ASSUME NEW tab \in Tabs, RotateError(tab) PROVE Rotated(tab) \/ Quiet
  BY <1>1 DEF RotateError
<1>2. ASSUME NEW tab \in Tabs, Rotate(tab) PROVE Rotated(tab)
  BY <1>2 DEF Rotate
<1>3. ASSUME NEW tab \in Tabs,
             \/ Register(tab) \/ CreateUser(tab) \/ Login(tab)
             \/ RefreshAccess(tab) \/ Refresh(tab) \/ RotateRefused(tab)
             \/ FindByHash(tab) \/ ScanForUser(tab)
             \/ StoreTokens(tab) \/ ClearStore(tab) \/ Lose(tab)
             \/ Logout(tab) \/ LookupRefresh(tab)
             \/ LogoutError(tab) \/ SignOut(tab)
      PROVE  Quiet
  BY <1>3 DEF Register, Begin, CreateUser, Login, RefreshAccess, Refresh,
              RotateRefused, FindByHash, ScanForUser, StoreTokens, ClearStore,
              Lose, Logout, LookupRefresh, LogoutError, SignOut
<1>4. ASSUME NEW tab \in Tabs, RevokeAllForUser(tab) PROVE Quiet
  <2>1. \A t \in Tokens : t \notin live => revokedAt'[t] = revokedAt[t]
    BY <1>4 DEF RevokeAllForUser
  <2> QED
    BY <1>4, <2>1 DEF RevokeAllForUser, live
<1>5. ASSUME NEW tab \in Tabs, Revoke(tab) PROVE Quiet
  <2>1. \A t \in Tokens : t \notin live => revokedAt'[t] = revokedAt[t]
    BY <1>5 DEF Revoke, RevokeOne, TypeOK
  <2> QED
    BY <1>5, <2>1 DEF Revoke, live
<1>6. ASSUME Tick \/ \E t \in Tokens : Expire(t) PROVE Quiet
  BY <1>6 DEF Expire, Tick
<1>7. CASE UNCHANGED vars
  BY <1>7 DEF vars
<1> QED
  BY <1>1, <1>2, <1>3, <1>4, <1>5, <1>6, <1>7 DEF Next

(* A new token starts a session of its own or takes the place of the one   *)
(* it replaces.                                                            *)
LEMMA OneLiveStep ==
  ASSUME TypeOK, OriginsOK, OneLiveToken, [Next]_vars
  PROVE  OriginsOK' /\ OneLiveToken'
<1> USE SessionAssumption
<1>1. ASSUME NEW tab \in Tabs, IssuePair(tab)
      PROVE  OriginsOK' /\ OneLiveToken'
  <2>1. issued + 1 \in Tokens /\ Insert(issued + 1, issued + 1)
    BY <1>1 DEF IssuePair, Insert
  <2>2. /\ issued \in Nat /\ issued' = issued + 1
        /\ origin'[issued + 1] = issued + 1
        /\ \A t \in 1 .. issued : origin'[t] = origin[t]
    BY <2>1, InsertType
  <2>3. OriginsOK'
    BY <1>1, <2>2 DEF OriginsOK, IssuePair
  <2>4. \A t \in live' : t = issued + 1 \/ t \in live
    BY <1>1, <2>2 DEF live, IssuePair
  <2>5. \A t \in live : origin'[t] = origin[t] /\ origin[t] # issued + 1
    BY <2>2 DEF live, OriginsOK
  <2> QED
    BY <2>2, <2>3, <2>4, <2>5 DEF OneLiveToken
<1>2. ASSUME NEW tab \in Tabs, Rotated(tab)
      PROVE  OriginsOK' /\ OneLiveToken'
  <2>1. /\ held[tab] \in live /\ held[tab] \in 1 .. issued
        /\ Insert(issued + 1, origin[held[tab]])
    BY <1>2 DEF Rotated, Rotatable, live
  <2>2. held[tab] \in Tokens /\ origin[held[tab]] \in Tokens
    BY <2>1 DEF TypeOK, OriginsOK
  <2>3. /\ issued \in Nat /\ issued' = issued + 1
        /\ origin'[issued + 1] = origin[held[tab]]
        /\ \A t \in 1 .. issued : t \in Tokens /\ origin'[t] = origin[t]
    BY <2>1, <2>2, InsertType
  <2>4. /\ revokedAt'[held[tab]] # NULL
        /\ \A t \in Tokens : t # held[tab] => revokedAt'[t] = revokedAt[t]
    BY <1>2, <2>2 DEF Rotated, TypeOK
  <2>5. OriginsOK'
    BY <2>1, <2>3, <2>4 DEF OriginsOK
  <2>6. \A t \in live' : t = issued + 1 \/ t \in live \ {held[tab]}
    BY <2>3, <2>4 DEF live
  <2>7. \A t \in live \ {held[tab]} :
          origin'[t] = origin[t] /\ origin[t] # origin[held[tab]]
    BY <2>1, <2>3 DEF live, OneLiveToken
  <2> QED
    BY <2>3, <2>5, <2>6, <2>7 DEF OneLiveToken
<1>3. CASE /\ issued' = issued /\ origin' = origin
           /\ \A t \in Tokens : revokedAt[t] # NULL => revokedAt'[t] # NULL
           /\ \A t \in Tokens : t \notin 1 .. issued => revokedAt'[t] = revokedAt[t]
  <2>1. OriginsOK'
    BY <1>3 DEF OriginsOK
  <2>2. live' \subseteq live
    BY <1>3 DEF live, TypeOK
  <2> QED
    BY <1>3, <2>1, <2>2 DEF OneLiveToken
<1> QED
  BY <1>1, <1>2, <1>3, TokenSteps

(* Revoking a token in time leaves its whole grace period to those who     *)
(* have it.                                                                *)
LEMMA RotatedPrompt ==
  ASSUME TypeOK, OriginsOK, Prompt, ~late, NEW tab \in Tabs, Rotated(tab),
         pc[tab] = "rotate"
  PROVE  \A t \in 1 .. issued' : revokedAt'[t] # NULL =>
           \/ clock - revokedAt'[t] <= Grace
           \/ /\ \A b \in Browsers : store[b] # t
              /\ \A x \in Tabs : held[x] # t
<1>1. /\ held[tab] \in 1 .. issued
      /\ issued \in Nat /\ issued' = issued + 1 /\ issued + 1 \in Tokens
  BY SessionAssumption DEF Rotated, Rotatable, Insert, live, TypeOK
<1>2. revokedAt' = [revokedAt EXCEPT ![held[tab]] = now[tab]]
  BY DEF Rotated
<1>3. clock - now[tab] <= Grace
  BY DEF Prompt
<1>4. revokedAt[issued + 1] = NULL
  BY <1>1 DEF OriginsOK
<1>5. ASSUME NEW t \in 1 .. issued', t # held[tab], revokedAt'[t] # NULL
      PROVE  t \in 1 .. issued /\ revokedAt'[t] = revokedAt[t]
  BY <1>1, <1>2, <1>4, <1>5, SessionAssumption DEF TypeOK
<1>6. revokedAt'[held[tab]] = now[tab]
  BY <1>1, <1>2, SessionAssumption DEF TypeOK
<1> QED
  BY <1>3, <1>5, <1>6 DEF Prompt

(* The end of a call puts nothing into a store but the call's token.       *)
LEMMA EndPrompt ==
  ASSUME TypeOK, Prompt, NoUnprovokedRevocation, ~late,
         NEW tab \in Tabs, End(tab),
         issued' = issued, revokedAt' = revokedAt, clock' = clock,
         \A b \in Browsers :
           store'[b] = None \/ store'[b] = store[b] \/ store'[b] = held[tab]
  PROVE  Prompt' /\ NoUnprovokedRevocation'
<1>1. \A x \in Tabs :
        \/ pc'[x] = "idle" /\ held'[x] = None
        \/ pc'[x] = pc[x] /\ now'[x] = now[x] /\ held'[x] = held[x]
  BY DEF End, Forget, TypeOK
<1>2. \A t \in 1 .. issued : t # None
  BY SessionAssumption DEF TypeOK
<1>3. \A t \in 1 .. issued : revokedAt[t] # NULL =>
        \/ clock - revokedAt[t] <= Grace
        \/ /\ \A b \in Browsers : store[b] # t
           /\ \A x \in Tabs : held[x] # t
  BY DEF Prompt
<1>4. \A t \in 1 .. issued' : revokedAt'[t] # NULL =>
        \/ clock' - revokedAt'[t] <= Grace
        \/ /\ \A b \in Browsers : store'[b] # t
           /\ \A x \in Tabs : held'[x] # t
  BY <1>1, <1>2, <1>3
<1>5. \A x \in Tabs :
        /\ pc'[x] \in {"rotate", "revoke"} => clock' - now'[x] <= Grace
        /\ pc'[x] \in {"arrive", "rotate", "find"} => held'[x] # None
  BY <1>1 DEF Prompt
<1>6. \A x \in Tabs : pc'[x] \notin {"scan", "revokeAll"}
  BY <1>1 DEF NoUnprovokedRevocation
<1> QED
  BY <1>4, <1>5, <1>6 DEF Prompt, NoUnprovokedRevocation

(* A token past its grace reaches a request only through somebody late.    *)
LEMMA PromptStep ==
  ASSUME TypeOK, OriginsOK, Prompt, NoUnprovokedRevocation, [Next]_vars
  PROVE  Prompt' /\ NoUnprovokedRevocation'
<1> DEFINE Fine == Prompt' /\ NoUnprovokedRevocation'
<1>0. late => late'
  <2>1. CASE Tick
    BY <2>1 DEF Tick
  <2>2. CASE UNCHANGED vars
    BY <2>2 DEF vars
  <2>3. CASE \E t \in Tokens : Expire(t)
    BY <2>3 DEF Expire
  <2>4. CASE Next /\ ~Tick /\ ~\E t \in Tokens : Expire(t)
    BY <2>4 DEF Next, Register, CreateUser, Login, IssuePair, RefreshAccess,
            Refresh, Rotate, RotateRefused, RotateError, FindByHash,
            ScanForUser, RevokeAllForUser, StoreTokens, ClearStore, Lose,
            Logout, LookupRefresh, Revoke, LogoutError, SignOut, Begin,
            clockVars
  <2> QED
    BY <2>1, <2>2, <2>3, <2>4
<1> SUFFICES ASSUME ~late PROVE Fine
  BY <1>0 DEF Prompt, NoUnprovokedRevocation
<1>a. /\ clock \in Int /\ Grace \in Int /\ issued \in Nat
      /\ \A t \in Tokens : revokedAt[t] \in Int
      /\ \A t \in 1 .. issued : t \in Tokens
      /\ \A x \in Tabs : now[x] \in Int /\ now[x] <= clock
  BY SessionAssumption DEF TypeOK
<1>b. \A t \in 1 .. issued : revokedAt[t] # NULL =>
        \/ clock - revokedAt[t] <= Grace
        \/ /\ \A b \in Browsers : store[b] # t
           /\ \A x \in Tabs : held[x] # t
  BY DEF Prompt
<1>c. \A x \in Tabs : pc[x] \in {"rotate", "revoke"} => clock - now[x] <= Grace
  BY DEF Prompt
<1>d. \A x \in Tabs : pc[x] \in {"arrive", "rotate", "find"} => held[x] # None
  BY DEF Prompt
<1> USE SessionAssumption
    DEF Prompt, NoUnprovokedRevocation, TypeOK, tokenVars, clockVars, readVars,
        faultVars
<1>1. ASSUME NEW tab \in Tabs, Register(tab) PROVE Fine
  BY <1>1 DEF Register, Begin
<1>2. ASSUME NEW tab \in Tabs, CreateUser(tab) PROVE Fine
  BY <1>2 DEF CreateUser
<1>3. ASSUME NEW tab \in Tabs, Login(tab) PROVE Fine
  BY <1>3 DEF Login, Begin
<1>4. ASSUME NEW tab \in Tabs, IssuePair(tab) PROVE Fine
  <2>1. /\ issued \in Nat /\ issued' = issued + 1 /\ issued + 1 \in Tokens
        /\ revokedAt' = revokedAt /\ revokedAt[issued + 1] = NULL
    BY <1>4 DEF IssuePair, Insert, OriginsOK
  <2>2. \A t \in 1 .. issued' : revokedAt'[t] # NULL => t \in 1 .. issued
    <3> HIDE DEF TypeOK, Prompt
    <3>1. \A t \in 1 .. issued' : t = issued + 1 \/ t \in 1 .. issued
      BY <2>1
    <3> QED
      BY <2>1, <3>1
  <2>3. \A x \in Tabs : held'[x] = issued + 1 \/ held'[x] = held[x]
    BY <1>4 DEF IssuePair
  <2>4. \A x \in Tabs :
          pc'[x] = "answered" \/ (pc'[x] = pc[x] /\ held'[x] = held[x])
    BY <1>4 DEF IssuePair
  <2> QED
    BY <1>4, <2>1, <2>2, <2>3, <2>4, SMTT(30) DEF IssuePair
<1>5. ASSUME NEW tab \in Tabs, RefreshAccess(tab) PROVE Fine
  BY <1>5 DEF RefreshAccess, Begin
<1>6. ASSUME NEW tab \in Tabs, Refresh(tab) PROVE Fine
  BY <1>6, SMTT(30) DEF Refresh, ReadClock
<1>7. ASSUME NEW tab \in Tabs, Rotate(tab) PROVE Fine
  <2>1. \A t \in 1 .. issued' : revokedAt'[t] # NULL =>
          \/ clock - revokedAt'[t] <= Grace
          \/ /\ \A b \in Browsers : store[b] # t
             /\ \A x \in Tabs : held[x] # t
    BY <1>7, RotatedPrompt DEF Rotate
  <2>2. revokedAt'[issued + 1] = NULL
    BY <1>7 DEF Rotate, Rotated, Rotatable, Insert, live, OriginsOK
  <2>3. \A x \in Tabs : held'[x] = issued + 1 \/ held'[x] = held[x]
    BY <1>7 DEF Rotate
  <2>4. \A x \in Tabs :
          \/ pc'[x] = "answered"
          \/ pc'[x] = pc[x] /\ now'[x] = now[x] /\ held'[x] = held[x]
    BY <1>7 DEF Rotate, Forget
  <2> QED
    BY <1>7, <2>1, <2>2, <2>3, <2>4, ZenonT(30) DEF Rotate
<1>8. ASSUME NEW tab \in Tabs, RotateRefused(tab) PROVE Fine
  BY <1>8 DEF RotateRefused
<1>9. ASSUME NEW tab \in Tabs, RotateError(tab) PROVE Fine
  <2>1. \A x \in Tabs : pc'[x] = pc[x] \/ (pc'[x] = "find" /\ held[x] # None)
    BY <1>9 DEF RotateError
  <2>2. CASE Rotated(tab)
    <3>1. \A t \in 1 .. issued' : revokedAt'[t] # NULL =>
            \/ clock - revokedAt'[t] <= Grace
            \/ /\ \A b \in Browsers : store[b] # t
               /\ \A x \in Tabs : held[x] # t
      BY <1>9, <2>2, RotatedPrompt DEF RotateError
    <3> QED
      BY <1>9, <2>1, <3>1 DEF RotateError
  <2>3. CASE UNCHANGED <<issued, origin, revokedAt>>
    BY <1>9, <2>1, <2>3 DEF RotateError
  <2> QED
    BY <1>9, <2>2, <2>3 DEF RotateError
<1>10. ASSUME NEW tab \in Tabs, FindByHash(tab) PROVE Fine
  <2>1. ~Reused(tab)
    <3> SUFFICES ASSUME Reused(tab) PROVE FALSE
      OBVIOUS
    <3>1. now[tab] \in Int /\ clock \in Int /\ now[tab] <= clock
      OBVIOUS
    <3>2. held[tab] \in 1 .. issued
      BY <1>10 DEF FindByHash
    <3>3. revokedAt[held[tab]] # NULL /\ revokedAt[held[tab]] \in Int
      BY <3>2 DEF Reused, live
    <3> QED
      <4> HIDE DEF TypeOK, Prompt
      <4>1. clock - revokedAt[held[tab]] <= Grace
        BY <1>b, <3>2, <3>3
      <4>2. now[tab] - revokedAt[held[tab]] > Grace
        BY DEF Reused
      <4> QED
        BY <1>a, <3>1, <3>3, <4>1, <4>2
  <2>2. \A x \in Tabs : pc'[x] = "refused" \/ (pc'[x] = pc[x] /\ now'[x] = now[x])
    BY <1>10, <2>1 DEF FindByHash, Forget
  <2> QED
    BY <1>10, <2>2 DEF FindByHash
<1>11. ASSUME NEW tab \in Tabs, ScanForUser(tab) PROVE Fine
  BY <1>11 DEF ScanForUser
<1>12. ASSUME NEW tab \in Tabs, RevokeAllForUser(tab) PROVE Fine
  BY <1>12 DEF RevokeAllForUser
<1>13. ASSUME NEW tab \in Tabs, StoreTokens(tab) PROVE Fine
  <2>1. /\ End(tab) /\ issued' = issued /\ revokedAt' = revokedAt
        /\ clock' = clock
    BY <1>13 DEF StoreTokens
  <2>2. \A b \in Browsers :
          store'[b] = None \/ store'[b] = store[b] \/ store'[b] = held[tab]
    BY <1>13 DEF StoreTokens
  <2> HIDE DEF TypeOK, Prompt, NoUnprovokedRevocation
  <2> QED
    BY <2>1, <2>2, EndPrompt
<1>14. ASSUME NEW tab \in Tabs, ClearStore(tab) PROVE Fine
  <2>1. /\ End(tab) /\ issued' = issued /\ revokedAt' = revokedAt
        /\ clock' = clock
    BY <1>14 DEF ClearStore
  <2>2. \A b \in Browsers :
          store'[b] = None \/ store'[b] = store[b] \/ store'[b] = held[tab]
    BY <1>14 DEF ClearStore
  <2> HIDE DEF TypeOK, Prompt, NoUnprovokedRevocation
  <2> QED
    BY <2>1, <2>2, EndPrompt
<1>15. ASSUME NEW tab \in Tabs, Lose(tab) PROVE Fine
  <2>1. /\ End(tab) /\ issued' = issued /\ revokedAt' = revokedAt
        /\ clock' = clock
    BY <1>15 DEF Lose
  <2>2. \A b \in Browsers :
          store'[b] = None \/ store'[b] = store[b] \/ store'[b] = held[tab]
    BY <1>15 DEF Lose
  <2> HIDE DEF TypeOK, Prompt, NoUnprovokedRevocation
  <2> QED
    BY <2>1, <2>2, EndPrompt
<1>16. ASSUME NEW tab \in Tabs, Logout(tab) PROVE Fine
  BY <1>16 DEF Logout, Begin
<1>17. ASSUME NEW tab \in Tabs, LookupRefresh(tab) PROVE Fine
  <2>1. \A x \in Tabs :
          \/ pc'[x] = "out"
          \/ pc'[x] = "revoke" /\ now'[x] = clock
          \/ pc'[x] = pc[x] /\ now'[x] = now[x]
    BY <1>17 DEF LookupRefresh, ReadClock
  <2>2. clock - clock <= Grace
    OBVIOUS
  <2> QED
    BY <1>17, <2>1, <2>2 DEF LookupRefresh
<1>18. ASSUME NEW tab \in Tabs, Revoke(tab) PROVE Fine
  <2>1. /\ clock - now[tab] <= Grace
        /\ \A t \in Tokens : revokedAt'[t] = now[tab] \/ revokedAt'[t] = revokedAt[t]
    BY <1>18 DEF Revoke, RevokeOne
  <2>2. \A x \in Tabs : pc'[x] = "out" \/ (pc'[x] = pc[x] /\ now'[x] = now[x])
    BY <1>18 DEF Revoke, Forget
  <2> QED
    <3>1. /\ issued' = issued /\ clock' = clock /\ late' = late
          /\ store' = store /\ held' = held
      BY <1>18 DEF Revoke
    <3> HIDE DEF TypeOK
    <3>2. \A t \in 1 .. issued : revokedAt'[t] # NULL =>
            \/ clock - revokedAt'[t] <= Grace
            \/ /\ \A b \in Browsers : store[b] # t
               /\ \A x \in Tabs : held[x] # t
      BY <1>a, <1>b, <2>1
    <3> QED
      BY <2>2, <3>1, <3>2
<1>19. ASSUME NEW tab \in Tabs, LogoutError(tab) PROVE Fine
  BY <1>19 DEF LogoutError, Forget
<1>20. ASSUME NEW tab \in Tabs, SignOut(tab) PROVE Fine
  <2>1. /\ End(tab) /\ issued' = issued /\ revokedAt' = revokedAt
        /\ clock' = clock
    BY <1>20 DEF SignOut
  <2>2. \A b \in Browsers :
          store'[b] = None \/ store'[b] = store[b] \/ store'[b] = held[tab]
    BY <1>20 DEF SignOut
  <2> HIDE DEF TypeOK, Prompt, NoUnprovokedRevocation
  <2> QED
    BY <2>1, <2>2, EndPrompt
<1>21. ASSUME NEW t \in Tokens, Expire(t) PROVE Fine
  BY <1>21 DEF Expire
<1>22. CASE Tick
  <2>1. CASE Overdue(clock + 1)
    <3>1. late'
      BY <1>22, <2>1 DEF Tick
    <3> QED
      BY <3>1
  <2>2. CASE ~Overdue(clock + 1)
    <3>1. \A t \in 1 .. issued : revokedAt[t] # NULL =>
            \/ (clock + 1) - revokedAt[t] <= Grace
            \/ /\ \A b \in Browsers : store[b] # t
               /\ \A tab \in Tabs : held[tab] # t
      <4> HIDE DEF TypeOK, Prompt
      <4>1. ASSUME NEW t \in 1 .. issued, revokedAt[t] # NULL
            PROVE  \/ ~((clock + 1) - revokedAt[t] > Grace)
                   \/ /\ \A b \in Browsers : store[b] # t
                      /\ \A tab \in Tabs : held[tab] # t
        <5>1. t \in 1 .. issued \ live
          BY <4>1 DEF live
        <5> QED
          BY <2>2, <5>1 DEF Overdue
      <4> QED
        BY <1>a, <4>1
    <3>2. \A tab \in Tabs : pc[tab] \in {"rotate", "revoke"} =>
            (clock + 1) - now[tab] <= Grace
      BY <2>2 DEF Overdue
    <3>3. /\ clock' = clock + 1 /\ issued' = issued /\ revokedAt' = revokedAt
          /\ store' = store /\ held' = held /\ pc' = pc /\ now' = now
      BY <1>22 DEF Tick
    <3>4. NoUnprovokedRevocation'
      <4> HIDE DEF TypeOK, Prompt
      <4>1. \A tab \in Tabs : pc'[tab] \notin {"scan", "revokeAll"}
        BY <3>3
      <4> QED
        BY <4>1
    <3>5. Prompt'
      <4> HIDE DEF TypeOK, Prompt, NoUnprovokedRevocation
      <4>1. \A t \in 1 .. issued' : revokedAt'[t] # NULL =>
              \/ clock' - revokedAt'[t] <= Grace
              \/ /\ \A b \in Browsers : store'[b] # t
                 /\ \A tab \in Tabs : held'[tab] # t
        BY <3>1, <3>3
      <4>2. \A tab \in Tabs : pc'[tab] \in {"rotate", "revoke"} =>
              clock' - now'[tab] <= Grace
        BY <3>2, <3>3
      <4>3. \A tab \in Tabs : pc'[tab] \in {"arrive", "rotate", "find"} =>
              held'[tab] # None
        BY <1>d, <3>3
      <4> QED
        BY <4>1, <4>2, <4>3 DEF Prompt
    <3> QED
      BY <3>4, <3>5
  <2> QED
    BY <2>1, <2>2
<1>23. CASE UNCHANGED vars
  BY <1>23 DEF vars
<1> QED
  BY <1>1, <1>2, <1>3, <1>4, <1>5, <1>6, <1>7, <1>8, <1>9, <1>10, <1>11,
     <1>12, <1>13, <1>14, <1>15, <1>16, <1>17, <1>18, <1>19, <1>20, <1>21,
     <1>22, <1>23 DEF Next

(* The invariant holds in every reachable state.                           *)
THEOREM Inductive == Spec => []IndInv
<1>1. IndInv /\ [Next]_vars => IndInv'
  BY TypeStep, OneLiveStep, PromptStep DEF IndInv
<1> QED
  BY IndInit, <1>1, PTL DEF Spec

(* Every variable keeps its type.                                          *)
THEOREM TypeCorrect == Spec => []TypeOK
  BY Inductive, PTL DEF IndInv

(* Rotation, however requests race, leaves a session at most one live      *)
(* token.                                                                  *)
THEOREM NoDoubleRotation == Spec => []OneLiveToken
  BY Inductive, PTL DEF IndInv

(* The sessions of the user are revoked only after somebody outlasted a    *)
(* grace period with a token, or with the request to revoke it.            *)
THEOREM GraceProtectsRaces == Spec => []NoUnprovokedRevocation
  BY Inductive, PTL DEF IndInv

-------------------------------------------------------------------------------
(* Whose tokens, and what became of them.  Nobody but the browser of a     *)
(* session ever has a token of it, so that only calls of that browser and  *)
(* RevokeAllForUser end a token.                                           *)

(* The tokens that a browser has, in its store or in a call of a tab.      *)
Knows(b, t) ==
  t # None /\ (store[b] = t \/ \E tab \in Tabs : Home[tab] = b /\ held[tab] = t)

(* No two browsers have tokens of one session.                             *)
OwnersOK ==
  \A b, c \in Browsers : \A t, u \in 1 .. issued :
    Knows(b, t) /\ Knows(c, u) /\ origin[t] = origin[u] => b = c

(* Where a call has a token; calls of one browser that meet are marked;    *)
(* and one that met no other finds its token in the store.                 *)
CallsOK ==
  /\ \A tab \in Tabs :
       pc[tab] \notin {"idle", "create", "issue"} => held[tab] # None
  /\ \A x, y \in Tabs :
       /\ Home[x] = Home[y] /\ x # y
       /\ pc[x] # "idle" /\ pc[y] # "idle"
       => x \in overlapped
  /\ \A tab \in Tabs :
       pc[tab] \notin {"idle", "create", "issue", "answered"} =>
         tab \in overlapped \/ store[Home[tab]] = held[tab]

(* Nobody has the token of a request that was just answered.               *)
FreshOK ==
  \A x \in Tabs : pc[x] = "answered" =>
    /\ \A y \in Tabs : y # x => held[y] # held[x]
    /\ \A b \in Browsers : store[b] # held[x]

(* Only its session's browser, or the end of all sessions, ends a token.   *)
Lasting(t) == t \in live \cup swept

(* The only token of h's session that may be live is h.                    *)
HeadOf(h) == \A t \in live : origin[t] = origin[h] => t = h

(* What a call may believe of its token.                                   *)
CallOK(tab) ==
  /\ pc[tab] = "answered" => HeadOf(held[tab]) /\ Lasting(held[tab])
  /\ pc[tab] \in {"arrive", "rotate"} => Lasting(held[tab]) \/ LostRace(tab)
  /\ pc[tab] \in {"find", "scan", "revokeAll", "refused"} =>
       tab \in dated \/ held[tab] \in swept \/ LostRace(tab)
  /\ pc[tab] = "out" /\ tab \notin overlapped =>
       \A t \in live : origin[t] = origin[held[tab]] => t \in expired

(* The token in the store, unless a call is about to replace it.           *)
StoreOK(b) ==
  store[b] # None =>
    /\ \/ Lasting(store[b])
       \/ /\ store[b] \in taken[b]
          /\ \E tab \in Tabs : Home[tab] = b /\ pc[tab] \in {"answered", "out"}
    /\ \/ HeadOf(store[b])
       \/ \E tab \in Tabs : Home[tab] = b /\ pc[tab] = "answered"

BrowsersOK ==
  \A b \in Browsers \ faulted :
    StoreOK(b) /\ \A tab \in Tabs : Home[tab] = b => CallOK(tab)

StoryInv == IndInv /\ OwnersOK /\ CallsOK /\ FreshOK /\ BrowsersOK

(* A step of one tab.                                                      *)
TabStep(tab) ==
  \/ Register(tab) \/ CreateUser(tab) \/ Login(tab) \/ IssuePair(tab)
  \/ RefreshAccess(tab) \/ Refresh(tab) \/ Rotate(tab) \/ RotateRefused(tab)
  \/ RotateError(tab) \/ FindByHash(tab) \/ ScanForUser(tab)
  \/ RevokeAllForUser(tab) \/ StoreTokens(tab) \/ ClearStore(tab)
  \/ Lose(tab) \/ Logout(tab) \/ LookupRefresh(tab) \/ Revoke(tab)
  \/ LogoutError(tab) \/ SignOut(tab)

(* It touches its own call, its browser's store and its browser's past.    *)
LEMMA Local ==
  ASSUME TypeOK, NEW tab \in Tabs, TabStep(tab)
  PROVE  /\ \A x \in Tabs : x # tab =>
              /\ pc'[x] = pc[x] /\ held'[x] = held[x]
              /\ x \in dated => x \in dated'
              /\ x \in overlapped => x \in overlapped'
              /\ Home[x] # Home[tab] /\ x \in overlapped' => x \in overlapped
         /\ \A b \in Browsers : b # Home[tab] =>
              /\ store'[b] = store[b]
              /\ b \in faulted' => b \in faulted
         /\ faulted \subseteq faulted'
         /\ expired' = expired
<1> USE SessionAssumption DEF TypeOK, tokenVars, clockVars, readVars, faultVars
<1> DEFINE Goal ==
      /\ \A x \in Tabs : x # tab =>
           /\ pc'[x] = pc[x] /\ held'[x] = held[x]
           /\ x \in dated => x \in dated'
           /\ x \in overlapped => x \in overlapped'
           /\ Home[x] # Home[tab] /\ x \in overlapped' => x \in overlapped
      /\ \A b \in Browsers : b # Home[tab] =>
           /\ store'[b] = store[b]
           /\ b \in faulted' => b \in faulted
      /\ faulted \subseteq faulted'
      /\ expired' = expired
<1>1. CASE Register(tab)
  BY <1>1 DEF Register, Begin, Busy
<1>2. CASE CreateUser(tab)
  BY <1>2 DEF CreateUser
<1>3. CASE Login(tab)
  BY <1>3 DEF Login, Begin, Busy
<1>4. CASE IssuePair(tab)
  BY <1>4 DEF IssuePair
<1>5. CASE RefreshAccess(tab)
  BY <1>5 DEF RefreshAccess, Begin, Busy
<1>6. CASE Refresh(tab)
  BY <1>6 DEF Refresh, ReadClock
<1>7. CASE Rotate(tab)
  BY <1>7 DEF Rotate, Forget
<1>8. CASE RotateRefused(tab)
  BY <1>8 DEF RotateRefused
<1>9. CASE RotateError(tab)
  BY <1>9 DEF RotateError, Fault
<1>10. CASE FindByHash(tab)
  BY <1>10 DEF FindByHash, Forget
<1>11. CASE ScanForUser(tab)
  BY <1>11 DEF ScanForUser
<1>12. CASE RevokeAllForUser(tab)
  BY <1>12 DEF RevokeAllForUser, Forget
<1>13. CASE StoreTokens(tab)
  BY <1>13 DEF StoreTokens, End, Forget
<1>14. CASE ClearStore(tab)
  BY <1>14 DEF ClearStore, End, Forget
<1>15. CASE Lose(tab)
  BY <1>15 DEF Lose, End, Forget, Fault
<1>16. CASE Logout(tab)
  BY <1>16 DEF Logout, Begin, Busy
<1>17. CASE LookupRefresh(tab)
  BY <1>17 DEF LookupRefresh, ReadClock
<1>18. CASE Revoke(tab)
  BY <1>18 DEF Revoke, Forget
<1>19. CASE LogoutError(tab)
  BY <1>19 DEF LogoutError, Forget, Fault
<1>20. CASE SignOut(tab)
  BY <1>20 DEF SignOut, End, Forget
<1> QED
  BY <1>1, <1>2, <1>3, <1>4, <1>5, <1>6, <1>7, <1>8, <1>9, <1>10,
     <1>11, <1>12, <1>13, <1>14, <1>15, <1>16, <1>17, <1>18, <1>19, <1>20 DEF TabStep

(* Where a call may go, and with which token.                              *)
LEMMA OwnCall ==
  ASSUME TypeOK, CallsOK, NEW tab \in Tabs, TabStep(tab)
  PROVE  /\ pc'[tab] \notin {"idle", "create", "issue"} => held'[tab] # None
         /\ pc[tab] # "idle" \/ Busy(Home[tab]) \cup {tab} \subseteq overlapped'
              \/ Busy(Home[tab]) = {}
         /\ pc[tab] # "idle" /\ pc'[tab] # "idle" /\ tab \in overlapped =>
              tab \in overlapped'
         /\ pc'[tab] \notin {"idle", "create", "issue", "answered"} =>
              tab \in overlapped' \/ store'[Home[tab]] = held'[tab]
<1> USE SessionAssumption
    DEF TypeOK, CallsOK, tokenVars, clockVars, readVars, faultVars
<1> DEFINE Goal ==
      /\ pc'[tab] \notin {"idle", "create", "issue"} => held'[tab] # None
      /\ pc[tab] # "idle" \/ Busy(Home[tab]) \cup {tab} \subseteq overlapped'
           \/ Busy(Home[tab]) = {}
      /\ pc[tab] # "idle" /\ pc'[tab] # "idle" /\ tab \in overlapped =>
           tab \in overlapped'
      /\ pc'[tab] \notin {"idle", "create", "issue", "answered"} =>
           tab \in overlapped' \/ store'[Home[tab]] = held'[tab]
<1>1. CASE Register(tab)
  BY <1>1 DEF Register, Begin
<1>2. CASE CreateUser(tab)
  BY <1>2 DEF CreateUser
<1>3. CASE Login(tab)
  BY <1>3 DEF Login, Begin
<1>4. CASE IssuePair(tab)
  <2>1. issued \in Nat /\ issued + 1 # None
    OBVIOUS
  <2>2. /\ held'[tab] = issued + 1 /\ pc[tab] = "issue"
        /\ pc'[tab] = "answered" /\ overlapped' = overlapped
    BY <1>4 DEF IssuePair
  <2> QED
    BY <2>1, <2>2
<1>5. CASE RefreshAccess(tab)
  BY <1>5 DEF RefreshAccess, Begin
<1>6. CASE Refresh(tab)
  BY <1>6 DEF Refresh, ReadClock
<1>7. CASE Rotate(tab)
  BY <1>7 DEF Rotate, Forget, Rotated, Insert
<1>8. CASE RotateRefused(tab)
  BY <1>8 DEF RotateRefused
<1>9. CASE RotateError(tab)
  BY <1>9 DEF RotateError, Fault
<1>10. CASE FindByHash(tab)
  BY <1>10 DEF FindByHash, Forget
<1>11. CASE ScanForUser(tab)
  BY <1>11 DEF ScanForUser
<1>12. CASE RevokeAllForUser(tab)
  BY <1>12 DEF RevokeAllForUser, Forget
<1>13. CASE StoreTokens(tab)
  BY <1>13 DEF StoreTokens, End, Forget
<1>14. CASE ClearStore(tab)
  BY <1>14 DEF ClearStore, End, Forget
<1>15. CASE Lose(tab)
  BY <1>15 DEF Lose, End, Forget, Fault
<1>16. CASE Logout(tab)
  BY <1>16 DEF Logout, Begin
<1>17. CASE LookupRefresh(tab)
  BY <1>17 DEF LookupRefresh, ReadClock
<1>18. CASE Revoke(tab)
  BY <1>18 DEF Revoke, Forget
<1>19. CASE LogoutError(tab)
  BY <1>19 DEF LogoutError, Forget, Fault
<1>20. CASE SignOut(tab)
  BY <1>20 DEF SignOut, End, Forget
<1> QED
  BY <1>1, <1>2, <1>3, <1>4, <1>5, <1>6, <1>7, <1>8, <1>9, <1>10,
     <1>11, <1>12, <1>13, <1>14, <1>15, <1>16, <1>17, <1>18, <1>19, <1>20 DEF TabStep

(* Time and expiry leave the calls as they are.                            *)
LEMMA TimeStep ==
  ASSUME Tick \/ \E t \in Tokens : Expire(t)
  PROVE  /\ UNCHANGED <<issued, origin, revokedAt, swept, taken, store, pc, held,
                        dated, overlapped, faulted>>
         /\ expired \subseteq expired'
<1>1. CASE Tick
  BY <1>1 DEF Tick, tokenVars, readVars, faultVars
<1>2. CASE \E t \in Tokens : Expire(t)
  BY <1>2 DEF Expire, tokenVars, readVars, faultVars
<1> QED
  BY <1>1, <1>2

(* Every step is one of these.                                             *)
LEMMA Steps ==
  ASSUME [Next]_vars
  PROVE  \/ \E tab \in Tabs : TabStep(tab)
         \/ Tick \/ \E t \in Tokens : Expire(t)
         \/ UNCHANGED vars
  BY DEF Next, TabStep

(* What a step of a tab does to the tokens.                                *)
LEMMA TokenKinds ==
  ASSUME NEW tab \in Tabs, TabStep(tab)
  PROVE  \/ IssuePair(tab)
         \/ (Rotate(tab) \/ RotateError(tab)) /\ Rotated(tab)
         \/ RevokeAllForUser(tab)
         \/ Revoke(tab)
         \/ UNCHANGED <<issued, origin, revokedAt, swept, taken>>
<1>1. CASE \/ Register(tab) \/ CreateUser(tab) \/ Login(tab)
           \/ RefreshAccess(tab) \/ Refresh(tab) \/ RotateRefused(tab)
           \/ FindByHash(tab) \/ ScanForUser(tab)
           \/ StoreTokens(tab) \/ ClearStore(tab) \/ Lose(tab)
           \/ Logout(tab) \/ LookupRefresh(tab)
           \/ LogoutError(tab) \/ SignOut(tab)
  BY <1>1 DEF Register, Begin, CreateUser, Login, RefreshAccess, Refresh,
              RotateRefused, FindByHash, ScanForUser, StoreTokens, ClearStore,
              Lose, Logout, LookupRefresh, LogoutError, SignOut, tokenVars,
              revokeVars
<1>2. CASE Rotate(tab)
  BY <1>2 DEF Rotate
<1>3. CASE RotateError(tab)
  BY <1>3 DEF RotateError
<1> QED
  BY <1>1, <1>2, <1>3 DEF TabStep

(* A session never changes; a token comes to life in a new session or in   *)
(* place of the token it replaces, and dies at the hands of its holder or  *)
(* of RevokeAllForUser.                                                    *)
LEMMA LiveStep ==
  ASSUME TypeOK, OriginsOK, NEW tab \in Tabs, TabStep(tab)
  PROVE  /\ issued' \in Nat
         /\ \A t \in 1 .. issued : t \in 1 .. issued' /\ origin'[t] = origin[t]
         /\ \A t \in live' :
              \/ t \in live
              \/ /\ t = issued + 1 /\ IssuePair(tab)
                 /\ origin'[t] = issued + 1
              \/ /\ t = issued + 1 /\ Rotated(tab) /\ held[tab] \in live
                 /\ origin'[t] = origin[held[tab]]
         /\ \A t \in live :
              t \in live' \/ t = held[tab] \/ pc[tab] = "revokeAll"
         /\ Rotated(tab) => held[tab] \notin live'
<1> USE SessionAssumption
<1> DEFINE Goal ==
      /\ issued' \in Nat
      /\ \A t \in 1 .. issued : t \in 1 .. issued' /\ origin'[t] = origin[t]
      /\ \A t \in live' :
           \/ t \in live
           \/ /\ t = issued + 1 /\ IssuePair(tab)
              /\ origin'[t] = issued + 1
           \/ /\ t = issued + 1 /\ Rotated(tab) /\ held[tab] \in live
              /\ origin'[t] = origin[held[tab]]
      /\ \A t \in live :
           t \in live' \/ t = held[tab] \/ pc[tab] = "revokeAll"
      /\ Rotated(tab) => held[tab] \notin live'
<1>a. /\ issued \in Nat
      /\ \A t \in 1 .. issued : t \in Tokens
      /\ \A x \in Tabs : now[x] \in Int /\ now[x] >= 0
  BY DEF TypeOK
<1>1. CASE Rotated(tab)
  <2>1. held[tab] \in live /\ held[tab] \in 1 .. issued
    BY <1>1 DEF Rotated, Rotatable, live
  <2>2. held[tab] \in Tokens /\ origin[held[tab]] \in Tokens
    BY <1>a, <2>1 DEF TypeOK, OriginsOK
  <2>3. Insert(issued + 1, origin[held[tab]])
    BY <1>1 DEF Rotated
  <2>4. /\ issued' = issued + 1
        /\ origin'[issued + 1] = origin[held[tab]]
        /\ \A t \in 1 .. issued : t \in 1 .. issued' /\ origin'[t] = origin[t]
    BY <2>2, <2>3, InsertType
  <2>5. /\ revokedAt'[held[tab]] # NULL
        /\ \A t \in Tokens : t # held[tab] => revokedAt'[t] = revokedAt[t]
    BY <1>1, <1>a, <2>2 DEF Rotated, TypeOK
  <2>6. \A t \in 1 .. issued' : t \in 1 .. issued \/ t = issued + 1
    BY <1>a, <2>4
  <2>7. held[tab] \notin live'
    BY <2>5 DEF live
  <2>8. \A t \in live' : t \in live \/ t = issued + 1
    BY <1>a, <2>2, <2>5, <2>6 DEF live
  <2>9. \A t \in live : t \in live' \/ t = held[tab]
    BY <1>a, <2>4, <2>5 DEF live
  <2> QED
    BY <1>1, <1>a, <2>1, <2>4, <2>7, <2>8, <2>9
<1>2. CASE IssuePair(tab)
  <2>1. Insert(issued + 1, issued + 1) /\ revokedAt' = revokedAt
    BY <1>2 DEF IssuePair
  <2>2. issued + 1 \in Tokens
    BY <2>1 DEF Insert
  <2>3. /\ issued' = issued + 1
        /\ origin'[issued + 1] = issued + 1
        /\ \A t \in 1 .. issued : t \in 1 .. issued' /\ origin'[t] = origin[t]
    BY <2>1, <2>2, InsertType
  <2>4. \A t \in 1 .. issued' : t \in 1 .. issued \/ t = issued + 1
    BY <1>a, <2>3
  <2>5. \A t \in live' : t \in live \/ t = issued + 1
    BY <2>1, <2>4 DEF live
  <2>6. \A t \in live : t \in live'
    BY <2>1, <2>3 DEF live
  <2>7. ~Rotated(tab)
    <3>1. SUFFICES ASSUME Rotated(tab) PROVE FALSE
      OBVIOUS
    <3>2. held[tab] \in live /\ held[tab] \in 1 .. issued
      BY <3>1 DEF Rotated, Rotatable, live
    <3>3. revokedAt'[held[tab]] = now[tab]
      BY <1>a, <3>1, <3>2 DEF Rotated, TypeOK
    <3> QED
      BY <1>a, <2>1, <3>2, <3>3 DEF live
  <2> QED
    BY <1>2, <1>a, <2>3, <2>5, <2>6, <2>7
<1>3. CASE /\ RevokeAllForUser(tab) \/ Revoke(tab)
              \/ UNCHANGED <<issued, origin, revokedAt>>
           /\ ~Rotated(tab)
  <2>1. issued' = issued /\ origin' = origin
    BY <1>3 DEF RevokeAllForUser, Revoke
  <2>2. CASE RevokeAllForUser(tab)
    <3>1. \A t \in Tokens : revokedAt'[t] = revokedAt[t] \/ t \in live
      BY <2>2 DEF RevokeAllForUser
    <3>2. live' \subseteq live
      BY <1>a, <2>1, <3>1 DEF live
    <3>3. pc[tab] = "revokeAll"
      BY <2>2 DEF RevokeAllForUser
    <3> QED
      BY <1>3, <1>a, <2>1, <3>2, <3>3
  <2>3. CASE Revoke(tab)
    <3>1. \A t \in Tokens : \/ revokedAt'[t] = revokedAt[t]
                            \/ t \in live /\ t = held[tab]
      BY <2>3 DEF Revoke, RevokeOne, TypeOK
    <3>2. live' \subseteq live /\ \A t \in live : t \in live' \/ t = held[tab]
      BY <1>a, <2>1, <3>1 DEF live
    <3> QED
      BY <1>3, <1>a, <2>1, <3>2
  <2>4. CASE UNCHANGED <<issued, origin, revokedAt>>
    <3>1. live' = live
      BY <2>4 DEF live
    <3> QED
      BY <1>3, <1>a, <2>1, <3>1
  <2> QED
    BY <1>3, <2>2, <2>3, <2>4
<1> QED
  BY <1>1, <1>2, <1>3, TokenKinds

(* The tokens a tab and its store can have after a step of the tab.        *)
LEMMA OwnTokens ==
  ASSUME TypeOK, NEW tab \in Tabs, TabStep(tab)
  PROVE  /\ \/ held'[tab] \in {None, held[tab], store[Home[tab]]}
            \/ held'[tab] = issued + 1 /\ (IssuePair(tab) \/ Rotate(tab))
         /\ store'[Home[tab]] \in {None, held[tab], store[Home[tab]]}
<1> USE SessionAssumption DEF TypeOK, tokenVars, clockVars, readVars, faultVars
<1> DEFINE Goal ==
      /\ \/ held'[tab] \in {None, held[tab], store[Home[tab]]}
         \/ held'[tab] = issued + 1 /\ (IssuePair(tab) \/ Rotate(tab))
      /\ store'[Home[tab]] \in {None, held[tab], store[Home[tab]]}
<1>1. CASE Register(tab)
  BY <1>1 DEF Register, Begin
<1>2. CASE CreateUser(tab)
  BY <1>2 DEF CreateUser
<1>3. CASE Login(tab)
  BY <1>3 DEF Login, Begin
<1>4. CASE IssuePair(tab)
  BY <1>4 DEF IssuePair
<1>5. CASE RefreshAccess(tab)
  BY <1>5 DEF RefreshAccess, Begin
<1>6. CASE Refresh(tab)
  BY <1>6 DEF Refresh, ReadClock
<1>7. CASE Rotate(tab)
  BY <1>7 DEF Rotate, Forget
<1>8. CASE RotateRefused(tab)
  BY <1>8 DEF RotateRefused
<1>9. CASE RotateError(tab)
  BY <1>9 DEF RotateError, Fault
<1>10. CASE FindByHash(tab)
  BY <1>10 DEF FindByHash, Forget
<1>11. CASE ScanForUser(tab)
  BY <1>11 DEF ScanForUser
<1>12. CASE RevokeAllForUser(tab)
  BY <1>12 DEF RevokeAllForUser, Forget
<1>13. CASE StoreTokens(tab)
  BY <1>13 DEF StoreTokens, End, Forget
<1>14. CASE ClearStore(tab)
  BY <1>14 DEF ClearStore, End, Forget
<1>15. CASE Lose(tab)
  BY <1>15 DEF Lose, End, Forget, Fault
<1>16. CASE Logout(tab)
  BY <1>16 DEF Logout, Begin
<1>17. CASE LookupRefresh(tab)
  BY <1>17 DEF LookupRefresh, ReadClock
<1>18. CASE Revoke(tab)
  BY <1>18 DEF Revoke, Forget
<1>19. CASE LogoutError(tab)
  BY <1>19 DEF LogoutError, Forget, Fault
<1>20. CASE SignOut(tab)
  BY <1>20 DEF SignOut, End, Forget
<1> QED
  BY <1>1, <1>2, <1>3, <1>4, <1>5, <1>6, <1>7, <1>8, <1>9, <1>10,
     <1>11, <1>12, <1>13, <1>14, <1>15, <1>16, <1>17, <1>18, <1>19, <1>20 DEF TabStep

(* A token that a browser has was issued.                                  *)
LEMMA KnownIssued ==
  ASSUME TypeOK, NEW b \in Browsers, NEW t, Knows(b, t)
  PROVE  t \in 1 .. issued
<1>1. t # None /\ t \in 0 .. issued
  BY DEF Knows, TypeOK
<1> QED
  BY <1>1, SessionAssumption DEF TypeOK

(* A browser gets to know the tokens that are issued to it, in a new       *)
(* session or in one it has a token of.                                    *)
LEMMA KnowsStep ==
  ASSUME TypeOK, OriginsOK, NEW tab \in Tabs, TabStep(tab),
         NEW b \in Browsers, NEW t, Knows(b, t)'
  PROVE  \/ Knows(b, t)
         \/ /\ b = Home[tab] /\ t = issued + 1
            /\ \/ origin'[t] = issued + 1
               \/ Knows(b, held[tab]) /\ origin'[t] = origin[held[tab]]
<1> USE SessionAssumption
<1>0. Home[tab] \in Browsers /\ issued \in Nat
  BY DEF TypeOK
<1>1. \/ t = store'[b]
      \/ \E x \in Tabs : Home[x] = b /\ t = held'[x]
  BY DEF Knows
<1>2. t # None
  BY DEF Knows
<1>3. CASE t = store'[b]
  <2>1. CASE b = Home[tab]
    BY <1>2, <1>3, <2>1, OwnTokens DEF Knows
  <2>2. CASE b # Home[tab]
    BY <1>2, <1>3, <2>2, Local DEF Knows
  <2> QED
    BY <2>1, <2>2
<1>4. ASSUME NEW x \in Tabs, Home[x] = b, t = held'[x], x # tab
      PROVE  Knows(b, t)
  BY <1>2, <1>4, Local DEF Knows
<1>5. CASE Home[tab] = b /\ t = held'[tab]
  <2>1. CASE held'[tab] \in {None, held[tab], store[Home[tab]]}
    BY <1>2, <1>5, <2>1 DEF Knows
  <2>2. CASE held'[tab] = issued + 1 /\ IssuePair(tab)
    <3>1. origin'[issued + 1] = issued + 1
      BY <2>2, InsertType DEF IssuePair, Insert
    <3> QED
      BY <1>5, <2>2, <3>1
  <2>3. CASE held'[tab] = issued + 1 /\ Rotate(tab)
    <3>1. Rotated(tab) /\ held[tab] \in 1 .. issued
      BY <2>3 DEF Rotate, Rotated, Rotatable, live
    <3>2. held[tab] # None /\ Knows(b, held[tab])
      BY <1>0, <1>5, <3>1 DEF Knows
    <3>3. held[tab] \in Tokens /\ origin[held[tab]] \in Tokens
      BY <3>1 DEF TypeOK, OriginsOK
    <3>4. origin'[issued + 1] = origin[held[tab]]
      BY <3>1, <3>3, InsertType DEF Rotated
    <3> QED
      BY <1>5, <2>3, <3>2, <3>4
  <2> QED
    BY <2>1, <2>2, <2>3, OwnTokens
<1> QED
  BY <1>1, <1>3, <1>4, <1>5

(* No browser gets a token of another one's session.                       *)
LEMMA OwnersStep ==
  ASSUME TypeOK, OriginsOK, OwnersOK, NEW tab \in Tabs, TabStep(tab)
  PROVE  OwnersOK'
<1> SUFFICES ASSUME NEW b \in Browsers, NEW c \in Browsers,
                    NEW t \in 1 .. issued', NEW u \in 1 .. issued',
                    Knows(b, t)', Knows(c, u)', origin'[t] = origin'[u]
             PROVE  b = c
  BY DEF OwnersOK
<1>0. \A s \in 1 .. issued : origin'[s] = origin[s] /\ origin[s] # issued + 1
  <2>1. issued \in Nat
    BY SessionAssumption DEF TypeOK
  <2>2. \A s \in 1 .. issued : origin'[s] = origin[s]
    BY LiveStep
  <2>3. \A s \in 1 .. issued : origin[s] \in 1 .. issued
    BY DEF OriginsOK
  <2> QED
    BY <2>1, <2>2, <2>3
<1>1. \A d \in Browsers : \A s : Knows(d, s) => s \in 1 .. issued
  BY KnownIssued
<1>2. \A d, e \in Browsers : \A r, s :
        Knows(d, r) /\ Knows(e, s) /\ origin[r] = origin[s] => d = e
  BY <1>1 DEF OwnersOK
<1>3. CASE Knows(b, t) /\ Knows(c, u)
  BY <1>0, <1>1, <1>2, <1>3
<1>4. CASE ~Knows(b, t) /\ ~Knows(c, u)
  BY <1>4, KnowsStep
<1>5. CASE Knows(b, t) /\ ~Knows(c, u)
  <2>1. /\ c = Home[tab] /\ u = issued + 1
        /\ \/ origin'[u] = issued + 1
           \/ Knows(c, held[tab]) /\ origin'[u] = origin[held[tab]]
    BY <1>5, KnowsStep
  <2>2. origin'[t] = origin[t] /\ origin[t] # issued + 1
    BY <1>0, <1>1, <1>5
  <2> QED
    BY <1>2, <1>5, <2>1, <2>2
<1>6. CASE ~Knows(b, t) /\ Knows(c, u)
  <2>1. /\ b = Home[tab] /\ t = issued + 1
        /\ \/ origin'[t] = issued + 1
           \/ Knows(b, held[tab]) /\ origin'[t] = origin[held[tab]]
    BY <1>6, KnowsStep
  <2>2. origin'[u] = origin[u] /\ origin[u] # issued + 1
    BY <1>0, <1>1, <1>6
  <2> QED
    BY <1>2, <1>6, <2>1, <2>2
<1> QED
  BY <1>3, <1>4, <1>5, <1>6

(* A call of the same browser that is in flight is met, and marked.        *)
LEMMA Meet ==
  ASSUME TypeOK, CallsOK, NEW tab \in Tabs, TabStep(tab),
         NEW x \in Tabs, x # tab, Home[x] = Home[tab], pc[x] # "idle"
  PROVE  /\ x \in overlapped'
         /\ pc'[tab] # "idle" => tab \in overlapped'
<1>1. x \in Busy(Home[tab])
  BY DEF Busy
<1>2. CASE pc[tab] = "idle"
  <2>1. Busy(Home[tab]) \cup {tab} \subseteq overlapped'
    BY <1>1, <1>2, OwnCall
  <2> QED
    BY <1>1, <2>1
<1>3. CASE pc[tab] # "idle"
  <2>1. x \in overlapped /\ tab \in overlapped
    BY <1>3 DEF CallsOK
  <2> QED
    BY <1>3, <2>1, Local, OwnCall
<1> QED
  BY <1>2, <1>3

(* Calls stay what CallsOK says of them.                                   *)
LEMMA CallsStep ==
  ASSUME TypeOK, CallsOK, NEW tab \in Tabs, TabStep(tab)
  PROVE  CallsOK'
<1>1. \A x \in Tabs : pc'[x] \notin {"idle", "create", "issue"} => held'[x] # None
  BY OwnCall, Local DEF CallsOK
<1>2. ASSUME NEW x \in Tabs, NEW y \in Tabs, Home[x] = Home[y], x # y,
             pc'[x] # "idle", pc'[y] # "idle"
      PROVE  x \in overlapped'
  <2>1. CASE x = tab
    BY <1>2, <2>1, Local, Meet
  <2>2. CASE y = tab
    BY <1>2, <2>2, Local, Meet
  <2>3. CASE x # tab /\ y # tab
    <3>1. x \in overlapped
      BY <1>2, <2>3, Local DEF CallsOK
    <3> QED
      BY <2>3, <3>1, Local
  <2> QED
    BY <2>1, <2>2, <2>3
<1>3. ASSUME NEW x \in Tabs, pc'[x] \notin {"idle", "create", "issue", "answered"}
      PROVE  x \in overlapped' \/ store'[Home[x]] = held'[x]
  <2>1. CASE x = tab
    BY <1>3, <2>1, OwnCall
  <2>2. CASE x # tab /\ Home[x] = Home[tab]
    BY <1>3, <2>2, Local, Meet
  <2>3. CASE x # tab /\ Home[x] # Home[tab]
    <3>1. pc'[x] = pc[x] /\ held'[x] = held[x]
      BY <2>3, Local
    <3>2. x \in overlapped \/ store[Home[x]] = held[x]
      BY <1>3, <3>1 DEF CallsOK
    <3>3. Home[x] \in Browsers
      BY SessionAssumption
    <3> QED
      BY <2>3, <3>1, <3>2, <3>3, Local
  <2> QED
    BY <2>1, <2>2, <2>3
<1> QED
  BY <1>1, <1>2, <1>3 DEF CallsOK

(* Only a request that is answered gets a new token.                       *)
LEMMA Answered ==
  ASSUME TypeOK, NEW tab \in Tabs, TabStep(tab), pc'[tab] = "answered"
  PROVE  IssuePair(tab) \/ Rotate(tab)
<1> USE DEF TypeOK
<1>1. CASE Register(tab) \/ Login(tab) \/ RefreshAccess(tab) \/ Logout(tab)
  BY <1>1 DEF Register, Login, RefreshAccess, Logout, Begin
<1>2. CASE CreateUser(tab)
  BY <1>2 DEF CreateUser
<1>3. CASE Refresh(tab) \/ RotateRefused(tab) \/ RotateError(tab)
  BY <1>3 DEF Refresh, RotateRefused, RotateError
<1>4. CASE FindByHash(tab) \/ ScanForUser(tab) \/ RevokeAllForUser(tab)
  BY <1>4 DEF FindByHash, ScanForUser, RevokeAllForUser
<1>5. CASE StoreTokens(tab) \/ ClearStore(tab) \/ Lose(tab) \/ SignOut(tab)
  BY <1>5 DEF StoreTokens, ClearStore, Lose, SignOut, End
<1>6. CASE LookupRefresh(tab) \/ Revoke(tab) \/ LogoutError(tab)
  BY <1>6 DEF LookupRefresh, Revoke, LogoutError
<1> QED
  BY <1>1, <1>2, <1>3, <1>4, <1>5, <1>6 DEF TabStep

(* A new token is nobody else's.                                           *)
LEMMA FreshStep ==
  ASSUME TypeOK, CallsOK, FreshOK, NEW tab \in Tabs, TabStep(tab)
  PROVE  FreshOK'
<1> SUFFICES ASSUME NEW x \in Tabs, pc'[x] = "answered"
             PROVE  /\ \A y \in Tabs : y # x => held'[y] # held'[x]
                    /\ \A b \in Browsers : store'[b] # held'[x]
  BY DEF FreshOK
<1>0. /\ issued \in Nat
      /\ \A y \in Tabs : held[y] \in 0 .. issued
      /\ \A b \in Browsers : store[b] \in 0 .. issued
  BY SessionAssumption DEF TypeOK
<1>a. \A b \in Browsers : b # Home[tab] => store'[b] = store[b]
  BY Local
<1>b. store'[Home[tab]] \in {None, held[tab], store[Home[tab]]}
  BY OwnTokens
<1>c. Home[tab] \in Browsers
  BY SessionAssumption
<1>1. CASE x = tab
  <2>1. IssuePair(tab) \/ Rotate(tab)
    BY <1>1, Answered
  <2>2. held'[x] = issued + 1
    BY <1>1, <2>1 DEF IssuePair, Rotate, TypeOK
  <2>3. \A y \in Tabs : y # x => held'[y] = held[y]
    BY <1>1, Local
  <2>4. \A b \in Browsers : store'[b] \in 0 .. issued
    BY <1>0, <1>a, <1>b, <1>c
  <2> QED
    BY <1>0, <2>2, <2>3, <2>4
<1>2. CASE x # tab
  <2>1. pc[x] = "answered" /\ held'[x] = held[x]
    BY <1>2, Local
  <2>2. held[x] # None /\ held[x] # issued + 1
    BY <1>0, <2>1 DEF CallsOK
  <2>3. /\ \A y \in Tabs : y # x => held[y] # held[x]
        /\ \A b \in Browsers : store[b] # held[x]
    BY <2>1 DEF FreshOK
  <2>4. held'[tab] \in {None, held[tab], store[Home[tab]], issued + 1}
    BY OwnTokens
  <2>5. held'[tab] # held[x]
    BY <1>2, <1>c, <2>2, <2>3, <2>4
  <2>6. \A y \in Tabs : y # x => held'[y] # held[x]
    BY <2>3, <2>5, Local
  <2>7. \A b \in Browsers : store'[b] # held[x]
    BY <1>2, <1>a, <1>b, <1>c, <2>2, <2>3
  <2> QED
    BY <2>1, <2>6, <2>7
<1> QED
  BY <1>1, <1>2

(* The history only grows, and has everybody who ends a token.             *)
LEMMA HistoryStep ==
  ASSUME TypeOK, OriginsOK, NEW tab \in Tabs, TabStep(tab)
  PROVE  /\ swept \subseteq swept'
         /\ \A b \in Browsers : taken[b] \subseteq taken'[b]
         /\ \A t \in live \cup swept :
              \/ t \in live' \cup swept'
              \/ /\ t = held[tab] /\ t \in taken'[Home[tab]]
                 /\ pc[tab] \in {"rotate", "revoke"}
                 /\ \/ pc'[tab] \in {"answered", "out"}
                    \/ Home[tab] \in faulted'
<1> USE DEF None
<1> DEFINE Goal ==
      /\ swept \subseteq swept'
      /\ \A b \in Browsers : taken[b] \subseteq taken'[b]
      /\ \A t \in live \cup swept :
           \/ t \in live' \cup swept'
           \/ /\ t = held[tab] /\ t \in taken'[Home[tab]]
              /\ pc[tab] \in {"rotate", "revoke"}
              /\ \/ pc'[tab] \in {"answered", "out"}
                 \/ Home[tab] \in faulted'
<1>a. /\ \A t \in live : t \in live' \/ t = held[tab] \/ pc[tab] = "revokeAll"
      /\ pc \in [Tabs -> PCs] /\ Home[tab] \in Browsers
      /\ faulted \subseteq Browsers
      /\ 1 .. issued \subseteq 1 .. issued'
  <2>1. \A t \in live : t \in live' \/ t = held[tab] \/ pc[tab] = "revokeAll"
    BY LiveStep
  <2>2. 1 .. issued \subseteq 1 .. issued'
    BY LiveStep
  <2> QED
    BY <2>1, <2>2, SessionAssumption DEF TypeOK
<1>1. CASE Rotated(tab) /\ (Rotate(tab) \/ RotateError(tab))
  <2>1. /\ pc[tab] = "rotate" /\ swept' = swept /\ Take(tab)
        /\ pc'[tab] = "answered" \/ Home[tab] \in faulted'
    BY <1>1, <1>a DEF Rotate, RotateError, Rotated, Fault
  <2>2. /\ held[tab] \in live => held[tab] \in taken'[Home[tab]]
        /\ \A b \in Browsers : taken[b] \subseteq taken'[b]
    BY <1>a, <2>1, TakeType
  <2> QED
    BY <1>a, <2>1, <2>2
<1>2. CASE Revoke(tab)
  <2>1. /\ pc[tab] = "revoke" /\ swept' = swept /\ Take(tab)
        /\ pc'[tab] = "out"
    BY <1>2, <1>a DEF Revoke
  <2>2. /\ held[tab] \in live => held[tab] \in taken'[Home[tab]]
        /\ \A b \in Browsers : taken[b] \subseteq taken'[b]
    BY <1>a, <2>1, TakeType
  <2> QED
    BY <1>a, <2>1, <2>2
<1>3. CASE RevokeAllForUser(tab)
  <2>1. /\ issued' = issued /\ taken' = taken
        /\ swept' = swept \cup (doomed[tab] \cap live)
        /\ \A t \in Tokens : revokedAt'[t] =
             IF t \in doomed[tab] \cap live THEN now[tab] ELSE revokedAt[t]
    BY <1>3 DEF RevokeAllForUser
  <2>2. \A t \in 1 .. issued : t \in Tokens
    BY SessionAssumption DEF TypeOK
  <2>3. \A t \in live : t \in live' \cup swept'
    BY <2>1, <2>2 DEF live
  <2> QED
    BY <2>1, <2>3
<1>4. CASE \/ IssuePair(tab)
           \/ UNCHANGED <<issued, origin, revokedAt, swept, taken>>
  <2>1. revokedAt' = revokedAt /\ swept' = swept /\ taken' = taken
    BY <1>4 DEF IssuePair, revokeVars
  <2>2. \A t \in live : t \in live'
    BY <1>a, <2>1 DEF live
  <2> QED
    BY <2>1, <2>2
<1> QED
  BY <1>1, <1>2, <1>3, <1>4, TokenKinds

(* A call has its token of a session of its own browser.                   *)
LEMMA Own ==
  ASSUME TypeOK, OwnersOK, NEW x \in Tabs, NEW y \in Tabs,
         held[x] # None, held[y] # None,
         origin[held[x]] = origin[held[y]]
  PROVE  Home[x] = Home[y]
<1>1. Home[x] \in Browsers /\ Home[y] \in Browsers
  BY SessionAssumption
<1>2. Knows(Home[x], held[x]) /\ Knows(Home[y], held[y])
  BY DEF Knows
<1>3. held[x] \in 1 .. issued /\ held[y] \in 1 .. issued
  BY <1>1, <1>2, KnownIssued
<1> QED
  BY <1>1, <1>2, <1>3 DEF OwnersOK

(* A token remains the head of its session unless its holder rotates it.   *)
LEMMA HeadStep ==
  ASSUME TypeOK, OriginsOK, NEW tab \in Tabs, TabStep(tab),
         NEW t \in 1 .. issued, HeadOf(t)
  PROVE  HeadOf(t)' \/ (Rotated(tab) /\ held[tab] = t)
<1> SUFFICES ASSUME NEW u \in live', origin'[u] = origin'[t],
                    ~(Rotated(tab) /\ held[tab] = t)
             PROVE  u = t
  BY DEF HeadOf
<1>1. /\ issued \in Nat
      /\ \A s \in 1 .. issued : origin'[s] = origin[s] /\ origin[s] \in 1 .. issued
  <2>1. issued \in Nat
    BY SessionAssumption DEF TypeOK
  <2>2. \A s \in 1 .. issued : origin'[s] = origin[s]
    BY LiveStep
  <2> QED
    BY <2>1, <2>2 DEF OriginsOK
<1>2. CASE u \in live
  <2>1. u \in 1 .. issued
    BY <1>2 DEF live
  <2> QED
    BY <1>1, <1>2, <2>1 DEF HeadOf
<1>3. CASE origin'[u] = issued + 1
  <2>1. origin'[t] \in 1 .. issued
    BY <1>1
  <2>2. issued + 1 \in 1 .. issued
    BY <1>3, <2>1
  <2> QED
    BY <1>1, <2>2
<1>4. CASE /\ Rotated(tab) /\ held[tab] \in live
           /\ origin'[u] = origin[held[tab]]
  <2>1. origin[held[tab]] = origin[t]
    BY <1>1, <1>4
  <2> QED
    BY <1>4, <2>1 DEF HeadOf
<1> QED
  BY <1>2, <1>3, <1>4, LiveStep

(* The sessions of a browser and what another tab's step does to them.     *)
LEMMA SessionsApart ==
  ASSUME StoryInv, NEW tab \in Tabs, TabStep(tab),
         NEW b \in Browsers, b # Home[tab],
         NEW t, Knows(b, t)
  PROVE  \A u \in live' : origin'[u] = origin'[t] =>
           u \in live /\ origin[u] = origin[t]
<1> USE SessionAssumption DEF StoryInv, IndInv
<1>1. t \in 1 .. issued /\ issued \in Nat /\ Home[tab] \in Browsers
  <2>1. t \in 1 .. issued
    BY KnownIssued
  <2>2. issued \in Nat
    BY DEF TypeOK
  <2> QED
    BY <2>1, <2>2
<1>2. /\ origin'[t] = origin[t] /\ origin[t] \in 1 .. issued
      /\ \A u \in live : origin'[u] = origin[u]
  <2>1. \A u \in 1 .. issued : origin'[u] = origin[u]
    BY LiveStep
  <2>2. origin[t] \in 1 .. issued
    BY <1>1 DEF OriginsOK
  <2> QED
    BY <1>1, <2>1, <2>2 DEF live
<1>3. held[tab] \in 1 .. issued => origin[held[tab]] # origin[t]
  <2> SUFFICES ASSUME held[tab] \in 1 .. issued, origin[held[tab]] = origin[t]
               PROVE  FALSE
    OBVIOUS
  <2>1. held[tab] # None
    OBVIOUS
  <2>2. Knows(Home[tab], held[tab])
    BY <2>1 DEF Knows
  <2> QED
    BY <1>1, <2>2 DEF OwnersOK
<1>4. ASSUME NEW u \in live', origin'[u] = origin'[t], u \notin live
      PROVE  FALSE
  <2>1. CASE origin'[u] = issued + 1
    BY <1>1, <1>2, <1>4, <2>1
  <2>2. CASE held[tab] \in live /\ origin'[u] = origin[held[tab]]
    <3>1. held[tab] \in 1 .. issued
      BY <2>2 DEF live
    <3> QED
      BY <1>2, <1>3, <1>4, <2>2, <3>1
  <2> QED
    BY <1>4, <2>1, <2>2, LiveStep
<1> QED
  BY <1>2, <1>4

(* What other calls believe of their tokens stays true.                    *)
LEMMA OtherCall ==
  ASSUME StoryInv, NEW tab \in Tabs, TabStep(tab),
         NEW x \in Tabs, x # tab, CallOK(x)
  PROVE  CallOK(x)'
<1>a. TypeOK /\ OriginsOK /\ OwnersOK /\ CallsOK /\ FreshOK
  BY DEF StoryInv, IndInv
<1>b. /\ pc'[x] = pc[x] /\ held'[x] = held[x]
      /\ x \in dated => x \in dated'
      /\ x \in overlapped => x \in overlapped'
      /\ Home[x] # Home[tab] /\ x \in overlapped' => x \in overlapped
      /\ expired' = expired
  BY <1>a, Local
<1>c. /\ swept \subseteq swept'
      /\ taken[Home[x]] \subseteq taken'[Home[x]]
      /\ \A t \in live \cup swept :
           \/ t \in live' \cup swept'
           \/ /\ t = held[tab] /\ t \in taken'[Home[tab]]
              /\ pc[tab] \in {"rotate", "revoke"}
  BY <1>a, HistoryStep, SessionAssumption
<1>d. LostRace(x) => LostRace(x)'
  BY <1>b, <1>c DEF LostRace
<1>1. ASSUME pc[x] = "answered"
      PROVE  HeadOf(held[x])' /\ Lasting(held[x])'
  <2>1. HeadOf(held[x]) /\ Lasting(held[x])
    BY <1>1 DEF CallOK
  <2>2. held[tab] # held[x]
    BY <1>1, <1>a DEF FreshOK
  <2>3. held[x] \in 1 .. issued
    <3>1. held[x] # None
      BY <1>1, <1>a DEF CallsOK
    <3>2. held[x] \in 0 .. issued /\ issued \in Nat
      BY <1>a, SessionAssumption DEF TypeOK
    <3> QED
      BY <3>1, <3>2
  <2>4. PICK h : h = held[x]
    OBVIOUS
  <2>5. HeadOf(h)'
    BY <1>a, <2>1, <2>2, <2>3, <2>4, HeadStep
  <2>6. Lasting(h)'
    BY <1>c, <2>1, <2>2, <2>4 DEF Lasting
  <2> QED
    BY <1>b, <2>4, <2>5, <2>6 DEF HeadOf, Lasting
<1>2. ASSUME pc[x] \in {"arrive", "rotate"}
      PROVE  Lasting(held[x])' \/ LostRace(x)'
  <2>1. CASE Lasting(held[x])
    <3>1. CASE held[x] \in live' \cup swept'
      BY <1>b, <3>1 DEF Lasting
    <3>2. CASE /\ held[x] = held[tab] /\ held[x] \in taken'[Home[tab]]
               /\ pc[tab] \in {"rotate", "revoke"}
      <4>1. held[x] # None
        BY <1>2, <1>a DEF CallsOK
      <4>2. Home[x] = Home[tab]
        BY <1>a, <3>2, <4>1, Own
      <4>3. x \in overlapped
        BY <1>2, <1>a, <3>2, <4>2 DEF CallsOK
      <4> QED
        BY <1>b, <3>2, <4>2, <4>3 DEF LostRace
    <3> QED
      BY <1>c, <2>1, <3>1, <3>2 DEF Lasting
  <2>2. CASE LostRace(x)
    BY <1>d, <2>2
  <2> QED
    BY <1>2, <2>1, <2>2 DEF CallOK
<1>3. ASSUME pc[x] \in {"find", "scan", "revokeAll", "refused"}
      PROVE  x \in dated' \/ held'[x] \in swept' \/ LostRace(x)'
  BY <1>3, <1>b, <1>c, <1>d DEF CallOK
<1>4. ASSUME pc[x] = "out", x \notin overlapped',
             NEW u \in live', origin'[u] = origin'[held[x]]
      PROVE  u \in expired
  <2>1. Home[x] # Home[tab]
    BY <1>4, <1>a, Meet
  <2>2. held[x] # None
    BY <1>4, <1>a DEF CallsOK
  <2>3. Home[x] \in Browsers /\ Knows(Home[x], held[x])
    BY <2>2, SessionAssumption DEF Knows
  <2>4. u \in live /\ origin[u] = origin[held[x]]
    BY <1>4, <2>1, <2>3, SessionsApart
  <2>5. x \notin overlapped
    BY <1>4, <1>b
  <2> QED
    BY <1>4, <2>4, <2>5 DEF CallOK
<1> QED
  BY <1>1, <1>2, <1>3, <1>4, <1>b DEF CallOK

(* The call that moves may believe what it does of its token.              *)
LEMMA OwnStory ==
  ASSUME StoryInv, NEW tab \in Tabs, TabStep(tab),
         Home[tab] \notin faulted'
  PROVE  CallOK(tab)'
<1> DEFINE b == Home[tab]
<1>a. TypeOK /\ OriginsOK /\ CallsOK /\ OneLiveToken
  BY DEF StoryInv, IndInv
<1>b. b \in Browsers \ faulted
  BY <1>a, Local, SessionAssumption
<1>c. StoreOK(b) /\ CallOK(tab)
  BY <1>b DEF StoryInv, BrowsersOK
<1>d. expired' = expired
  BY <1>a, Local
<1>e. swept \subseteq swept' /\ taken[b] \subseteq taken'[b]
  BY <1>a, <1>b, HistoryStep
<1>f. /\ pc \in [Tabs -> PCs] /\ held \in [Tabs -> 0 .. issued]
      /\ store \in [Browsers -> 0 .. issued] /\ issued \in Nat
      /\ expired \subseteq 1 .. issued
  BY <1>a, SessionAssumption, SMTT(30) DEF TypeOK
<1> DEFINE Same == UNCHANGED <<issued, origin, revokedAt, swept, taken>>
<1>g. ASSUME Same, held'[tab] = held[tab], pc[tab] # "idle", pc'[tab] # "idle"
      PROVE  LostRace(tab) => LostRace(tab)'
  BY <1>a, <1>g, OwnCall DEF LostRace
<1>1. CASE Register(tab) \/ CreateUser(tab) \/ Login(tab)
  <2>1. pc'[tab] \in {"idle", "create", "issue"}
    BY <1>1, <1>f DEF Register, CreateUser, Login, Begin
  <2> QED
    BY <2>1 DEF CallOK
<1>2. CASE IssuePair(tab)
  <2>1. /\ Insert(issued + 1, issued + 1) /\ revokedAt' = revokedAt
        /\ pc'[tab] = "answered" /\ held'[tab] = issued + 1
    BY <1>2, <1>f DEF IssuePair
  <2>2. issued' = issued + 1 /\ issued + 1 \in Tokens
    BY <2>1 DEF Insert
  <2>3. origin'[issued + 1] = issued + 1
    BY <1>a, <2>1, <2>2, InsertType
  <2>4. issued + 1 \in live'
    BY <1>a, <1>f, <2>1, <2>2 DEF OriginsOK, live
  <2>5. ASSUME NEW u \in live', origin'[u] = issued + 1 PROVE u = issued + 1
    <3>1. SUFFICES ASSUME u # issued + 1 PROVE FALSE
      OBVIOUS
    <3>2. u \in 1 .. issued
      BY <1>f, <2>2, <3>1 DEF live
    <3>3. origin'[u] = origin[u] /\ origin[u] \in 1 .. issued
      BY <1>a, <3>2, LiveStep DEF OriginsOK
    <3> QED
      BY <1>f, <2>5, <3>3
  <2> QED
    BY <2>1, <2>3, <2>4, <2>5 DEF CallOK, HeadOf, Lasting
<1>3. CASE RefreshAccess(tab)
  <2>1. /\ Same /\ pc[tab] = "idle" /\ pc'[tab] = "arrive"
        /\ held'[tab] = store[b] /\ store[b] # None
    BY <1>3, <1>f DEF RefreshAccess, Begin, tokenVars
  <2>2. CASE Lasting(store[b])
    <3>1. store[b] \in live' \cup swept'
      BY <2>1, <2>2 DEF Lasting, live
    <3> QED
      BY <2>1, <3>1 DEF CallOK, Lasting
  <2>3. CASE /\ store[b] \in taken[b]
             /\ \E x \in Tabs : Home[x] = b /\ pc[x] \in {"answered", "out"}
    <3>1. PICK x \in Tabs : Home[x] = b /\ pc[x] \in {"answered", "out"}
      BY <2>3
    <3>2. tab \in overlapped'
      BY <1>a, <2>1, <3>1, Meet
    <3>3. LostRace(tab)'
      BY <2>1, <2>3, <3>2 DEF LostRace
    <3> QED
      BY <2>1, <3>3 DEF CallOK
  <2> QED
    BY <1>c, <2>1, <2>2, <2>3 DEF StoreOK
<1>4. CASE Logout(tab)
  <2>1. pc'[tab] = "lookup"
    BY <1>4, <1>f DEF Logout, Begin
  <2> QED
    BY <2>1 DEF CallOK
<1>5. CASE Refresh(tab)
  <2>1. /\ Same /\ pc[tab] = "arrive" /\ pc'[tab] = "rotate"
        /\ held' = held
    BY <1>5, <1>f DEF Refresh, tokenVars
  <2>2. Lasting(held[tab]) => Lasting(held[tab])'
    BY <2>1 DEF Lasting, live
  <2> QED
    BY <1>c, <1>g, <2>1, <2>2 DEF CallOK
<1>6. CASE Rotate(tab)
  <2>1. /\ Rotated(tab) /\ pc'[tab] = "answered" /\ held'[tab] = issued + 1
    BY <1>6, <1>f DEF Rotate
  <2>2. held[tab] \in live /\ held[tab] \in 1 .. issued
    BY <2>1 DEF Rotated, Rotatable, live
  <2>3. held[tab] \in Tokens /\ origin[held[tab]] \in Tokens
    BY <1>a, <2>2, SessionAssumption DEF TypeOK, OriginsOK
  <2>4. /\ Insert(issued + 1, origin[held[tab]])
        /\ revokedAt' = [revokedAt EXCEPT ![held[tab]] = now[tab]]
    BY <2>1 DEF Rotated
  <2>5. issued' = issued + 1 /\ issued + 1 \in Tokens
    BY <2>4 DEF Insert
  <2>6. origin'[issued + 1] = origin[held[tab]]
    BY <1>a, <2>3, <2>4, InsertType
  <2>7. issued + 1 \in live'
    <3>1. revokedAt[issued + 1] = NULL /\ issued + 1 # held[tab]
      BY <1>a, <1>f, <2>2, <2>5 DEF OriginsOK
    <3>2. revokedAt'[issued + 1] = NULL
      BY <1>a, <2>4, <2>5, <3>1 DEF TypeOK
    <3> QED
      BY <1>f, <2>5, <3>2 DEF live
  <2>8. ASSUME NEW u \in live', origin'[u] = origin[held[tab]]
        PROVE  u = issued + 1
    <3>1. SUFFICES ASSUME u # issued + 1 PROVE FALSE
      OBVIOUS
    <3>2. u \in live /\ u \in 1 .. issued
      BY <1>a, <3>1, LiveStep DEF live
    <3>3. origin[u] = origin[held[tab]]
      BY <1>a, <2>8, <3>2, LiveStep
    <3>4. u = held[tab]
      BY <1>a, <2>2, <3>2, <3>3 DEF OneLiveToken
    <3>5. held[tab] \notin live'
      BY <1>a, <2>1, LiveStep
    <3> QED
      BY <3>4, <3>5
  <2> QED
    BY <2>1, <2>6, <2>7, <2>8 DEF CallOK, HeadOf, Lasting
<1>7. CASE RotateError(tab) \/ Lose(tab) \/ LogoutError(tab)
  <2>1. b \in faulted'
    BY <1>7 DEF RotateError, Lose, LogoutError, Fault
  <2> QED
    BY <2>1
<1>8. CASE RotateRefused(tab)
  <2>1. /\ Same /\ pc[tab] = "rotate" /\ pc'[tab] = "find"
        /\ held' = held /\ dated' = dated /\ ~Rotatable(tab)
    BY <1>8, <1>f DEF RotateRefused, tokenVars, readVars
  <2>2. tab \in dated \/ held[tab] \in swept \/ LostRace(tab)
    BY <1>c, <2>1 DEF CallOK, Lasting, Rotatable
  <2> QED
    BY <1>g, <2>1, <2>2 DEF CallOK
<1>9. CASE FindByHash(tab) \/ ScanForUser(tab)
  <2>1. /\ Same /\ held' = held /\ dated' = dated
        /\ pc[tab] \in {"find", "scan"}
        /\ pc'[tab] \in {"scan", "revokeAll", "refused"}
    BY <1>9, <1>f DEF FindByHash, ScanForUser, tokenVars, readVars
  <2> QED
    BY <1>c, <1>g, <2>1 DEF CallOK
<1>10. CASE RevokeAllForUser(tab)
  <2>1. /\ held' = held /\ dated' = dated
        /\ overlapped' = overlapped /\ taken' = taken
        /\ pc[tab] = "revokeAll" /\ pc'[tab] = "refused"
    BY <1>10, <1>f DEF RevokeAllForUser
  <2>2. LostRace(tab) => LostRace(tab)'
    BY <2>1 DEF LostRace
  <2> QED
    BY <1>c, <1>e, <2>1, <2>2 DEF CallOK
<1>11. CASE StoreTokens(tab) \/ ClearStore(tab) \/ SignOut(tab)
  <2>1. pc'[tab] = "idle"
    BY <1>11, <1>f DEF StoreTokens, ClearStore, SignOut, End
  <2> QED
    BY <2>1 DEF CallOK
<1>12. ASSUME pc[tab] \in {"lookup", "revoke"}, tab \notin overlapped
       PROVE  HeadOf(held[tab])
  <2>1. store[b] = held[tab] /\ store[b] # None
    BY <1>12, <1>a DEF CallsOK
  <2>2. \A x \in Tabs : Home[x] = b /\ x # tab => pc[x] = "idle"
    BY <1>12, <1>a DEF CallsOK
  <2> QED
    BY <1>12, <1>c, <2>1, <2>2 DEF StoreOK
<1>13. CASE LookupRefresh(tab)
  <2>1. /\ Same /\ pc[tab] = "lookup" /\ held' = held
        /\ overlapped' = overlapped
        /\ \/ pc'[tab] = "revoke"
           \/ pc'[tab] = "out" /\ held[tab] \notin live \ expired
    BY <1>13, <1>f DEF LookupRefresh, tokenVars
  <2>2. ASSUME pc'[tab] = "out", tab \notin overlapped,
               NEW t \in live, origin[t] = origin[held[tab]]
        PROVE  t \in expired
    BY <1>12, <2>1, <2>2 DEF HeadOf
  <2>3. live' = live
    BY <2>1 DEF live
  <2> QED
    BY <1>d, <2>1, <2>2, <2>3 DEF CallOK
<1>14. CASE Revoke(tab)
  <2>1. /\ issued' = issued /\ origin' = origin /\ held' = held
        /\ overlapped' = overlapped
        /\ pc[tab] = "revoke" /\ pc'[tab] = "out"
        /\ RevokeOne(held[tab], now[tab])
    BY <1>14, <1>f DEF Revoke
  <2>2. /\ live' \subseteq live /\ held[tab] \notin live'
        /\ \A t \in 1 .. issued : t \in Tokens
    <3>1. now[tab] \in Int /\ now[tab] # NULL
      BY <1>a DEF TypeOK
    <3>2. \A t \in 1 .. issued : t \in Tokens
      BY <1>a, SessionAssumption DEF TypeOK
    <3>3. \A t \in Tokens : revokedAt'[t] =
            IF t = held[tab] /\ t \in live THEN now[tab] ELSE revokedAt[t]
      BY <1>a, <2>1 DEF RevokeOne, TypeOK
    <3> QED
      BY <2>1, <3>1, <3>2, <3>3 DEF live
  <2>3. ASSUME tab \notin overlapped
        PROVE  \A t \in live' : origin[t] # origin[held[tab]]
    BY <1>12, <2>1, <2>2, <2>3 DEF HeadOf
  <2> QED
    BY <2>1, <2>3 DEF CallOK
<1> QED
  BY <1>1, <1>2, <1>3, <1>4, <1>5, <1>6, <1>7, <1>8, <1>9, <1>10, <1>11,
     <1>13, <1>14 DEF TabStep

(* Only the end of a call writes to the store.                             *)
LEMMA StoreStep ==
  ASSUME TypeOK, NEW tab \in Tabs, TabStep(tab), Home[tab] \notin faulted'
  PROVE  \/ store' = store /\ pc[tab] \notin {"answered", "out"}
         \/ store'[Home[tab]] = None
         \/ StoreTokens(tab)
<1> USE SessionAssumption DEF TypeOK
<1>1. CASE Register(tab) \/ Login(tab) \/ RefreshAccess(tab) \/ Logout(tab)
  BY <1>1 DEF Register, Login, RefreshAccess, Logout, Begin
<1>2. CASE CreateUser(tab) \/ IssuePair(tab)
  BY <1>2 DEF CreateUser, IssuePair
<1>3. CASE Refresh(tab) \/ Rotate(tab) \/ RotateRefused(tab)
  BY <1>3 DEF Refresh, Rotate, RotateRefused
<1>4. CASE FindByHash(tab) \/ ScanForUser(tab) \/ RevokeAllForUser(tab)
  BY <1>4 DEF FindByHash, ScanForUser, RevokeAllForUser
<1>5. CASE ClearStore(tab) \/ SignOut(tab)
  BY <1>5 DEF ClearStore, SignOut
<1>6. CASE LookupRefresh(tab) \/ Revoke(tab)
  BY <1>6 DEF LookupRefresh, Revoke
<1>7. CASE RotateError(tab) \/ Lose(tab) \/ LogoutError(tab)
  BY <1>7 DEF RotateError, Lose, LogoutError, Fault
<1> QED
  BY <1>1, <1>2, <1>3, <1>4, <1>5, <1>6, <1>7 DEF TabStep

(* The store of the browser whose call moves.                              *)
LEMMA OwnStore ==
  ASSUME StoryInv, NEW tab \in Tabs, TabStep(tab),
         Home[tab] \notin faulted'
  PROVE  StoreOK(Home[tab])'
<1> DEFINE b == Home[tab]
<1>a. TypeOK /\ OriginsOK /\ CallsOK
  BY DEF StoryInv, IndInv
<1>b. b \in Browsers \ faulted
  BY <1>a, Local, SessionAssumption
<1>c. StoreOK(b) /\ CallOK(tab)
  BY <1>b DEF StoryInv, BrowsersOK
<1>1. CASE store'[b] = None
  BY <1>1 DEF StoreOK
<1>2. CASE StoreTokens(tab)
  <2>1. /\ UNCHANGED <<issued, origin, revokedAt, swept, taken>>
        /\ pc[tab] = "answered" /\ store'[b] = held[tab]
    BY <1>2, <1>a, <1>b DEF StoreTokens, End, tokenVars, TypeOK
  <2>2. PICK h : h = held[tab]
    OBVIOUS
  <2>3. HeadOf(h) /\ Lasting(h)
    BY <1>c, <2>1, <2>2 DEF CallOK
  <2>4. live' = live
    BY <2>1 DEF live
  <2> QED
    BY <2>1, <2>2, <2>3, <2>4 DEF StoreOK, HeadOf, Lasting
<1>3. CASE store' = store /\ pc[tab] \notin {"answered", "out"} /\ store[b] # None
  <2>1. \A x \in Tabs : pc[x] \in {"answered", "out"} => pc'[x] = pc[x]
    BY <1>a, <1>3, Local
  <2>2. \/ Lasting(store[b])'
        \/ /\ store[b] \in taken'[b]
           /\ \E x \in Tabs : Home[x] = b /\ pc'[x] \in {"answered", "out"}
    <3>1. taken[b] \subseteq taken'[b]
      BY <1>a, <1>b, HistoryStep
    <3>2. CASE Lasting(store[b])
      <4>1. CASE store[b] \in live' \cup swept'
        BY <1>3, <4>1 DEF Lasting
      <4>2. CASE store[b] \in taken'[b] /\ pc'[tab] \in {"answered", "out"}
        BY <4>2
      <4> QED
        BY <1>a, <3>2, <4>1, <4>2, HistoryStep DEF Lasting
    <3>3. CASE /\ store[b] \in taken[b]
               /\ \E x \in Tabs : Home[x] = b /\ pc[x] \in {"answered", "out"}
      BY <2>1, <3>1, <3>3
    <3> QED
      BY <1>3, <1>c, <3>2, <3>3 DEF StoreOK
  <2>3. \/ HeadOf(store[b])'
        \/ \E x \in Tabs : Home[x] = b /\ pc'[x] = "answered"
    <3>1. CASE HeadOf(store[b])
      <4>1. PICK h : h = store[b]
        OBVIOUS
      <4>2. h \in 1 .. issued
        BY <1>3, <1>a, <1>b, <4>1, SessionAssumption DEF TypeOK
      <4>3. CASE HeadOf(h)'
        BY <1>3, <4>1, <4>3 DEF HeadOf
      <4>4. CASE Rotated(tab)
        <5>1. Rotate(tab) \/ RotateError(tab)
          <6>1. held[tab] \in live /\ held[tab] \notin live'
            BY <1>a, <4>4, LiveStep DEF Rotated, Rotatable
          <6>2. issued' # issued
            BY <1>a, <4>4, SessionAssumption DEF Rotated, Insert, TypeOK
          <6>3. ~IssuePair(tab)
            BY <1>a, <6>1, LiveStep DEF IssuePair, live
          <6> QED
            BY <6>2, <6>3, TokenKinds DEF Revoke, RevokeAllForUser
        <5>2. ~RotateError(tab)
          BY <1>b DEF RotateError, Fault
        <5>3. pc'[tab] = "answered"
          BY <1>a, <5>1, <5>2 DEF Rotate, TypeOK
        <5> QED
          BY <5>3
      <4> QED
        BY <1>a, <3>1, <4>1, <4>2, <4>3, <4>4, HeadStep
    <3>2. CASE \E x \in Tabs : Home[x] = b /\ pc[x] = "answered"
      BY <2>1, <3>2
    <3> QED
      BY <1>3, <1>c, <3>1, <3>2 DEF StoreOK
  <2> QED
    BY <1>3, <2>2, <2>3 DEF StoreOK, HeadOf, Lasting
<1>4. CASE store' = store /\ store[b] = None
  BY <1>4 DEF StoreOK
<1> QED
  BY <1>a, <1>1, <1>2, <1>3, <1>4, StoreStep

(* The store of another browser.                                           *)
LEMMA OtherStore ==
  ASSUME StoryInv, NEW tab \in Tabs, TabStep(tab),
         NEW b \in Browsers, b # Home[tab], StoreOK(b)
  PROVE  StoreOK(b)'
<1>a. TypeOK /\ OriginsOK /\ OwnersOK
  BY DEF StoryInv, IndInv
<1>b. store'[b] = store[b] /\ Home[tab] \in Browsers
  BY <1>a, Local, SessionAssumption
<1>c. \A x \in Tabs : Home[x] = b => pc'[x] = pc[x]
  BY <1>a, Local
<1>d. taken[b] \subseteq taken'[b]
  BY <1>a, HistoryStep
<1> SUFFICES ASSUME store[b] # None PROVE StoreOK(b)'
  BY <1>b DEF StoreOK
<1>1. PICK h : h = store[b]
  OBVIOUS
<1>2. Knows(b, h) /\ h \in 1 .. issued
  BY <1>a, <1>1, KnownIssued DEF Knows
<1>3. h # held[tab]
  <2> SUFFICES ASSUME h = held[tab] PROVE FALSE
    OBVIOUS
  <2>1. Knows(Home[tab], h)
    BY <1>2 DEF Knows
  <2> QED
    BY <1>a, <1>b, <1>2, <2>1 DEF OwnersOK
<1>4. Lasting(h) => Lasting(h)'
  BY <1>a, <1>3, HistoryStep DEF Lasting
<1>5. HeadOf(h) => HeadOf(h)'
  BY <1>a, <1>2, <1>3, HeadStep
<1> QED
  BY <1>b, <1>c, <1>d, <1>1, <1>4, <1>5 DEF StoreOK, HeadOf, Lasting

(* Stores and calls of browsers without a fault stay as they should be.    *)
LEMMA BrowsersStep ==
  ASSUME StoryInv, NEW tab \in Tabs, TabStep(tab)
  PROVE  BrowsersOK'
<1> SUFFICES ASSUME NEW b \in Browsers \ faulted'
             PROVE  StoreOK(b)' /\ \A x \in Tabs : Home[x] = b => CallOK(x)'
  BY DEF BrowsersOK
<1>a. TypeOK
  BY DEF StoryInv, IndInv
<1>1. b \in Browsers \ faulted
  BY <1>a, Local
<1>2. StoreOK(b) /\ \A x \in Tabs : Home[x] = b => CallOK(x)
  BY <1>1 DEF StoryInv, BrowsersOK
<1>3. StoreOK(b)'
  BY <1>2, OwnStore, OtherStore
<1>4. ASSUME NEW x \in Tabs, Home[x] = b PROVE CallOK(x)'
  BY <1>2, <1>4, OwnStory, OtherCall
<1> QED
  BY <1>3, <1>4

(* Initially nobody has a token.                                           *)
LEMMA StoryInit == Init => StoryInv
<1> SUFFICES ASSUME Init PROVE OwnersOK /\ CallsOK /\ FreshOK /\ BrowsersOK
  BY IndInit DEF StoryInv
<1> USE SessionAssumption DEF Init
<1>1. OwnersOK
  BY DEF OwnersOK
<1>2. CallsOK /\ FreshOK
  BY DEF CallsOK, FreshOK
<1>3. \A b \in Browsers : StoreOK(b)
  BY DEF StoreOK
<1>4. \A x \in Tabs : CallOK(x)
  BY DEF CallOK
<1> QED
  BY <1>1, <1>2, <1>3, <1>4 DEF BrowsersOK

(* Steps that move no call: time, expiry and stuttering.                   *)
LEMMA QuietStep ==
  ASSUME StoryInv,
         UNCHANGED <<issued, origin, revokedAt, swept, taken, store, pc, held,
                     dated, overlapped, faulted>>,
         expired \subseteq expired'
  PROVE  OwnersOK' /\ CallsOK' /\ FreshOK' /\ BrowsersOK'
<1>1. OwnersOK'
  BY DEF StoryInv, OwnersOK, Knows
<1>2. CallsOK' /\ FreshOK'
  BY DEF StoryInv, CallsOK, FreshOK
<1>3. live' = live
  BY DEF live
<1>4. ASSUME NEW b \in Browsers, StoreOK(b) PROVE StoreOK(b)'
  BY <1>3, <1>4 DEF StoreOK, Lasting, HeadOf
<1>5. ASSUME NEW x \in Tabs, CallOK(x) PROVE CallOK(x)'
  BY <1>3, <1>5 DEF CallOK, Lasting, HeadOf, LostRace
<1> QED
  BY <1>1, <1>2, <1>4, <1>5 DEF StoryInv, BrowsersOK

(* The invariant of the browsers holds throughout.                         *)
LEMMA StoryInductive == Spec => []StoryInv
<1>1. StoryInv /\ [Next]_vars => StoryInv'
  <2> SUFFICES ASSUME StoryInv, [Next]_vars PROVE StoryInv'
    OBVIOUS
  <2>1. IndInv /\ IndInv'
    BY TypeStep, OneLiveStep, PromptStep DEF StoryInv, IndInv
  <2>2. TypeOK /\ OriginsOK /\ OwnersOK /\ CallsOK /\ FreshOK
    BY <2>1 DEF StoryInv, IndInv
  <2>3. ASSUME NEW tab \in Tabs, TabStep(tab)
        PROVE  OwnersOK' /\ CallsOK' /\ FreshOK' /\ BrowsersOK'
    <3>1. OwnersOK'
      BY <2>2, <2>3, OwnersStep
    <3>2. CallsOK'
      BY <2>2, <2>3, CallsStep
    <3>3. FreshOK'
      BY <2>2, <2>3, FreshStep
    <3>4. BrowsersOK'
      BY <2>3, BrowsersStep
    <3> QED
      BY <3>1, <3>2, <3>3, <3>4, Zenon
  <2>4. ASSUME Tick \/ \E t \in Tokens : Expire(t)
        PROVE  OwnersOK' /\ CallsOK' /\ FreshOK' /\ BrowsersOK'
    <3>1. /\ UNCHANGED <<issued, origin, revokedAt, swept, taken, store, pc, held,
                         dated, overlapped, faulted>>
          /\ expired \subseteq expired'
      BY <2>4, TimeStep
    <3> QED
      BY <3>1, QuietStep
  <2>5. ASSUME UNCHANGED vars
        PROVE  OwnersOK' /\ CallsOK' /\ FreshOK' /\ BrowsersOK'
    <3>1. /\ UNCHANGED <<issued, origin, revokedAt, swept, taken, store, pc, held,
                         dated, overlapped, faulted>>
          /\ expired \subseteq expired'
      BY <2>5 DEF vars
    <3> QED
      BY <3>1, QuietStep
  <2>6. OwnersOK' /\ CallsOK' /\ FreshOK' /\ BrowsersOK'
    <3>1. \/ \E tab \in Tabs : TabStep(tab)
          \/ Tick \/ \E t \in Tokens : Expire(t)
          \/ UNCHANGED vars
      BY Steps
    <3> QED
      BY <2>3, <2>4, <2>5, <3>1, Zenon
  <2> QED
    BY <2>1, <2>6 DEF StoryInv
<1> QED
  BY StoryInit, <1>1, PTL DEF Spec

(* A refused refresh has a reason: its token had expired or was revoked    *)
(* with all sessions of the user, a call of the browser failed, or another *)
(* call of the browser took the token meanwhile; and only a call that met  *)
(* another one drops tokens that are not the refused ones.                 *)
THEOREM RefusalsHaveReasons == Spec => []RefusedForAReason
<1>1. StoryInv => RefusedForAReason
  <2> SUFFICES ASSUME StoryInv, NEW tab \in Tabs, pc[tab] = "refused"
               PROVE  /\ \/ tab \in dated
                         \/ held[tab] \in swept
                         \/ Home[tab] \in faulted
                         \/ LostRace(tab)
                      /\ tab \in overlapped \/ store[Home[tab]] = held[tab]
    BY DEF RefusedForAReason
  <2>1. tab \in overlapped \/ store[Home[tab]] = held[tab]
    BY DEF StoryInv, CallsOK
  <2>2. CASE Home[tab] \notin faulted
    <3>1. CallOK(tab)
      BY <2>2, SessionAssumption DEF StoryInv, BrowsersOK
    <3> QED
      BY <2>1, <3>1 DEF CallOK
  <2> QED
    BY <2>1, <2>2
<1> QED
  BY <1>1, StoryInductive, PTL

(* A sign-out that met no other call of its browser, none of which failed, *)
(* leaves no token of the session that can still be redeemed.              *)
THEOREM SignOutEndsSession == Spec => []LogoutEndsSession
<1>1. StoryInv => LogoutEndsSession
  <2> SUFFICES ASSUME StoryInv, NEW tab \in Tabs, pc[tab] = "out",
                      tab \notin overlapped, Home[tab] \notin faulted,
                      NEW t \in live, origin[t] = origin[held[tab]]
               PROVE  t \in expired
    BY DEF LogoutEndsSession
  <2>1. CallOK(tab)
    BY SessionAssumption DEF StoryInv, BrowsersOK
  <2> QED
    BY <2>1 DEF CallOK
<1> QED
  BY <1>1, StoryInductive, PTL
===============================================================================

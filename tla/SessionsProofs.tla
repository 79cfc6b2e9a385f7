--------------------------- MODULE SessionsProofs ---------------------------
(***************************************************************************)
(* What holds of sessions for any number of phones and of operations under *)
(* way, any lifetimes of the tokens and any bounds.  The invariant is the  *)
(* conjunction of the types, of LogoutInv, which says what a logout leaves *)
(* behind, and of SessionInv, which follows a pair of tokens from the row  *)
(* of the user to the storage of the phone.                                *)
(***************************************************************************)
EXTENDS Sessions, TLAPS

\* Since a logout that nothing overlaps, no write of a pair is to come, and the
\* pairs on their way to a phone were signed before it.
LogoutInv ==
    outAt # 0 =>
      /\ hash = 0
      /\ \A p \in Phones : access[p] <= outAt
      /\ \A f \in Flows : /\ flow[f].pc = "write" => flow[f].tok = 0
                          /\ flow[f].pc \in {"answered", "half"} => flow[f].tok <= outAt
      /\ \A l \in late : l = 0

\* No pair was signed in the future.
SignedInv ==
    /\ \A p \in Phones : access[p] <= now
    /\ \A f \in Flows : flow[f].tok <= now

Arrived(f) == flow[f].pc \in {"answered", "half"}

\* A phone whose session was not replaced has the token of the backend in its
\* storage, or on the way to it.
SessionInv ==
    \A p \in Phones : ~excused[p] =>
      /\ (\A f \in Flows : Owner[f] = p => ~Arrived(f))
            => (refresh[p] # 0 => refresh[p] = hash)
      /\ \A f \in Flows : Owner[f] = p /\ Arrived(f) => flow[f].tok = hash

\* A logout writes a null hash, and leaves its phone with a token of no use.
LogoutFlows ==
    \A f \in Flows : Request(f) = "logout" =>
      /\ flow[f].pc = "write" => flow[f].tok = 0
      /\ Arrived(f) => excused[Owner[f]]

IInv == TypeOK /\ SignedInv /\ LogoutInv /\ LogoutFlows /\ SessionInv

-----------------------------------------------------------------------------

\* The records the actions build are flows.
LEMMA FlowTypes ==
    /\ NoFlow \in Flow
    /\ \A k \in Kind, l \in Label :
         [NoFlow EXCEPT !.kind = k, !.pc = l] \in Flow
    /\ \A x \in Flow :
         /\ x.refs \in Seq(Token) /\ x.tok \in Token
         /\ x.refs # <<>> => Popped(x.refs) \subseteq Seq(Token) /\ Head(x.refs) \in Token
         /\ \A t \in Token : Pushed(t, x.refs) \in Seq(Token)
         /\ \A l \in Label : [x EXCEPT !.pc = l] \in Flow
         /\ \A l \in Label, t \in Token : [x EXCEPT !.pc = l, !.tok = t] \in Flow
         /\ \A b \in BOOLEAN : [x EXCEPT !.pc = "denied", !.tok = 0, !.rejected = b] \in Flow
         /\ \A r \in Seq(Token) : [x EXCEPT !.pc = "send", !.refs = r] \in Flow
         /\ \A r \in Seq(Token) : [x EXCEPT !.pc = "send", !.tok = 0, !.refs = r] \in Flow
<1>1. {"idle", "send", "denied"} \subseteq Label /\ "none" \in Kind /\ 0 \in Token
    BY BoundsAreNat DEF Label, Kind, Token
<1>2. NoFlow \in Flow
  <2>1. <<>> \in Seq(Token)
      OBVIOUS
  <2> QED BY <1>1, <2>1 DEF Flow, NoFlow
<1>3. ASSUME NEW x \in Flow
      PROVE  /\ x.refs \in Seq(Token) /\ x.tok \in Token
             /\ \A k \in Kind, l \in Label : [x EXCEPT !.kind = k, !.pc = l] \in Flow
             /\ \A l \in Label : [x EXCEPT !.pc = l] \in Flow
             /\ \A l \in Label, t \in Token : [x EXCEPT !.pc = l, !.tok = t] \in Flow
             /\ \A b \in BOOLEAN : [x EXCEPT !.pc = "denied", !.tok = 0, !.rejected = b] \in Flow
             /\ \A r \in Seq(Token) : [x EXCEPT !.pc = "send", !.tok = 0, !.refs = r] \in Flow
             /\ \A r \in Seq(Token) : [x EXCEPT !.pc = "send", !.refs = r] \in Flow
    BY <1>1 DEF Flow
<1>4. ASSUME NEW r \in Seq(Token), r # <<>>
      PROVE  Popped(r) \subseteq Seq(Token) /\ Head(r) \in Token
  <2>1. Tail(r) \in Seq(Token) /\ Head(r) \in Token
      BY <1>4
  <2> QED BY <2>1 DEF Popped
<1>5. ASSUME NEW r \in Seq(Token), NEW t \in Token
      PROVE  Pushed(t, r) \in Seq(Token)
  <2>1. <<t>> \o r \in Seq(Token)
      OBVIOUS
  <2> QED BY <2>1 DEF Pushed
<1> QED BY <1>2, <1>3, <1>4, <1>5

\* A step of a flow changes that flow alone.
LEMMA OneFlow ==
    ASSUME TypeOK, NEW f \in Flows, NEW r \in Flow, Become(f, r)
    PROVE  /\ flow' \in [Flows -> Flow]
           /\ flow'[f] = r
           /\ \A g \in Flows : g # f => flow'[g] = flow[g]
    BY DEF TypeOK, Become

\* A flow that ends has no pair.
LEMMA Finishes ==
    ASSUME TypeOK, NEW f \in Flows, Finish(f)
    PROVE  /\ flow' \in [Flows -> Flow]
           /\ \A g \in Flows : g # f => flow'[g] = flow[g]
           /\ flow'[f].pc \in {"idle", "wipe"} /\ flow'[f].tok = 0
<1> DEFINE last == IF flow[f].kind = "logout" THEN [NoFlow EXCEPT !.kind = "logout", !.pc = "wipe"]
                   ELSE NoFlow
<1>1. Become(f, last)
    BY DEF Finish
<1>2. "logout" \in Kind /\ "wipe" \in Label
    BY DEF Kind, Label
<1>3. last \in Flow
    BY <1>2, FlowTypes
<1>4. last.pc \in {"idle", "wipe"} /\ last.tok = 0
    BY DEF NoFlow
<1> QED BY <1>1, <1>3, <1>4, OneFlow

\* The steps of an operation that neither sign, write nor store a pair.
Quiet(f) ==
    \/ \E k \in {"api", "login", "register", "logout"} : Start(f, k)
    \/ Send(f) \/ Denied(f) \/ GiveUp(f) \/ TryRefresh(f)
    \/ ServeApi(f) \/ ServeLogout(f) \/ ServeRegister(f)

\* They leave everything but their flow alone, and bring it no pair.
LEMMA QuietSteps ==
    ASSUME TypeOK, SignedInv, NEW f \in Flows, Quiet(f)
    PROVE  /\ flow' \in [Flows -> Flow]
           /\ \A g \in Flows : g # f => flow'[g] = flow[g]
           /\ ~Arrived(f) /\ ~Arrived(f)'
           /\ flow'[f].tok <= now
           /\ flow'[f].pc = "write" => flow'[f].tok = 0
           /\ UNCHANGED <<backendVars, phoneVars, excused, outAt>>
<1> DEFINE Goal == /\ flow' \in [Flows -> Flow]
                   /\ \A g \in Flows : g # f => flow'[g] = flow[g]
                   /\ ~Arrived(f) /\ ~Arrived(f)'
                   /\ flow'[f].tok <= now
                   /\ flow'[f].pc = "write" => flow'[f].tok = 0
<1>1. /\ Owner[f] \in Phones /\ flow[f] \in Flow /\ now \in Nat /\ 0 <= now /\ 0 \in Token
      /\ access[Owner[f]] \in Token /\ refresh[Owner[f]] \in Token
    BY OwnerType, BoundsAreNat DEF TypeOK, Token
<1>2. {"send", "wire", "create", "write", "denied"} \subseteq Label
      /\ {"api", "login", "register", "logout"} \subseteq Kind
    BY DEF Label, Kind
<1>3. ASSUME NEW r \in Flow, Become(f, r), r.pc \notin {"answered", "half"}, ~Arrived(f),
             r.tok <= now, r.pc = "write" => r.tok = 0
      PROVE  Goal
    BY <1>3, OneFlow DEF Arrived
<1>4. ASSUME Finish(f), ~Arrived(f)
      PROVE  Goal
    BY <1>1, <1>4, Finishes DEF Arrived
<1>5. ASSUME NEW k \in {"api", "login", "register", "logout"}, Start(f, k)
      PROVE  Goal
  <2>1. [NoFlow EXCEPT !.kind = k, !.pc = "send"] \in Flow
      BY <1>2, FlowTypes
  <2> QED BY <1>1, <1>3, <1>5, <2>1 DEF Start, Arrived, NoFlow
<1>6. CASE Send(f)
  <2>1. [flow[f] EXCEPT !.pc = "wire", !.tok = access[Owner[f]]] \in Flow
      BY <1>1, <1>2, FlowTypes
  <2>2. access[Owner[f]] <= now
      BY <1>1 DEF SignedInv
  <2> QED BY <1>1, <1>3, <1>6, <2>1, <2>2 DEF Send, Arrived, Flow
<1>7. CASE Denied(f)
  <2> DEFINE b == flow[f].rejected \/ Request(f) \in {"refresh", "login"}
  <2>1. [flow[f] EXCEPT !.pc = "denied", !.tok = 0, !.rejected = b] \in Flow
    <3>1. flow[f].rejected \in BOOLEAN
        BY <1>1 DEF Flow
    <3>2. b \in BOOLEAN
        BY <3>1
    <3> QED BY <1>1, <3>2, FlowTypes
  <2> QED BY <1>1, <1>3, <1>7, <2>1 DEF Denied, Arrived, Flow
<1>8. CASE GiveUp(f)
    BY <1>4, <1>8 DEF GiveUp, Arrived
<1>9. CASE TryRefresh(f)
  <2>1. [flow[f] EXCEPT !.pc = "send", !.refs = Pushed(refresh[Owner[f]], @)] \in Flow
      BY <1>1, FlowTypes
  <2>2. flow[f].tok <= now
      BY DEF SignedInv
  <2> QED BY <1>1, <1>3, <1>9, <2>1, <2>2 DEF TryRefresh, Arrived, Flow
<1>10. CASE ServeApi(f)
    BY <1>4, <1>10 DEF ServeApi, Arrived
<1>11. CASE ServeLogout(f)
  <2>1. [flow[f] EXCEPT !.pc = "write", !.tok = 0] \in Flow
      BY <1>1, <1>2, FlowTypes
  <2> QED BY <1>1, <1>3, <1>11, <2>1 DEF ServeLogout, Arrived, Flow
<1>12. CASE ServeRegister(f)
  <2>1. CASE exists
      BY <1>4, <1>12, <2>1 DEF ServeRegister, Arrived
  <2>2. CASE ~exists
    <3>1. [flow[f] EXCEPT !.pc = "create"] \in Flow
        BY <1>1, <1>2, FlowTypes
    <3>2. flow[f].tok <= now
        BY DEF SignedInv
    <3> QED BY <1>1, <1>3, <1>12, <2>2, <3>1, <3>2 DEF ServeRegister, Goto, Arrived, Flow
  <2> QED BY <2>1, <2>2
<1>13. UNCHANGED <<backendVars, phoneVars, excused, outAt>>
    BY DEF Quiet, Start, Send, Denied, GiveUp, TryRefresh, ServeApi, ServeLogout, ServeRegister
<1> QED
    BY <1>5, <1>6, <1>7, <1>8, <1>9, <1>10, <1>11, <1>12, <1>13 DEF Quiet

-----------------------------------------------------------------------------

\* Every step keeps the invariant.
LEMMA Inductive == IInv /\ [Next]_vars => IInv'
<1> SUFFICES ASSUME IInv, [Next]_vars
             PROVE  IInv'
    OBVIOUS
<1> USE OwnerType, BoundsAreNat DEF IInv
<1> USE DEF backendVars, phoneVars, Arrived
<1>t. /\ now \in Nat /\ now \in Token /\ 0 \in Token /\ hash \in Token
      /\ \A p \in Phones : access[p] \in Token /\ refresh[p] \in Token
      /\ \A f \in Flows : flow[f] \in Flow /\ flow[f].tok \in Token /\ Owner[f] \in Phones
      /\ \A p \in Phones : access[p] \in Nat
      /\ \A f \in Flows : flow[f].tok \in Nat
      /\ Token \subseteq Nat /\ outAt \in Token /\ outAt \in Nat
    BY DEF TypeOK, Token, Flow
<1>l. {"write", "answered", "half", "send"} \subseteq Label
    BY DEF Label
<1>1. ASSUME NEW f \in Flows, Quiet(f)
      PROVE  IInv'
  <2>1. TypeOK'
      BY <1>1, QuietSteps DEF TypeOK
  <2>2. SignedInv'
      BY <1>1, QuietSteps DEF SignedInv
  <2>3. LogoutInv'
      BY <1>1, QuietSteps DEF LogoutInv
  <2>4. SessionInv'
      BY <1>1, QuietSteps DEF SessionInv
  <2>5. LogoutFlows'
      BY <1>1, QuietSteps DEF LogoutFlows, Request
  <2> QED BY <2>1, <2>2, <2>3, <2>4, <2>5
<1>2. ASSUME NEW f \in Flows, Issue(f), ~Arrived(f), Request(f) # "logout",
             UNCHANGED <<hash, now, late, access, refresh, signedIn, excused>>,
             exists' \in BOOLEAN, outAt' = 0 \/ (outAt' = outAt /\ hash # 0)
      PROVE  IInv'
  <2> DEFINE r == [flow[f] EXCEPT !.pc = "write", !.tok = now]
  <2>1. r \in Flow
      BY <1>t, <1>l, FlowTypes
  <2>2. r.pc = "write" /\ r.tok = now
      BY <1>t DEF Flow
  <2>3. /\ flow' \in [Flows -> Flow] /\ flow'[f] = r
        /\ \A g \in Flows : g # f => flow'[g] = flow[g]
      BY <1>2, <2>1, OneFlow DEF Issue
  <2>4. TypeOK'
      BY <1>2, <1>t, <2>3 DEF TypeOK
  <2>5. SignedInv'
    <3>1. now <= now
        BY <1>t
    <3>2. \A g \in Flows : flow'[g].tok <= now
        BY <2>2, <2>3, <3>1 DEF SignedInv
    <3> QED BY <1>2, <3>2 DEF SignedInv
  <2>6. LogoutInv'
      BY <1>2, <2>2, <2>3 DEF LogoutInv
  <2>7. SessionInv'
      BY <1>2, <2>2, <2>3 DEF SessionInv
  <2>8. LogoutFlows'
    <3>1. Request(f)' # "logout"
      <4>1. flow'[f].refs = flow[f].refs /\ flow'[f].kind = flow[f].kind
          BY <1>t, <2>3 DEF Flow
      <4> QED BY <1>2, <4>1 DEF Request
    <3> QED BY <1>2, <2>3, <3>1 DEF LogoutFlows, Request
  <2> QED BY <2>4, <2>5, <2>6, <2>7, <2>8
<1>3. ASSUME NEW f \in Flows, ServeRefresh(f)
      PROVE  IInv'
    BY <1>2, <1>3 DEF ServeRefresh, RefreshAccepted, TypeOK
<1>4. ASSUME NEW f \in Flows, ServeLogin(f)
      PROVE  IInv'
    BY <1>2, <1>4 DEF ServeLogin, TypeOK
<1>5. ASSUME NEW f \in Flows, CreateUser(f)
      PROVE  IInv'
  <2>1. CASE ~exists
      BY <1>2, <1>5, <2>1 DEF CreateUser
  <2>2. CASE exists
    <3>1. /\ flow' \in [Flows -> Flow] /\ ~Arrived(f)'
          /\ \A g \in Flows : g # f => flow'[g] = flow[g]
          /\ flow'[f].tok = 0 /\ flow'[f].pc # "write"
        BY <1>5, <2>2, Finishes DEF CreateUser
    <3>2. UNCHANGED <<hash, now, late, access, refresh, signedIn, excused, outAt>> /\ exists' /\ ~Arrived(f)
        BY <1>5, <2>2 DEF CreateUser
    <3>3. TypeOK'
        BY <3>1, <3>2 DEF TypeOK
    <3>4. SignedInv'
        BY <1>t, <3>1, <3>2 DEF SignedInv
    <3>5. LogoutInv'
        BY <3>1, <3>2 DEF LogoutInv
    <3>6. SessionInv'
        BY <3>1, <3>2 DEF SessionInv
    <3>7. LogoutFlows'
        BY <3>1, <3>2 DEF LogoutFlows, Request
    <3> QED BY <3>3, <3>4, <3>5, <3>6, <3>7
  <2> QED BY <2>1, <2>2
<1>6. ASSUME NEW f \in Flows, WriteHash(f)
      PROVE  IInv'
  <2> DEFINE r == [flow[f] EXCEPT !.pc = "answered"]
  <2>1. r \in Flow /\ r.tok = flow[f].tok /\ r.pc = "answered"
      BY <1>t, <1>l DEF Flow
  <2>2. /\ flow' \in [Flows -> Flow] /\ flow'[f] = r
        /\ \A g \in Flows : g # f => flow'[g] = flow[g]
      BY <1>6, <2>1, OneFlow DEF WriteHash, Goto
  <2>3. excused' \in [Phones -> BOOLEAN]
      BY <1>6 DEF WriteHash, Replaced
  <2>4. TypeOK'
      BY <1>6, <1>t, <2>2, <2>3 DEF WriteHash, TypeOK
  <2>5. SignedInv'
      BY <1>6, <1>t, <2>1, <2>2 DEF WriteHash, SignedInv
  <2>6. LogoutInv'
    <3>1. CASE flow[f].tok = 0 /\ ~Pending(f)
      <4>1. late = {} /\ \A g \in Flows : g # f => flow[g].pc # "write"
          BY <3>1 DEF Pending
      <4>2. outAt' = now /\ hash' = 0 /\ UNCHANGED <<access, late, now>>
          BY <1>6, <3>1 DEF WriteHash
      <4> QED BY <1>t, <2>1, <2>2, <3>1, <4>1, <4>2 DEF LogoutInv, SignedInv
    <3>2. CASE ~(flow[f].tok = 0 /\ ~Pending(f))
        BY <1>6, <3>2 DEF WriteHash, LogoutInv
    <3> QED BY <3>1, <3>2
  <2>7. SessionInv'
    <3> SUFFICES ASSUME NEW p \in Phones, ~excused'[p]
                 PROVE  /\ \E g \in Flows : Owner[g] = p /\ Arrived(g)'
                        /\ \A g \in Flows : Owner[g] = p /\ Arrived(g)' => flow'[g].tok = hash'
        BY DEF SessionInv
    <3>1. p = Owner[f] /\ \A g \in Flows : g # f /\ Owner[g] = p => ~Issuing(g)
        BY <1>6 DEF WriteHash, Replaced
    <3>2. \A g \in Flows : g # f /\ Owner[g] = p => ~Arrived(g)'
        BY <2>2, <3>1 DEF Issuing
    <3>3. hash' = flow[f].tok
        BY <1>6 DEF WriteHash
    <3> QED BY <2>1, <2>2, <3>1, <3>2, <3>3
  <2>8. LogoutFlows'
    <3>1. \A g \in Flows : excused[Owner[g]] => excused'[Owner[g]]
        BY <1>6, <1>t DEF WriteHash, Replaced
    <3>2. flow[f].tok = 0 => excused'[Owner[f]]
        BY <1>6, <1>t DEF WriteHash, Replaced
    <3>3. Request(f)' = Request(f) /\ flow[f].pc = "write"
        BY <1>6, <1>t, <2>2 DEF WriteHash, Request, Flow
    <3>4. ASSUME NEW g \in Flows, g # f, Request(g)' = "logout"
          PROVE  (flow'[g].pc = "write" => flow'[g].tok = 0) /\ (Arrived(g)' => excused'[Owner[g]])
        BY <2>2, <3>1, <3>4 DEF LogoutFlows, Request
    <3>5. ASSUME Request(f)' = "logout"
          PROVE  flow'[f].pc # "write" /\ (Arrived(f)' => excused'[Owner[f]])
        BY <2>1, <2>2, <3>2, <3>3, <3>5 DEF LogoutFlows
    <3> QED BY <3>4, <3>5 DEF LogoutFlows
  <2> QED BY <2>4, <2>5, <2>6, <2>7, <2>8
<1>7. ASSUME NEW t \in late, LateWrite(t)
      PROVE  IInv'
  <2>1. excused' = [p \in Phones |-> TRUE]
      BY <1>7 DEF LateWrite, Replaced, TypeOK
  <2>2. TypeOK'
      BY <1>7, <1>t, <2>1 DEF LateWrite, TypeOK
  <2>3. SignedInv'
      BY <1>7 DEF LateWrite, SignedInv
  <2>4. LogoutInv'
    <3>1. CASE t = 0 /\ late' = {} /\ \A g \in Flows : flow[g].pc # "write"
      <4>1. outAt' = now /\ hash' = 0 /\ UNCHANGED <<access, flow>>
          BY <1>7, <3>1 DEF LateWrite
      <4> QED BY <1>t, <3>1, <4>1 DEF LogoutInv, SignedInv
    <3>2. CASE ~(t = 0 /\ late' = {} /\ \A g \in Flows : flow[g].pc # "write")
        BY <1>7, <3>2 DEF LateWrite, LogoutInv
    <3> QED BY <3>1, <3>2
  <2>5. SessionInv'
      BY <2>1 DEF SessionInv
  <2>6. LogoutFlows'
      BY <1>7, <1>t, <2>1 DEF LateWrite, LogoutFlows, Request
  <2> QED BY <2>2, <2>3, <2>4, <2>5, <2>6
<1>8. ASSUME NEW f \in Flows, Answer(f)
      PROVE  IInv'
  <2>1. CASE Request(f) = "logout"
    <3>1. /\ flow' \in [Flows -> Flow] /\ ~Arrived(f)'
          /\ \A g \in Flows : g # f => flow'[g] = flow[g]
          /\ flow'[f].tok = 0 /\ flow'[f].pc # "write"
        BY <1>8, <2>1, Finishes DEF Answer
    <3>2. UNCHANGED <<backendVars, phoneVars, excused, outAt>> /\ flow[f].pc = "answered"
        BY <1>8, <2>1 DEF Answer
    <3>3. TypeOK'
        BY <3>1, <3>2 DEF TypeOK
    <3>4. SignedInv'
        BY <1>t, <3>1, <3>2 DEF SignedInv
    <3>5. LogoutInv'
        BY <3>1, <3>2 DEF LogoutInv
    <3>6. SessionInv'
      <4>1. excused[Owner[f]]
          BY <2>1, <3>2 DEF LogoutFlows
      <4> QED BY <3>1, <3>2, <4>1 DEF SessionInv
    <3>7. LogoutFlows'
        BY <3>1, <3>2 DEF LogoutFlows, Request
    <3> QED BY <3>3, <3>4, <3>5, <3>6, <3>7
  <2>2. CASE Request(f) # "logout"
    <3> DEFINE r == [flow[f] EXCEPT !.pc = "half"]
    <3>1. r \in Flow /\ r.tok = flow[f].tok /\ r.pc = "half" /\ r.refs = flow[f].refs /\ r.kind = flow[f].kind
        BY <1>t, <1>l DEF Flow
    <3>2. /\ flow' \in [Flows -> Flow] /\ flow'[f] = r
          /\ \A g \in Flows : g # f => flow'[g] = flow[g]
        BY <1>8, <2>2, <3>1, OneFlow DEF Answer, Goto
    <3> HIDE DEF r
    <3>3. /\ flow[f].pc = "answered"
          /\ access' = [access EXCEPT ![Owner[f]] = flow[f].tok]
          /\ UNCHANGED <<backendVars, refresh, signedIn, excused, outAt>>
        BY <1>8, <2>2 DEF Answer
    <3>4. TypeOK'
        BY <1>t, <3>2, <3>3 DEF TypeOK
    <3>5. SignedInv'
        BY <1>t, <3>1, <3>2, <3>3 DEF SignedInv, TypeOK
    <3>6. LogoutInv'
        BY <1>t, <3>1, <3>2, <3>3 DEF LogoutInv, TypeOK
    <3>7. SessionInv'
      <4>1. \A g \in Flows : Arrived(g)' = Arrived(g) /\ flow'[g].tok = flow[g].tok
          BY <3>1, <3>2, <3>3 DEF Arrived
      <4> QED BY <3>3, <4>1 DEF SessionInv, backendVars
    <3>8. LogoutFlows'
      <4>1. flow'[f].refs = flow[f].refs /\ flow'[f].kind = flow[f].kind
          BY <3>1, <3>2
      <4>2. Request(f)' # "logout"
          BY <2>2, <4>1 DEF Request
      <4> QED BY <3>2, <3>3, <4>2 DEF LogoutFlows, Request
    <3> QED BY <3>4, <3>5, <3>6, <3>7, <3>8
  <2> QED BY <2>1, <2>2
<1>9. ASSUME NEW f \in Flows, Persist(f)
      PROVE  IInv'
  <2>1. \E r \in Flow : Become(f, r) /\ r.tok = 0 /\ r.pc \in {"idle", "send"}
    <3>1. CASE flow[f].refs = <<>>
      <4>1. NoFlow.tok = 0 /\ NoFlow.pc = "idle"
          BY DEF NoFlow
      <4> QED BY <1>9, <3>1, <4>1, FlowTypes DEF Persist
    <3>2. CASE flow[f].refs # <<>>
      <4>1. PICK s \in Popped(flow[f].refs) :
                   Become(f, [flow[f] EXCEPT !.pc = "send", !.tok = 0, !.refs = s])
          BY <1>9, <3>2 DEF Persist
      <4> DEFINE x == [flow[f] EXCEPT !.pc = "send", !.tok = 0, !.refs = s]
      <4>2. s \in Seq(Token)
          BY <1>t, <3>2, FlowTypes
      <4>3. x \in Flow
          BY <1>t, <4>2, FlowTypes
      <4>4. x.tok = 0 /\ x.pc = "send"
          BY <1>t DEF Flow
      <4> HIDE DEF x
      <4> QED BY <4>1, <4>3, <4>4 DEF x
    <3> QED BY <3>1, <3>2
  <2> PICK r \in Flow : Become(f, r) /\ r.tok = 0 /\ r.pc \in {"idle", "send"}
      BY <2>1
  <2>2. r.tok = 0 /\ r.pc \in {"idle", "send"}
      OBVIOUS
  <2>3. /\ flow' \in [Flows -> Flow] /\ flow'[f] = r
        /\ \A g \in Flows : g # f => flow'[g] = flow[g]
      BY OneFlow
  <2>4. /\ flow[f].pc = "half" /\ UNCHANGED <<backendVars, access, outAt>>
        /\ refresh' = [refresh EXCEPT ![Owner[f]] = flow[f].tok]
      BY <1>9 DEF Persist, PersistRefresh
  <2> DEFINE left == excused[Owner[f]] /\ (hash # flow[f].tok \/
                        \E g \in Flows \ {f} : Owner[g] = Owner[f] /\ Issuing(g))
  <2>5. excused' = [excused EXCEPT ![Owner[f]] = left]
      BY <1>9 DEF Persist
  <2>6. signedIn' \in [Phones -> BOOLEAN]
      BY <1>9 DEF Persist, TypeOK
  <2>7. left \in BOOLEAN
      BY Zenon, <1>t DEF TypeOK
  <2>8. TypeOK'
      BY <1>t, <2>3, <2>4, <2>5, <2>6, <2>7 DEF TypeOK
  <2>9. SignedInv'
    <3>1. 0 <= now
        BY <1>t
    <3>2. \A g \in Flows : flow'[g].tok <= now
        BY <2>2, <2>3, <3>1 DEF SignedInv
    <3> QED BY <2>4, <3>2 DEF SignedInv
  <2>10. LogoutInv'
      BY <1>t, <2>2, <2>3, <2>4 DEF LogoutInv
  <2>11. SessionInv'
    <3> SUFFICES ASSUME NEW p \in Phones, ~excused'[p]
                 PROVE  /\ (\A g \in Flows : Owner[g] = p => ~Arrived(g)')
                              => (refresh'[p] # 0 => refresh'[p] = hash')
                        /\ \A g \in Flows : Owner[g] = p /\ Arrived(g)' => flow'[g].tok = hash'
        BY DEF SessionInv
    <3>1. CASE p # Owner[f]
      <4>1. ~excused[p] /\ refresh'[p] = refresh[p] /\ hash' = hash
          BY <2>4, <2>5, <3>1 DEF TypeOK
      <4>2. \A g \in Flows : Owner[g] = p => flow'[g] = flow[g]
          BY <2>3, <3>1
      <4> QED BY <4>1, <4>2 DEF SessionInv
    <3>2. CASE p = Owner[f]
      <4>1. refresh'[p] = flow[f].tok /\ excused'[p] = left /\ ~Arrived(f)'
          BY <2>2, <2>3, <2>4, <2>5, <3>2 DEF TypeOK
      <4>2. CASE ~excused[p]
          BY <2>3, <2>4, <3>2, <4>1, <4>2 DEF SessionInv
      <4>3. CASE hash = flow[f].tok /\ \A g \in Flows : g # f /\ Owner[g] = p => ~Issuing(g)
          BY <2>3, <2>4, <3>2, <4>1, <4>3 DEF Issuing
      <4> QED BY <3>2, <4>1, <4>2, <4>3
    <3> QED BY <3>1, <3>2
  <2>12. LogoutFlows'
    <3>1. ASSUME NEW g \in Flows, g # f, Arrived(g), excused[Owner[g]]
          PROVE  excused'[Owner[g]]
      <4>1. CASE Owner[g] = Owner[f]
          BY <1>t, <2>5, <3>1, <4>1 DEF Issuing, TypeOK
      <4>2. CASE Owner[g] # Owner[f]
          BY <1>t, <2>5, <3>1, <4>2 DEF TypeOK
      <4> QED BY <4>1, <4>2
    <3> QED BY <2>2, <2>3, <3>1 DEF LogoutFlows, Request
  <2> QED BY <2>8, <2>9, <2>10, <2>11, <2>12
<1>10. ASSUME NEW f \in Flows, Wipe(f)
       PROVE  IInv'
  <2>1. /\ flow' \in [Flows -> Flow] /\ flow'[f] = NoFlow
        /\ \A g \in Flows : g # f => flow'[g] = flow[g]
      BY <1>10, FlowTypes, OneFlow DEF Wipe
  <2>2. NoFlow.tok = 0 /\ NoFlow.pc = "idle"
      BY DEF NoFlow
  <2>3. TypeOK'
      BY <1>10, <1>t, <2>1 DEF Wipe, TypeOK
  <2>4. SignedInv'
      BY <1>10, <1>t, <2>1, <2>2 DEF Wipe, SignedInv, TypeOK
  <2>5. LogoutInv'
      BY <1>10, <1>t, <2>1, <2>2 DEF Wipe, LogoutInv, TypeOK
  <2>6. SessionInv'
      BY <1>10, <2>1, <2>2 DEF Wipe, SessionInv, TypeOK
  <2>7. LogoutFlows'
      BY <1>10, <2>1, <2>2 DEF Wipe, LogoutFlows, Request
  <2> QED BY <2>3, <2>4, <2>5, <2>6, <2>7
<1>11. ASSUME NEW f \in Flows, Fail(f) \/ Timeout(f)
       PROVE  IInv'
  <2>1. /\ flow' \in [Flows -> Flow] /\ ~Arrived(f)'
        /\ \A g \in Flows : g # f => flow'[g] = flow[g]
        /\ flow'[f].tok = 0 /\ flow'[f].pc # "write"
      BY <1>11, Finishes DEF Fail, Timeout
  <2>2. /\ UNCHANGED <<exists, hash, now, phoneVars, outAt>>
        /\ late' = late \/ (late' = late \cup {flow[f].tok} /\ flow[f].pc = "write")
        /\ excused' \in [Phones -> BOOLEAN]
        /\ \A p \in Phones : ~excused'[p] => ~excused[p] /\ ~(p = Owner[f] /\ Arrived(f))
    <3>1. CASE Fail(f)
        BY <3>1 DEF Fail, Replaced
    <3>2. CASE Timeout(f)
        BY <3>2 DEF Timeout, Orphans, TypeOK
    <3> QED BY <1>11, <3>1, <3>2
  <2>3. TypeOK'
      BY <1>t, <2>1, <2>2 DEF TypeOK
  <2>4. SignedInv'
      BY <1>t, <2>1, <2>2 DEF SignedInv
  <2>5. LogoutInv'
      BY <1>t, <2>1, <2>2 DEF LogoutInv
  <2>6. SessionInv'
      BY <2>1, <2>2 DEF SessionInv
  <2>7. LogoutFlows'
      BY <1>t, <2>1, <2>2 DEF LogoutFlows, Request
  <2> QED BY <2>3, <2>4, <2>5, <2>6, <2>7
<1>12. ASSUME NEW p \in Phones, AppRestarts(p)
       PROVE  IInv'
  <2> DEFINE own == {f \in Flows : Owner[f] = p}
  <2>1. /\ UNCHANGED <<exists, hash, now, access, refresh, outAt>>
        /\ flow' = [f \in Flows |-> IF f \in own THEN NoFlow ELSE flow[f]]
        /\ late' = late \cup Orphans(own)
      BY <1>12 DEF AppRestarts
  <2>2. NoFlow.tok = 0 /\ NoFlow.pc = "idle" /\ NoFlow \in Flow
      BY FlowTypes DEF NoFlow
  <2>3. \A l \in Orphans(own) : l \in Token /\ \E f \in own : flow[f].pc = "write" /\ l = flow[f].tok
      BY <1>t DEF Orphans
  <2>4. /\ excused' \in [Phones -> BOOLEAN]
        /\ \A q \in Phones : ~excused'[q] => ~excused[q] /\ ~(q = p /\ \E f \in own : Arrived(f))
      BY <1>12 DEF AppRestarts, Replaced
  <2>5. signedIn' \in [Phones -> BOOLEAN]
      BY <1>12 DEF AppRestarts, TypeOK
  <2>6. TypeOK'
    <3>1. late' \in SUBSET Token
        BY <2>1, <2>3 DEF TypeOK
    <3> QED BY <2>1, <2>2, <2>4, <2>5, <3>1 DEF TypeOK
  <2>7. SignedInv'
      BY <1>t, <2>1, <2>2 DEF SignedInv
  <2>8. LogoutInv'
      BY <1>t, <2>1, <2>2, <2>3 DEF LogoutInv
  <2>9. SessionInv'
      BY <2>1, <2>2, <2>4 DEF SessionInv
  <2>10. LogoutFlows'
      BY <1>t, <2>1, <2>2, <2>4 DEF LogoutFlows, Request
  <2> QED BY <2>6, <2>7, <2>8, <2>9, <2>10
<1>13. ASSUME Tick
       PROVE  IInv'
  <2>1. TypeOK'
      BY <1>13, <1>t DEF Tick, TypeOK
  <2>2. SignedInv'
    <3>1. \A m \in Nat : m <= now => m <= now + 1
        BY <1>t
    <3> QED BY <1>13, <1>t, <3>1 DEF Tick, SignedInv
  <2>3. LogoutInv' /\ SessionInv' /\ LogoutFlows'
      BY <1>13 DEF Tick, LogoutInv, SessionInv, LogoutFlows, Request
  <2> QED BY <2>1, <2>2, <2>3
<1>14. CASE UNCHANGED vars
  <2>1. TypeOK'
      BY <1>14 DEF vars, TypeOK
  <2>2. SignedInv' /\ LogoutInv'
      BY <1>14 DEF vars, SignedInv, LogoutInv
  <2>3. SessionInv' /\ LogoutFlows'
      BY <1>14 DEF vars, SessionInv, LogoutFlows, Request
  <2> QED BY <2>1, <2>2, <2>3
<1> QED
    BY <1>1, <1>3, <1>4, <1>5, <1>6, <1>7, <1>8, <1>9, <1>10, <1>11, <1>12, <1>13, <1>14
       DEF Next, Progress, Quiet

\* The invariant of sessions holds at every reachable state.
THEOREM Invariance == Spec => []IInv
<1>1. Init => IInv
  <2> SUFFICES ASSUME Init
               PROVE  IInv
      OBVIOUS
  <2>1. TypeOK
    <3>1. 0 \in Token /\ 1 \in 1..MaxTime
        BY BoundsAreNat DEF Token
    <3> QED BY FlowTypes, <3>1 DEF Init, TypeOK
  <2>2. SignedInv
      BY DEF Init, SignedInv, NoFlow
  <2>3. LogoutInv
      BY DEF Init, LogoutInv
  <2>4. SessionInv /\ LogoutFlows
      BY DEF Init, SessionInv, LogoutFlows, NoFlow, Request, Arrived
  <2> QED BY <2>1, <2>2, <2>3, <2>4 DEF IInv
<1> QED BY <1>1, Inductive, PTL DEF Spec

\* The variables of sessions keep their types.
THEOREM TypeCorrect == Spec => []TypeOK
<1>1. IInv => TypeOK
    BY DEF IInv
<1> QED BY <1>1, Invariance, PTL

\* Rotation and storage agree wherever no other issue, loss or restart
\* interfered: AuthService.issue and ApiClient._persist keep the session.
THEOREM KeptSessions == Spec => []SessionKept
<1>1. IInv => SessionKept
    BY DEF IInv, SessionInv, SessionKept, Arrived, Issuing
<1> QED BY <1>1, Invariance, PTL

\* AuthService.logout ends the authority of every pair signed before it.
THEOREM LogoutEndsAuthority == Spec => []LogoutHolds
<1>1. IInv => LogoutHolds
    BY DEF IInv, LogoutInv, LogoutHolds
<1> QED BY <1>1, Invariance, PTL
=============================================================================

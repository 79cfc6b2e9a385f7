------------------------------ MODULE Sessions ------------------------------
(***************************************************************************)
(* The sessions of a parent: AuthService and TokenService of the backend,  *)
(* ApiClient and AuthNotifier of the parent app, and the requests between  *)
(* them.  One account, used from several phones.                           *)
(*                                                                         *)
(* A JWT is a signed function of its claims, and its only claim that       *)
(* changes is iat, in seconds: a pair of tokens is known by the tick it    *)
(* was signed in, and two pairs signed in the same tick are the same pair. *)
(* 0 stands for no token and for a null hash.                              *)
(*                                                                         *)
(* The backend serves a request in a check (the guard, the reads, the      *)
(* signatures) and a write.  The phone stores the pair with two writes.    *)
(* The interceptor of ApiClient sees every request of the app, its own     *)
(* POST /auth/refresh included: a flow, which is one operation of the app, *)
(* is a stack of refresh requests on top of the request it is for.         *)
(***************************************************************************)
EXTENDS Naturals, Sequences, FiniteSets

CONSTANTS
    Phones,
    Flows,          \* operations of the apps that may be under way at a time
    Owner,          \* the phone of a flow
    AccessTtl,
    RefreshTtl,
    MaxTime,        \* bound on the clock
    MaxLate         \* bound on handlers without a client

ASSUME OwnerType == Owner \in [Flows -> Phones]
ASSUME TtlsAreNat == AccessTtl \in Nat /\ RefreshTtl \in Nat
ASSUME BoundsAreNat == MaxTime \in Nat \ {0} /\ MaxLate \in Nat

VARIABLES
    exists,         \* the User row
    hash,           \* User.refreshTokenHash: the token it is the hash of
    now,
    access, refresh,    \* FlutterSecureStorage of each phone
    signedIn,       \* AuthState.loggedIn of each phone
    flow,
    late,           \* the pairs that handlers whose client has gone are to write
    \* what happened, for the properties only
    excused,        \* the phone's session may have been replaced: see Replaced
    outAt           \* when the account was logged out; 0 once somebody logs in, or
                    \* if another write was under way

backendVars == <<exists, hash, now, late>>
phoneVars == <<access, refresh, signedIn>>
vars == <<backendVars, phoneVars, flow, excused, outAt>>

Token == 0..MaxTime

Kind == {"none", "api", "login", "register", "logout"}
Label == {"idle", "send", "wire", "create", "write", "answered", "half", "denied", "wipe"}

Flow == [kind: Kind,
         pc: Label,
         refs: Seq(Token),  \* bodies of the refresh requests, the innermost first:
                            \* see Twice
         tok: Token,        \* the header sent, then the pair issued
         rejected: BOOLEAN]
NoFlow == [kind |-> "none", pc |-> "idle", refs |-> <<>>, tok |-> 0, rejected |-> FALSE]

TypeOK ==
    /\ exists \in BOOLEAN
    /\ hash \in Token
    /\ now \in 1..MaxTime
    /\ access \in [Phones -> Token]
    /\ refresh \in [Phones -> Token]
    /\ signedIn \in [Phones -> BOOLEAN]
    /\ flow \in [Flows -> Flow]
    /\ late \in SUBSET Token
    /\ excused \in [Phones -> BOOLEAN]
    /\ outAt \in Token

Init ==
    /\ exists = FALSE
    /\ hash = 0
    /\ now = 1
    /\ access = [p \in Phones |-> 0]
    /\ refresh = [p \in Phones |-> 0]
    /\ signedIn = [p \in Phones |-> FALSE]
    /\ flow = [f \in Flows |-> NoFlow]
    /\ late = {}
    /\ excused = [p \in Phones |-> FALSE]
    /\ outAt = 0

-----------------------------------------------------------------------------
(* TokenService.verify and the checks made with it *)

Alive(t, ttl) == t # 0 /\ now < t + ttl

\* JwtAuthGuard.  Mutant: a token of this second has expired.
GuardStrict(t) == Alive(t, 0)
GuardAccepts(t) == Alive(t, AccessTtl)

RefreshUnmatched(t) == Alive(t, RefreshTtl)                 \* mutant: no compare
RefreshAccepted(t) == Alive(t, RefreshTtl) /\ hash # 0 /\ t = hash

-----------------------------------------------------------------------------
(* Flows *)

Request(f) == IF flow[f].refs = <<>> THEN flow[f].kind ELSE "refresh"

Become(f, r) == flow' = [flow EXCEPT ![f] = r]
Goto(f, l) == Become(f, [flow[f] EXCEPT !.pc = l])

\* The operation is over.  ApiClient.logout goes on to delete the storage
\* whatever came of its request.
Finish(f) ==
    Become(f, IF flow[f].kind = "logout" THEN [NoFlow EXCEPT !.kind = "logout", !.pc = "wipe"]
              ELSE NoFlow)

\* A pair of tokens of the flow is on its way to the storage of its phone.
Issuing(f) == flow[f].pc \in {"write", "answered", "half"}

\* The hash changes, or an answer is lost, without the phone p being told:
\* p can no longer expect its refresh token to be the one of the backend.
Replaced(P) == excused' = [p \in Phones |-> excused[p] \/ p \in P]

\* Screens offer login and register signed out, everything else signed in.
Start(f, k) ==
    LET p == Owner[f]
    IN  /\ flow[f].pc = "idle"
        /\ signedIn[p] = (k \in {"api", "logout"})
        /\ k \in {"login", "register"} =>
             \A g \in Flows : Owner[g] = p => flow[g].kind \notin {"login", "register"}
        /\ Become(f, [NoFlow EXCEPT !.kind = k, !.pc = "send"])
        /\ UNCHANGED <<backendVars, phoneVars, excused, outAt>>

\* onRequest: the access token is read from the storage.
Send(f) ==
    /\ flow[f].pc = "send"
    /\ Become(f, [flow[f] EXCEPT !.pc = "wire", !.tok = access[Owner[f]]])
    /\ UNCHANGED <<backendVars, phoneVars, excused, outAt>>

\* A 401, on whichever request of the flow.
Denied(f) ==
    /\ flow[f].pc = "wire"
    /\ \/ Request(f) \in {"api", "logout"} /\ ~GuardAccepts(flow[f].tok)
       \/ Request(f) = "refresh" /\ ~RefreshAccepted(Head(flow[f].refs))
       \/ Request(f) = "login"             \* no such user, or a wrong password
    /\ Become(f, [flow[f] EXCEPT !.pc = "denied", !.tok = 0,
                                 !.rejected = @ \/ Request(f) \in {"refresh", "login"}])
    /\ UNCHANGED <<backendVars, phoneVars, excused, outAt>>

\* onError: without a refresh token to try, every request of the stack fails.
GiveUp(f) ==
    /\ flow[f].pc = "denied"
    /\ refresh[Owner[f]] = 0
    /\ Finish(f)
    /\ UNCHANGED <<backendVars, phoneVars, excused, outAt>>

\* The code does not bound the stack. A refresh twice on top of itself stands for
\* any number of them from two, so that a stack that grows without end, each
\* refresh for the rejection of the one before, is a cycle of states.
Twice(refs) == Len(refs) >= 2 /\ refs[1] = refs[2]
Pushed(t, refs) == IF Twice(refs) /\ refs[1] = t THEN refs ELSE <<t>> \o refs
Popped(refs) == {Tail(refs)} \cup {r \in {refs} : Twice(r)}

TryRefresh(f) ==
    /\ flow[f].pc = "denied"
    /\ refresh[Owner[f]] # 0
    /\ Become(f, [flow[f] EXCEPT !.pc = "send", !.refs = Pushed(refresh[Owner[f]], @)])
    /\ UNCHANGED <<backendVars, phoneVars, excused, outAt>>

-----------------------------------------------------------------------------
(* Handlers *)

ServeApi(f) ==
    /\ flow[f].pc = "wire"
    /\ Request(f) = "api"
    /\ GuardAccepts(flow[f].tok)
    /\ Finish(f)
    /\ UNCHANGED <<backendVars, phoneVars, excused, outAt>>

ServeLogout(f) ==
    /\ flow[f].pc = "wire"
    /\ Request(f) = "logout"
    /\ GuardAccepts(flow[f].tok)
    /\ Become(f, [flow[f] EXCEPT !.pc = "write", !.tok = 0])
    /\ UNCHANGED <<backendVars, phoneVars, excused, outAt>>

\* issue, up to the update of the row.  Mutant: signed for the next second.
IssueAhead(f) == Become(f, [flow[f] EXCEPT !.pc = "write", !.tok = now + 1])
Issue(f) == Become(f, [flow[f] EXCEPT !.pc = "write", !.tok = now])

ServeRefresh(f) ==
    /\ flow[f].pc = "wire"
    /\ Request(f) = "refresh"
    /\ RefreshAccepted(Head(flow[f].refs))
    /\ Issue(f)
    /\ UNCHANGED <<backendVars, phoneVars, excused, outAt>>

ServeLogin(f) ==
    /\ flow[f].pc = "wire"
    /\ Request(f) = "login"
    /\ exists
    /\ Issue(f)
    /\ outAt' = 0
    /\ UNCHANGED <<backendVars, phoneVars, excused>>

ServeRegister(f) ==
    /\ flow[f].pc = "wire"
    /\ Request(f) = "register"
    /\ IF exists THEN Finish(f) ELSE Goto(f, "create")
    /\ UNCHANGED <<backendVars, phoneVars, excused, outAt>>

\* The password is hashed before the row is created: the index on the email
\* address may still refuse it.
CreateUser(f) ==
    /\ flow[f].pc = "create"
    /\ Request(f) = "register"
    /\ IF exists THEN Finish(f) /\ UNCHANGED outAt ELSE Issue(f) /\ outAt' = 0
    /\ exists' = TRUE
    /\ UNCHANGED <<hash, now, late, phoneVars, excused>>

\* Somebody else's write that is still to come.
Pending(f) == (\E g \in Flows \ {f} : flow[g].pc = "write") \/ late # {}

WriteHash(f) ==
    LET p == Owner[f] IN
    /\ flow[f].pc = "write"
    /\ hash' = flow[f].tok
    /\ Goto(f, "answered")
    /\ Replaced({q \in Phones : \/ q # p
                                \/ flow[f].tok = 0
                                \/ \E g \in Flows \ {f} : Owner[g] = p /\ Issuing(g)})
    /\ outAt' = IF flow[f].tok # 0 THEN outAt ELSE IF Pending(f) THEN 0 ELSE now
    /\ UNCHANGED <<exists, now, late, phoneVars>>

\* The client has gone: after ten seconds, or with its process.  (A handler that
\* stops before its write is a Fail.)
LateWrite(t) ==
    /\ t \in late
    /\ late' = late \ {t}
    /\ hash' = t
    /\ Replaced(Phones)
    /\ outAt' = IF t # 0 THEN outAt
                ELSE IF late' = {} /\ \A g \in Flows : flow[g].pc # "write" THEN now ELSE 0
    /\ UNCHANGED <<exists, now, phoneVars, flow>>

-----------------------------------------------------------------------------
(* The answer, in the app *)

\* Mutant: a refresh token that is stored is not replaced.
PersistOnce(f) == refresh' = [refresh EXCEPT ![Owner[f]] = IF @ = 0 THEN flow[f].tok ELSE @]
PersistRefresh(f) == refresh' = [refresh EXCEPT ![Owner[f]] = flow[f].tok]

Answer(f) ==
    /\ flow[f].pc = "answered"
    /\ IF Request(f) = "logout" THEN Finish(f) /\ UNCHANGED access
       ELSE /\ access' = [access EXCEPT ![Owner[f]] = flow[f].tok]
            /\ Goto(f, "half")
    /\ UNCHANGED <<backendVars, refresh, signedIn, excused, outAt>>

\* The second write of _persist; then the request below is sent again, or
\* AuthNotifier is signed in.
Persist(f) ==
    LET p == Owner[f]
        r == flow[f].refs
    IN  /\ flow[f].pc = "half"
        /\ PersistRefresh(f)
        /\ \/ r = <<>> /\ Become(f, NoFlow)
           \/ r # <<>> /\ \E s \in Popped(r) :
                Become(f, [flow[f] EXCEPT !.pc = "send", !.tok = 0, !.refs = s])
        /\ signedIn' = [signedIn EXCEPT ![p] = @ \/ r = <<>>]
        /\ excused' = [excused EXCEPT ![p] =
               @ /\ (hash # flow[f].tok \/ \E g \in Flows \ {f} : Owner[g] = p /\ Issuing(g))]
        /\ UNCHANGED <<backendVars, access, outAt>>

Wipe(f) ==
    LET p == Owner[f]
    IN  /\ flow[f].pc = "wipe"
        /\ access' = [access EXCEPT ![p] = 0]
        /\ refresh' = [refresh EXCEPT ![p] = 0]
        /\ signedIn' = [signedIn EXCEPT ![p] = FALSE]
        /\ Become(f, NoFlow)
        /\ UNCHANGED <<backendVars, excused, outAt>>

-----------------------------------------------------------------------------
(* Faults *)

\* The request or its answer is lost, or the backend stops: any error but a
\* 401 ends the operation.
Fail(f) ==
    /\ flow[f].pc \in {"wire", "create", "write", "answered"}
    /\ Finish(f)
    /\ Replaced({q \in Phones : q = Owner[f] /\ flow[f].pc = "answered"})
    /\ UNCHANGED <<backendVars, phoneVars, outAt>>

\* The app gives up or dies while the handler goes on.
Orphans(F) == {flow[f].tok : f \in {g \in F : flow[g].pc = "write"}}

Timeout(f) ==
    /\ flow[f].pc = "write"
    /\ Cardinality(late) < MaxLate
    /\ Finish(f)
    /\ late' = late \cup Orphans({f})
    /\ UNCHANGED <<exists, hash, now, phoneVars, excused, outAt>>

AppRestarts(p) ==
    LET own == {f \in Flows : Owner[f] = p}
    IN  /\ late' = late \cup Orphans(own)
        /\ Cardinality(late') <= MaxLate
        /\ flow' = [f \in Flows |-> IF f \in own THEN NoFlow ELSE flow[f]]
        /\ signedIn' = [signedIn EXCEPT ![p] = access[p] # 0]
        /\ Replaced({q \in Phones : q = p /\ \E f \in own : flow[f].pc \in {"answered", "half"}})
        /\ UNCHANGED <<exists, hash, now, access, refresh, outAt>>

Tick ==
    /\ now < MaxTime
    /\ now' = now + 1
    /\ UNCHANGED <<exists, hash, late, phoneVars, flow, excused, outAt>>

Progress(f) ==
    \/ Send(f) \/ Denied(f) \/ GiveUp(f) \/ TryRefresh(f)
    \/ ServeApi(f) \/ ServeLogout(f) \/ ServeRefresh(f) \/ ServeLogin(f)
    \/ ServeRegister(f) \/ CreateUser(f)
    \/ WriteHash(f) \/ Answer(f) \/ Persist(f) \/ Wipe(f)

Next ==
    \/ \E f \in Flows :
          \/ \E k \in {"api", "login", "register", "logout"} : Start(f, k)
          \/ Progress(f)
          \/ Fail(f)
          \/ Timeout(f)
    \/ \E t \in late : LateWrite(t)
    \/ \E p \in Phones : AppRestarts(p)
    \/ Tick

Spec == Init /\ [][Next]_vars

\* The event loops of the app and of the backend take every step they can, and
\* a request that is not answered ends after ten seconds (receiveTimeout).
FairSpec == Spec /\ \A f \in Flows : WF_vars(Progress(f) \/ Fail(f))

-----------------------------------------------------------------------------
(* Properties *)

\* A phone never loses its session by itself: with no pair on its way to its
\* storage, its refresh token is the one the backend holds, unless another
\* issue overlapped with its own, an answer was lost, its app died, or the
\* account was used from elsewhere.  Rotation (AuthService.issue) and storage
\* (ApiClient._persist) change apart, in three writes.
SessionKept ==
    \A p \in Phones :
        (refresh[p] # 0 /\ ~excused[p] /\ \A f \in Flows : Owner[f] = p => ~Issuing(f))
            => refresh[p] = hash

\* A logout that overlaps with no other issue holds until somebody logs in:
\* no refresh reopens the session, and no phone holds an access token signed
\* after it, so that the account is out of use one access TTL later.
LogoutHolds == outAt # 0 => hash = 0 /\ \A p \in Phones : access[p] <= outAt

\* The operation ends, or the user logs out of the phone meanwhile.
Over(f) == flow[f].pc = "idle" \/ \E g \in Flows : Owner[g] = Owner[f] /\ flow[g].pc = "wipe"

\* An operation of the app ends, unless a refresh or a login of it was
\* rejected: the interceptor takes that for one more expired access token.
EndsUnlessRejected ==
    \A f \in Flows : flow[f].pc # "idle" ~> (Over(f) \/ flow[f].rejected)

\* ApiClient, of itself: "on a 401 silently refreshes (rotating refresh token)
\* and retries the failed request once".
RetriesOnce == \A f \in Flows : flow[f].pc # "idle" ~> Over(f)
=============================================================================

------------------------------ MODULE Sessions ------------------------------
(***************************************************************************)
(* Login sessions: the UserSession rows, the blacklist in Redis, the tokens*)
(* that name a session, and the guard that reads the blacklist and the     *)
(* account but never the row.                                              *)
(*                                                                         *)
(* A login from a known device reuses its row.  A revocation writes the    *)
(* blacklist with the expiry it read and then deletes the row; what happens*)
(* between those calls decides which tokens stay refused, and who can log  *)
(* in again.                                                               *)
(***************************************************************************)
EXTENDS FiniteSets, Integers

CONSTANTS
    Users,
    Devices,     \* pairs of address and user agent
    SessionIds,
    Handlers,    \* requests that can be in progress at the same time
    Lifetime,    \* SESSION_EXPIRY_DAYS
    MaxTime,     \* bound on the clock
    MaxCalls,    \* bound on the requests of a behaviour
    MaxCrashes   \* bound on the crashes of a behaviour

ASSUME SessionAssumption ==
    /\ Lifetime \in Nat \ {0}
    /\ MaxTime \in Nat /\ MaxCalls \in Nat /\ MaxCrashes \in Nat
    /\ Users # {} /\ Devices # {}

VARIABLES
    clock,
    account,    \* the flags of each user
    session,    \* the UserSession rows
    blocked,    \* when the blacklist entry of a session expires
    tokens,     \* the tokens handed out
    call,       \* how far each request is
    loggedOut,  \* tokens whose logout was answered with success
    causes,     \* observer: what made rows, tokens and blacklist disagree
    calls, crashes

rowVars == <<session, blocked>>
counters == <<calls, crashes>>
vars == <<clock, account, rowVars, tokens, call, loggedOut, causes, counters>>

-----------------------------------------------------------------------------
Times == 0..(MaxTime + Lifetime)
Rows == [st : {"none", "present", "gone"}, user : Users, device : Devices, expires : Times]
Tokens == [session : SessionIds, expires : Times]

\* "late": a token signed after its session's expiry was computed; "overwritten":
\* a login put an older expiry over a newer one; "extended": a login extended a
\* session whose expiry a revocation had read; "unlisted": a revocation deleted a
\* session it had not read; "shortened": a blacklist entry was replaced by one
\* that ends earlier; "abandoned": a revocation ended between blacklist and row.
Causes == {"late", "overwritten", "extended", "unlisted", "shortened", "abandoned"}

LoginPcs == {"find", "extend", "create", "sign"}
RevokePcs == {"readOne", "readAll", "block", "deleteOne", "deleteAll", "fallback"}
Calls == [pc      : {"idle"} \cup LoginPcs \cup RevokePcs,
          kind    : {"login", "one", "all", "logout"},
          user    : Users,
          device  : Devices,
          expires : Times,                         \* of a login's session, a logout's token
          seen    : SUBSET SessionIds,             \* the rows the call has read or made
          keep    : SUBSET SessionIds,             \* the session a call on all spares
          todo    : SUBSET (SessionIds \X Times)]  \* the blacklist entries left to write

Present(i) == session[i].st = "present"
Active(i) == Present(i) /\ session[i].expires > clock
Blacklisted(i) == clock < blocked[i]

\* TokenGuard.canActivate, for tokens that name a session.
Accepted(t) ==
    /\ clock < t.expires
    /\ ~Blacklisted(t.session)
    /\ account[session[t.session].user] = {}

Become(h, c) == call' = [call EXCEPT ![h] = c]
Goto(h, pc) == Become(h, [call[h] EXCEPT !.pc = pc])

\* What the call of h has read and not yet finished with.
Revoking(h) == IF call[h].pc \in {"block", "deleteOne", "deleteAll", "fallback"}
               THEN call[h].seen ELSE {}

\* These sessions carry a new cause.
Blame(S, cause) == causes' = [i \in SessionIds |-> IF i \in S THEN causes[i] \cup {cause} ELSE causes[i]]

SomeUser == CHOOSE u \in Users : TRUE
SomeDevice == CHOOSE d \in Devices : TRUE
NoRow == [st |-> "none", user |-> SomeUser, device |-> SomeDevice, expires |-> 0]
NoCall == [pc |-> "idle", kind |-> "login", user |-> SomeUser, device |-> SomeDevice,
           expires |-> 0, seen |-> {}, keep |-> {}, todo |-> {}]

Init ==
    /\ clock = 0
    /\ account = [u \in Users |-> {}]
    /\ session = [i \in SessionIds |-> NoRow]
    /\ blocked = [i \in SessionIds |-> 0]
    /\ tokens = {} /\ loggedOut = {}
    /\ call = [h \in Handlers |-> NoCall]
    /\ causes = [i \in SessionIds |-> {}]
    /\ calls = 0 /\ crashes = 0

Begin(h, request) ==
    /\ call[h].pc = "idle" /\ calls < MaxCalls
    /\ calls' = calls + 1
    /\ Become(h, request)
    /\ UNCHANGED <<clock, rowVars, tokens, loggedOut, causes, crashes>>

-----------------------------------------------------------------------------
(* AuthService.generateJWT and SessionsService.createSession.  The login   *)
(* itself is behind: a password, a second factor or Google.                *)

BeginLogin(h, u, d) ==
    /\ Begin(h, [NoCall EXCEPT !.pc = "find", !.user = u, !.device = d,
                               !.expires = clock + Lifetime])
    /\ UNCHANGED account

Known(h, i) == Active(i) /\ session[i].user = call[h].user /\ session[i].device = call[h].device

FindSession(h) ==
    /\ call[h].pc = "find"
    /\ \/ \E i \in SessionIds :
            /\ Known(h, i)
            /\ Become(h, [call[h] EXCEPT !.pc = "extend", !.seen = {i}])
       \/ /\ ~ \E i \in SessionIds : Known(h, i)
          /\ Goto(h, "create")
    /\ UNCHANGED <<clock, account, rowVars, tokens, loggedOut, causes, counters>>

\* The update of a row that is gone fails.
Extend(h) ==
    /\ call[h].pc = "extend"
    /\ \E i \in call[h].seen :
         /\ Present(i)
         /\ session' = [session EXCEPT ![i].expires = call[h].expires]
         /\ causes' = [causes EXCEPT ![i] = @ \cup
              (IF call[h].expires < session[i].expires THEN {"overwritten"} ELSE {}) \cup
              (IF \E other \in Handlers : i \in Revoking(other) THEN {"extended"} ELSE {})]
    /\ Goto(h, "sign")
    /\ UNCHANGED <<clock, account, blocked, tokens, loggedOut, counters>>

CreateSession(h) ==
    /\ call[h].pc = "create"
    /\ \E i \in SessionIds :
         /\ session[i].st = "none"
         /\ session' = [session EXCEPT ![i] =
              [st |-> "present", user |-> call[h].user, device |-> call[h].device,
               expires |-> call[h].expires]]
         /\ Become(h, [call[h] EXCEPT !.pc = "sign", !.seen = {i}])
    /\ UNCHANGED <<clock, account, blocked, tokens, loggedOut, causes, counters>>

\* The token's own expiry starts when it is signed.
Sign(h) ==
    /\ call[h].pc = "sign"
    /\ tokens' = tokens \cup {[session |-> i, expires |-> clock + Lifetime] : i \in call[h].seen}
    /\ Blame(IF clock + Lifetime > call[h].expires THEN call[h].seen ELSE {}, "late")
    /\ Become(h, NoCall)
    /\ UNCHANGED <<clock, account, rowVars, loggedOut, counters>>

-----------------------------------------------------------------------------
(* Revocations, by the owner, by logout and by an administrator.           *)

\* SessionsController.revokeSession: one session of the owner of an accepted token.
BeginRevoke(h, i) ==
    /\ \E t \in tokens : Accepted(t) /\ session[t.session].user = session[i].user
    /\ Begin(h, [NoCall EXCEPT !.pc = "readOne", !.kind = "one", !.seen = {i}])
    /\ UNCHANGED account

\* AuthService.logout: the session of the token itself.
BeginLogout(h, t) ==
    /\ Accepted(t)
    /\ Begin(h, [NoCall EXCEPT !.pc = "readOne", !.kind = "logout", !.seen = {t.session},
                               !.expires = t.expires])
    /\ UNCHANGED account

\* SessionsController.revokeAllSessions: all but the session of the token.
BeginRevokeOthers(h, t) ==
    /\ Accepted(t)
    /\ Begin(h, [NoCall EXCEPT !.pc = "readAll", !.kind = "all",
                               !.user = session[t.session].user, !.keep = {t.session}])
    /\ UNCHANGED account

\* AdminUsersService.revokeAllSessions.
BeginRevokeAll(h, u) ==
    /\ Begin(h, [NoCall EXCEPT !.pc = "readAll", !.kind = "all", !.user = u])
    /\ UNCHANGED account

\* AdminUsersService.softDelete: the account first, then its sessions.
BeginSoftDelete(h, u) ==
    /\ "deleted" \notin account[u]
    /\ Begin(h, [NoCall EXCEPT !.pc = "readAll", !.kind = "all", !.user = u])
    /\ account' = [account EXCEPT ![u] = {"deleted"}]

\* Mutant: the row is deleted without a blacklist entry.
ReadOneUnblocked(h) ==
    /\ call[h].pc = "readOne"
    /\ \A i \in call[h].seen : Present(i)
    /\ Goto(h, "deleteOne")
    /\ UNCHANGED <<clock, account, rowVars, tokens, loggedOut, causes, counters>>

ReadOne(h) ==
    /\ call[h].pc = "readOne"
    /\ \A i \in call[h].seen : Present(i)
    /\ Become(h, [call[h] EXCEPT !.pc = "block",
                                 !.todo = {<<i, session[i].expires>> : i \in call[h].seen}])
    /\ UNCHANGED <<clock, account, rowVars, tokens, loggedOut, causes, counters>>

\* The rows of the user, but the one to spare.
Owned(h) == {i \in SessionIds \ call[h].keep : Present(i) /\ session[i].user = call[h].user}

\* findMany: those that have not expired.
ReadAll(h) ==
    /\ call[h].pc = "readAll"
    /\ LET found == {i \in Owned(h) : Active(i)}
       IN Become(h, [call[h] EXCEPT !.pc = "block", !.seen = found,
                                    !.todo = {<<i, session[i].expires>> : i \in found}])
    /\ UNCHANGED <<clock, account, rowVars, tokens, loggedOut, causes, counters>>

\* Mutant: the time to live falls short.
BlacklistBriefly(i, expires) ==
    /\ expires > clock
    /\ blocked' = [blocked EXCEPT ![i] = expires - 1]
    /\ Blame(IF expires < blocked[i] THEN {i} ELSE {}, "shortened")

\* blacklistSession: SET with EX, which Redis refuses for an expiry that is over.
Blacklist(i, expires) ==
    /\ expires > clock
    /\ blocked' = [blocked EXCEPT ![i] = expires]
    /\ Blame(IF expires < blocked[i] THEN {i} ELSE {}, "shortened")

BlockOne(h) ==
    /\ call[h].pc = "block"
    /\ \E entry \in call[h].todo :
         /\ Blacklist(entry[1], entry[2])
         /\ Become(h, [call[h] EXCEPT !.todo = @ \ {entry}])
    /\ UNCHANGED <<clock, account, session, tokens, loggedOut, counters>>

BlocksWritten(h) ==
    /\ call[h].pc = "block" /\ call[h].todo = {}
    /\ Goto(h, IF call[h].kind = "all" THEN "deleteAll" ELSE "deleteOne")
    /\ UNCHANGED <<clock, account, rowVars, tokens, loggedOut, causes, counters>>

\* The answer of a logout.
Answer(h) ==
    /\ Become(h, NoCall)
    /\ loggedOut' = IF call[h].kind # "logout" THEN loggedOut
                    ELSE loggedOut \cup {[session |-> i, expires |-> call[h].expires] : i \in call[h].seen}

DeleteRows(S) ==
    session' = [i \in SessionIds |-> IF i \in S THEN [session[i] EXCEPT !.st = "gone"] ELSE session[i]]

\* Mutant: the row stays.
DeleteNone(h) ==
    /\ call[h].pc = "deleteOne"
    /\ Answer(h)
    /\ UNCHANGED <<clock, account, rowVars, tokens, causes, counters>>

\* Deleting a row that is gone fails.
DeleteOne(h) ==
    /\ call[h].pc = "deleteOne"
    /\ \A i \in call[h].seen : Present(i)
    /\ DeleteRows(call[h].seen)
    /\ Answer(h)
    /\ UNCHANGED <<clock, account, blocked, tokens, causes, counters>>

\* deleteMany: all those rows, whatever findMany had answered.
DeleteAll(h) ==
    /\ call[h].pc = "deleteAll"
    /\ DeleteRows(Owned(h))
    /\ Blame(Owned(h) \ call[h].seen, "unlisted")
    /\ Answer(h)
    /\ UNCHANGED <<clock, account, blocked, tokens, counters>>

\* Mutant: the failure is swallowed and the logout answered.
FallbackWithoutBlock(h) ==
    /\ call[h].pc = "fallback"
    /\ Answer(h)
    /\ UNCHANGED <<clock, account, rowVars, tokens, causes, counters>>

\* Logout catches whatever revokeSession threw and blacklists up to the token's
\* own expiry; a row that is still there stays.
Fallback(h) ==
    /\ call[h].pc = "fallback"
    /\ \E i \in call[h].seen :
         /\ call[h].expires > clock
         /\ blocked' = [blocked EXCEPT ![i] = call[h].expires]
         /\ causes' = [causes EXCEPT ![i] = @ \cup
              (IF call[h].expires < blocked[i] THEN {"shortened"} ELSE {}) \cup
              (IF Present(i) THEN {"abandoned"} ELSE {})]
    /\ Answer(h)
    /\ UNCHANGED <<clock, account, session, tokens, counters>>

\* A call throws: the row is missing, the blacklist refuses the expiry, or the
\* database or Redis fails.  Only a logout goes on.
Fail(h) ==
    /\ call[h].pc # "idle"
    /\ IF call[h].kind = "logout" /\ call[h].pc # "fallback"
       THEN Goto(h, "fallback") /\ UNCHANGED causes
       ELSE /\ Become(h, NoCall)
            /\ Blame({i \in Revoking(h) : Present(i) /\ Blacklisted(i)}, "abandoned")
    /\ UNCHANGED <<clock, account, rowVars, tokens, loggedOut, counters>>

-----------------------------------------------------------------------------
(* The administrator, time and the process.                                *)

Ban(u) ==
    /\ account[u] = {}
    /\ account' = [account EXCEPT ![u] = {"banned"}]
    /\ UNCHANGED <<clock, rowVars, tokens, call, loggedOut, causes, counters>>

Unban(u) ==
    /\ "banned" \in account[u]
    /\ account' = [account EXCEPT ![u] = @ \ {"banned"}]
    /\ UNCHANGED <<clock, rowVars, tokens, call, loggedOut, causes, counters>>

Tick ==
    /\ clock < MaxTime
    /\ clock' = clock + 1
    /\ UNCHANGED <<account, rowVars, tokens, call, loggedOut, causes, counters>>

Crash ==
    /\ crashes < MaxCrashes
    /\ crashes' = crashes + 1
    /\ call' = [h \in Handlers |-> NoCall]
    /\ Blame({i \in UNION {Revoking(h) : h \in Handlers} : Present(i) /\ Blacklisted(i)},
             "abandoned")
    /\ UNCHANGED <<clock, account, rowVars, tokens, loggedOut, calls>>

Requests(h) ==
    \/ \E u \in Users : \/ \E d \in Devices : BeginLogin(h, u, d)
                        \/ BeginRevokeAll(h, u) \/ BeginSoftDelete(h, u)
    \/ \E i \in SessionIds : BeginRevoke(h, i)
    \/ \E t \in tokens : BeginLogout(h, t) \/ BeginRevokeOthers(h, t)

Step(h) ==
    \/ FindSession(h) \/ Extend(h) \/ CreateSession(h) \/ Sign(h)
    \/ ReadOne(h) \/ ReadAll(h) \/ BlockOne(h) \/ BlocksWritten(h)
    \/ DeleteOne(h) \/ DeleteAll(h) \/ Fallback(h) \/ Fail(h)

Next ==
    \/ \E h \in Handlers : Requests(h) \/ Step(h)
    \/ \E u \in Users : Ban(u) \/ Unban(u)
    \/ Tick \/ Crash

Spec == Init /\ [][Next]_vars

-----------------------------------------------------------------------------
\* Every variable has its type.
TypeOK ==
    /\ clock \in 0..MaxTime
    /\ account \in [Users -> SUBSET {"banned", "deleted"}]
    /\ session \in [SessionIds -> Rows]
    /\ blocked \in [SessionIds -> Times]
    /\ tokens \subseteq Tokens /\ loggedOut \subseteq Tokens
    /\ call \in [Handlers -> Calls]
    /\ causes \in [SessionIds -> SUBSET Causes]
    /\ calls \in Nat /\ crashes \in Nat

\* A token the guard accepts has its row for as long as the token lasts, so that
\* its owner sees the session and can revoke it, and a revoked session is refused
\* -- unless one of five named races of logins and revocations came between.
AcceptedIsListed ==
    \A t \in tokens : Accepted(t) =>
        \/ Present(t.session) /\ session[t.session].expires >= t.expires
        \/ causes[t.session] \cap {"late", "overwritten", "extended", "unlisted", "shortened"} # {}

\* A row that logins of its device would reuse is not blacklisted, unless its
\* revocation is on its way or was given up half way; otherwise that device would
\* get only tokens the guard refuses.
ReusableIsUsable ==
    \A i \in SessionIds : Present(i) /\ Blacklisted(i) =>
        \/ \E h \in Handlers : i \in Revoking(h)
        \/ "abandoned" \in causes[i]

\* Once a logout has answered, the guard refuses that token for good, even when the
\* logout's own calls failed, unless the session's expiries raced.
LoggedOutIsRefused ==
    \A t \in loggedOut : Accepted(t) =>
        causes[t.session] \cap {"late", "overwritten", "shortened"} # {}

\* A session as its owner knows it, and the tokens that stand for it, whether or not
\* the account is banned for a while.
Spoiled == {i \in SessionIds : causes[i] # {}}
State == [i \in SessionIds |-> IF Present(i) THEN "open"
                               ELSE IF session[i].st = "gone" THEN "closed" ELSE "none"]
Owner == [i \in SessionIds |-> IF session[i].st = "none" THEN {} ELSE {session[i].user}]
InForce == {t \in tokens : clock < t.expires /\ ~Blacklisted(t.session) /\ causes[t.session] = {}}

Life == INSTANCE SessionLife WITH
    state <- State, owner <- Owner, granted <- tokens, inForce <- InForce, spoiled <- Spoiled

\* Whatever logins, revocations, failing calls and crashes interleave: a session is
\* one user's, its tokens are in force only while its row is there, and a token that
\* was refused on account of its session is never accepted again -- unless one of the
\* six named races spoiled the session.
SessionsLive == Life!Spec
=============================================================================

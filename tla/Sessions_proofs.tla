--------------------------- MODULE Sessions_proofs --------------------------
(***************************************************************************)
(* Theorems about Sessions, for every number of users, devices, sessions,  *)
(* concurrent requests and crashes.                                        *)
(***************************************************************************)
EXTENDS Sessions, TLAPS

-----------------------------------------------------------------------------
(* Types.                                                                  *)

LEMMA NoCallType ==
    /\ SomeUser \in Users /\ SomeDevice \in Devices
    /\ NoRow \in Rows /\ NoRow.st = "none" /\ NoRow.expires = 0
    /\ NoCall \in Calls /\ NoCall.pc = "idle" /\ NoCall.kind = "login"
    /\ NoCall.seen = {} /\ NoCall.todo = {}
<1>1. SomeUser \in Users /\ SomeDevice \in Devices
  BY SessionAssumption DEF SomeUser, SomeDevice
<1>2. 0 \in Times
  BY SessionAssumption DEF Times
<1> QED BY <1>1, <1>2 DEF NoRow, NoCall, Rows, Calls

LEMMA CallUpdates ==
    ASSUME NEW c \in Calls
    PROVE  /\ \A pc \in LoginPcs \cup RevokePcs : [c EXCEPT !.pc = pc] \in Calls
           /\ \A pc \in LoginPcs \cup RevokePcs, S \in SUBSET SessionIds :
                 [c EXCEPT !.pc = pc, !.seen = S] \in Calls
           /\ \A pc \in LoginPcs \cup RevokePcs, T \in SUBSET (SessionIds \X Times) :
                 [c EXCEPT !.pc = pc, !.todo = T] \in Calls
           /\ \A pc \in LoginPcs \cup RevokePcs, S \in SUBSET SessionIds,
                 T \in SUBSET (SessionIds \X Times) :
                 [c EXCEPT !.pc = pc, !.seen = S, !.todo = T] \in Calls
           /\ \A T \in SUBSET (SessionIds \X Times) : [c EXCEPT !.todo = T] \in Calls
BY DEF Calls

LEMMA MovedFields ==
    ASSUME NEW c \in Calls, NEW pc
    PROVE  /\ [c EXCEPT !.pc = pc].pc = pc
           /\ [c EXCEPT !.pc = pc].kind = c.kind /\ [c EXCEPT !.pc = pc].user = c.user
           /\ [c EXCEPT !.pc = pc].expires = c.expires /\ [c EXCEPT !.pc = pc].seen = c.seen
           /\ [c EXCEPT !.pc = pc].keep = c.keep /\ [c EXCEPT !.pc = pc].todo = c.todo
BY DEF Calls

\* The requests a handler can begin with.
LEMMA BeginTypes ==
    ASSUME NEW c \in Calls
    PROVE  /\ \A u \in Users, d \in Devices, x \in Times :
                 [c EXCEPT !.pc = "find", !.user = u, !.device = d, !.expires = x] \in Calls
           /\ \A i \in SessionIds :
                 [c EXCEPT !.pc = "readOne", !.kind = "one", !.seen = {i}] \in Calls
           /\ \A i \in SessionIds, x \in Times :
                 [c EXCEPT !.pc = "readOne", !.kind = "logout", !.seen = {i}, !.expires = x]
                    \in Calls
           /\ \A u \in Users, K \in SUBSET SessionIds :
                 [c EXCEPT !.pc = "readAll", !.kind = "all", !.user = u, !.keep = K] \in Calls
           /\ \A u \in Users : [c EXCEPT !.pc = "readAll", !.kind = "all", !.user = u] \in Calls
BY DEF Calls, LoginPcs, RevokePcs

LEMMA BecomeType ==
    ASSUME TypeOK, NEW h \in Handlers, NEW c \in Calls, Become(h, c)
    PROVE  /\ call' \in [Handlers -> Calls] /\ call'[h] = c
           /\ \A k \in Handlers \ {h} : call'[k] = call[k]
BY DEF TypeOK, Become

LEMMA BlameEffect ==
    ASSUME TypeOK, NEW S, NEW cause \in Causes, Blame(S, cause)
    PROVE  /\ causes' \in [SessionIds -> SUBSET Causes]
           /\ \A i \in SessionIds : causes[i] \subseteq causes'[i]
           /\ \A i \in SessionIds : i \in S => cause \in causes'[i]
BY DEF TypeOK, Blame

LEMMA DeleteEffect ==
    ASSUME TypeOK, NEW S, DeleteRows(S)
    PROVE  /\ session' \in [SessionIds -> Rows]
           /\ \A i \in SessionIds :
                 /\ session'[i].st = IF i \in S THEN "gone" ELSE session[i].st
                 /\ session'[i].expires = session[i].expires
                 /\ session'[i].user = session[i].user
BY DEF TypeOK, DeleteRows, Rows

LEMMA ClockTimes ==
    ASSUME TypeOK
    PROVE  /\ clock \in Nat /\ clock + Lifetime \in Times /\ clock < clock + Lifetime
           /\ Times \subseteq Nat
BY SessionAssumption DEF TypeOK, Times

\* The token a logout answers for.
LEMMA AnswerEffect ==
    ASSUME TypeOK, NEW h \in Handlers, Answer(h)
    PROVE  /\ call' \in [Handlers -> Calls] /\ call'[h] = NoCall
           /\ \A k \in Handlers \ {h} : call'[k] = call[k]
           /\ loggedOut' \subseteq Tokens
           /\ \A t \in loggedOut' :
                 \/ t \in loggedOut
                 \/ /\ call[h].kind = "logout" /\ t.session \in call[h].seen
                    /\ t = [session |-> t.session, expires |-> call[h].expires]
<1>1. Become(h, NoCall) /\ NoCall \in Calls
  BY NoCallType DEF Answer
<1>2. call[h] \in Calls /\ call[h].seen \subseteq SessionIds /\ call[h].expires \in Times
  BY DEF TypeOK, Calls
<1>3. \A i \in call[h].seen : [session |-> i, expires |-> call[h].expires] \in Tokens
  BY <1>2 DEF Tokens
<1> QED BY <1>1, <1>2, <1>3, BecomeType DEF Answer, TypeOK

LEMMA TypeInit == Init => TypeOK
BY NoCallType, SessionAssumption DEF Init, TypeOK, Times

LEMMA BeginEffect ==
    ASSUME TypeOK, NEW h \in Handlers, NEW c \in Calls, Begin(h, c)
    PROVE  /\ call' \in [Handlers -> Calls] /\ call'[h] = c /\ call[h].pc = "idle"
           /\ \A k \in Handlers \ {h} : call'[k] = call[k]
           /\ calls' \in Nat
           /\ UNCHANGED <<clock, session, blocked, tokens, loggedOut, causes, crashes>>
BY BecomeType DEF Begin, TypeOK, rowVars

LEMMA RequestsType ==
    ASSUME TypeOK, NEW h \in Handlers, Requests(h)
    PROVE  \E c \in Calls :
              /\ Begin(h, c)
              /\ \/ c.pc = "find" /\ c.kind = "login" /\ c.seen = {} /\ c.todo = {}
                 \/ /\ c.pc = "readOne" /\ c.kind = "one"
                 \/ /\ c.pc = "readOne" /\ c.kind = "logout"
                    /\ \E t \in tokens : c.seen = {t.session} /\ c.expires = t.expires
                 \/ c.pc = "readAll" /\ c.kind = "all" /\ c.seen = {}
              /\ account' \in [Users -> SUBSET {"banned", "deleted"}]
<1> DEFINE Good(c) ==
              /\ Begin(h, c)
              /\ \/ c.pc = "find" /\ c.kind = "login" /\ c.seen = {} /\ c.todo = {}
                 \/ /\ c.pc = "readOne" /\ c.kind = "one"
                 \/ /\ c.pc = "readOne" /\ c.kind = "logout"
                    /\ \E t \in tokens : c.seen = {t.session} /\ c.expires = t.expires
                 \/ c.pc = "readAll" /\ c.kind = "all" /\ c.seen = {}
              /\ account' \in [Users -> SUBSET {"banned", "deleted"}]
<1>n. NoCall \in Calls /\ NoCall.kind = "login" /\ NoCall.seen = {} /\ NoCall.todo = {}
  BY NoCallType
<1>t. tokens \subseteq Tokens /\ account \in [Users -> SUBSET {"banned", "deleted"}]
  BY DEF TypeOK
<1>1. ASSUME NEW u \in Users, NEW d \in Devices, BeginLogin(h, u, d) PROVE \E c \in Calls : Good(c)
  <2>1. [NoCall EXCEPT !.pc = "find", !.user = u, !.device = d, !.expires = clock + Lifetime] \in Calls
    BY <1>n, BeginTypes, ClockTimes
  <2> QED BY <1>1, <1>n, <1>t, <2>1 DEF BeginLogin, Calls
<1>2. ASSUME NEW i \in SessionIds, BeginRevoke(h, i) PROVE \E c \in Calls : Good(c)
  <2>1. [NoCall EXCEPT !.pc = "readOne", !.kind = "one", !.seen = {i}] \in Calls
    BY <1>n, BeginTypes
  <2> QED BY <1>2, <1>n, <1>t, <2>1 DEF BeginRevoke, Calls
<1>3. ASSUME NEW t \in tokens, BeginLogout(h, t) PROVE \E c \in Calls : Good(c)
  <2>1. [NoCall EXCEPT !.pc = "readOne", !.kind = "logout", !.seen = {t.session}, !.expires = t.expires]
           \in Calls
    BY <1>n, <1>t, BeginTypes DEF Tokens
  <2> QED BY <1>3, <1>n, <1>t, <2>1 DEF BeginLogout, Calls
<1>4. ASSUME NEW t \in tokens, BeginRevokeOthers(h, t) PROVE \E c \in Calls : Good(c)
  <2>1. t.session \in SessionIds /\ session[t.session].user \in Users
    BY <1>t DEF TypeOK, Tokens, Rows
  <2>2. [NoCall EXCEPT !.pc = "readAll", !.kind = "all", !.user = session[t.session].user,
                       !.keep = {t.session}] \in Calls
    BY <1>n, <2>1, BeginTypes
  <2> QED BY <1>4, <1>n, <1>t, <2>2 DEF BeginRevokeOthers, Calls
<1>5. ASSUME NEW u \in Users, BeginRevokeAll(h, u) \/ BeginSoftDelete(h, u)
      PROVE  \E c \in Calls : Good(c)
  <2>1. [NoCall EXCEPT !.pc = "readAll", !.kind = "all", !.user = u] \in Calls
    BY <1>n, BeginTypes
  <2>2. account' \in [Users -> SUBSET {"banned", "deleted"}]
    BY <1>5, <1>t DEF BeginRevokeAll, BeginSoftDelete
  <2> QED BY <1>5, <1>n, <2>1, <2>2 DEF BeginRevokeAll, BeginSoftDelete, Calls
<1> QED BY <1>1, <1>2, <1>3, <1>4, <1>5 DEF Requests

\* What a login that reuses a row changes.
LEMMA ExtendEffect ==
    ASSUME TypeOK, NEW h \in Handlers, Extend(h)
    PROVE  \E i \in call[h].seen :
              /\ i \in SessionIds /\ Present(i)
              /\ session' \in [SessionIds -> Rows]
              /\ session'[i].st = "present" /\ session'[i].expires = call[h].expires
              /\ session'[i].user = session[i].user
              /\ \A j \in SessionIds \ {i} : session'[j] = session[j]
              /\ \A j \in SessionIds : causes[j] \subseteq causes'[j]
              /\ call[h].expires < session[i].expires => "overwritten" \in causes'[i]
              /\ (\E other \in Handlers : i \in Revoking(other)) => "extended" \in causes'[i]
<1>1. PICK i \in call[h].seen :
         /\ Present(i)
         /\ session' = [session EXCEPT ![i].expires = call[h].expires]
         /\ causes' = [causes EXCEPT ![i] = @ \cup
              (IF call[h].expires < session[i].expires THEN {"overwritten"} ELSE {}) \cup
              (IF \E other \in Handlers : i \in Revoking(other) THEN {"extended"} ELSE {})]
  BY DEF Extend
<1>2. i \in SessionIds /\ call[h].expires \in Times /\ session[i] \in Rows
  BY DEF TypeOK, Calls
<1>3. session' = [session EXCEPT ![i] = [session[i] EXCEPT !.expires = call[h].expires]]
  BY <1>1
<1>4. /\ [session[i] EXCEPT !.expires = call[h].expires] \in Rows
      /\ [session[i] EXCEPT !.expires = call[h].expires].expires = call[h].expires
      /\ [session[i] EXCEPT !.expires = call[h].expires].user = session[i].user
      /\ [session[i] EXCEPT !.expires = call[h].expires].st = session[i].st
  BY <1>2 DEF Rows
<1>5. /\ session' \in [SessionIds -> Rows]
      /\ session'[i].st = "present" /\ session'[i].expires = call[h].expires
      /\ session'[i].user = session[i].user
      /\ \A j \in SessionIds \ {i} : session'[j] = session[j]
  BY <1>1, <1>2, <1>3, <1>4 DEF TypeOK, Present
<1>6. /\ \A j \in SessionIds : causes[j] \subseteq causes'[j]
      /\ call[h].expires < session[i].expires => "overwritten" \in causes'[i]
      /\ (\E other \in Handlers : i \in Revoking(other)) => "extended" \in causes'[i]
  BY <1>1, <1>2 DEF TypeOK
<1> QED BY <1>1, <1>2, <1>5, <1>6

LEMMA TypeNext == TypeOK /\ [Next]_vars => TypeOK'
<1> SUFFICES ASSUME TypeOK, [Next]_vars PROVE TypeOK'
  OBVIOUS
<1> USE DEF rowVars, counters
<1>a. \A h \in Handlers : /\ call[h] \in Calls /\ call[h].seen \subseteq SessionIds
                          /\ call[h].todo \subseteq SessionIds \X Times
                          /\ call[h].expires \in Times /\ call[h].user \in Users
                          /\ call[h].device \in Devices
  BY DEF TypeOK, Calls
<1>b. \A i \in SessionIds : session[i] \in Rows /\ session[i].expires \in Times
  BY DEF TypeOK, Rows
<1>1. ASSUME NEW h \in Handlers, Requests(h) PROVE TypeOK'
  BY <1>1, RequestsType, BeginEffect DEF TypeOK
<1>2. ASSUME NEW h \in Handlers, FindSession(h) PROVE TypeOK'
  <2>1. \E c \in Calls : Become(h, c)
    BY <1>2, <1>a, CallUpdates DEF FindSession, Goto, LoginPcs
  <2> QED BY <1>2, <2>1, BecomeType DEF TypeOK, FindSession
<1>3. ASSUME NEW h \in Handlers, Extend(h) PROVE TypeOK'
  <2>1. \E c \in Calls : Become(h, c)
    BY <1>3, <1>a, CallUpdates DEF Extend, Goto, LoginPcs
  <2>2. session' \in [SessionIds -> Rows]
    BY <1>3, ExtendEffect
  <2>3. causes' \in [SessionIds -> SUBSET Causes]
    BY <1>3, <1>a DEF Extend, TypeOK, Causes
  <2> QED BY <1>3, <2>1, <2>2, <2>3, BecomeType DEF TypeOK, Extend
<1>4. ASSUME NEW h \in Handlers, CreateSession(h) PROVE TypeOK'
  <2>1. \E c \in Calls : Become(h, c)
    BY <1>4, <1>a, CallUpdates DEF CreateSession, LoginPcs
  <2>2. session' \in [SessionIds -> Rows]
    BY <1>4, <1>a DEF CreateSession, TypeOK, Rows
  <2> QED BY <1>4, <2>1, <2>2, BecomeType DEF TypeOK, CreateSession
<1>5. ASSUME NEW h \in Handlers, Sign(h) PROVE TypeOK'
  <2>1. tokens' \subseteq Tokens
    BY <1>5, <1>a, ClockTimes DEF Sign, TypeOK, Tokens
  <2>2. causes' \in [SessionIds -> SUBSET Causes]
    BY <1>5, BlameEffect DEF Sign, Causes
  <2> QED BY <1>5, <2>1, <2>2, NoCallType, BecomeType DEF TypeOK, Sign
<1>6. ASSUME NEW h \in Handlers, ReadOne(h) \/ ReadAll(h) PROVE TypeOK'
  <2>1. \A S \in SUBSET SessionIds : {<<i, session[i].expires>> : i \in S} \in SUBSET (SessionIds \X Times)
    BY <1>b
  <2>2. {i \in Owned(h) : Active(i)} \in SUBSET SessionIds
    BY DEF Owned
  <2>3. \E c \in Calls : Become(h, c)
    BY <1>6, <1>a, <2>1, <2>2, CallUpdates DEF ReadOne, ReadAll, RevokePcs
  <2> QED BY <1>6, <2>3, BecomeType DEF TypeOK, ReadOne, ReadAll
<1>7. ASSUME NEW h \in Handlers, BlockOne(h) PROVE TypeOK'
  <2>1. PICK entry \in call[h].todo :
           Blacklist(entry[1], entry[2]) /\ Become(h, [call[h] EXCEPT !.todo = @ \ {entry}])
    BY <1>7 DEF BlockOne
  <2>2. entry[1] \in SessionIds /\ entry[2] \in Times
    BY <1>a
  <2>3. \E c \in Calls : Become(h, c)
    BY <1>a, <2>1, CallUpdates
  <2>4. blocked' \in [SessionIds -> Times] /\ causes' \in [SessionIds -> SUBSET Causes]
    BY <2>1, <2>2, BlameEffect DEF Blacklist, TypeOK, Causes
  <2> QED BY <1>7, <2>3, <2>4, BecomeType DEF TypeOK, BlockOne
<1>8. ASSUME NEW h \in Handlers, BlocksWritten(h) PROVE TypeOK'
  <2>1. \E c \in Calls : Become(h, c)
    BY <1>8, <1>a, CallUpdates DEF BlocksWritten, Goto, RevokePcs
  <2> QED BY <1>8, <2>1, BecomeType DEF TypeOK, BlocksWritten
<1>9. ASSUME NEW h \in Handlers, DeleteOne(h) PROVE TypeOK'
  BY <1>9, DeleteEffect, AnswerEffect DEF TypeOK, DeleteOne
<1>10. ASSUME NEW h \in Handlers, DeleteAll(h) PROVE TypeOK'
  <2>1. causes' \in [SessionIds -> SUBSET Causes]
    BY <1>10, BlameEffect DEF DeleteAll, Causes
  <2> QED BY <1>10, <2>1, DeleteEffect, AnswerEffect DEF TypeOK, DeleteAll
<1>11. ASSUME NEW h \in Handlers, Fallback(h) PROVE TypeOK'
  <2>1. blocked' \in [SessionIds -> Times] /\ causes' \in [SessionIds -> SUBSET Causes]
    BY <1>11, <1>a DEF Fallback, TypeOK, Causes
  <2> QED BY <1>11, <2>1, AnswerEffect DEF TypeOK, Fallback
<1>12. ASSUME NEW h \in Handlers, Fail(h) PROVE TypeOK'
  <2>1. \E c \in Calls : Become(h, c)
    BY <1>12, <1>a, NoCallType, CallUpdates DEF Fail, Goto, RevokePcs
  <2>2. causes' \in [SessionIds -> SUBSET Causes]
    BY <1>12, BlameEffect DEF Fail, Causes, TypeOK
  <2> QED BY <1>12, <2>1, <2>2, BecomeType DEF TypeOK, Fail
<1>13. ASSUME NEW u \in Users, Ban(u) \/ Unban(u) PROVE TypeOK'
  BY <1>13 DEF TypeOK, Ban, Unban
<1>14. CASE Tick
  BY <1>14, SessionAssumption DEF TypeOK, Tick
<1>15. CASE Crash
  <2>1. causes' \in [SessionIds -> SUBSET Causes]
    BY <1>15, BlameEffect DEF Crash, Causes
  <2> QED BY <1>15, <2>1, NoCallType DEF TypeOK, Crash
<1>16. CASE UNCHANGED vars
  BY <1>16 DEF TypeOK, vars
<1> QED BY <1>1, <1>2, <1>3, <1>4, <1>5, <1>6, <1>7, <1>8, <1>9, <1>10, <1>11, <1>12, <1>13,
     <1>14, <1>15, <1>16 DEF Next, Step

\* Every variable keeps its type.
THEOREM SessionTypes == Spec => []TypeOK
BY TypeInit, TypeNext, PTL DEF Spec

-----------------------------------------------------------------------------
(* The invariant.                                                          *)

Caused(i, C) == causes[i] \cap C # {}
Taken(i) == session[i].st # "none"
Ending == {"block", "deleteOne", "deleteAll"}

\* The requests and their steps.
KindHolds(c) ==
    /\ c.pc \in LoginPcs => c.kind = "login"
    /\ c.pc = "readOne" => c.kind \in {"one", "logout"}
    /\ c.pc \in {"readAll", "deleteAll"} => c.kind = "all"
    /\ c.pc = "fallback" => c.kind = "logout"
    /\ c.pc \in {"extend", "sign"} \/ c.kind = "logout" => \E i \in SessionIds : c.seen = {i}

\* A login holds a row that exists, and signs for no longer than the row lasts.
LoginHolds(c) ==
    /\ c.pc \in {"extend", "sign"} => \A i \in c.seen : Taken(i)
    /\ c.pc = "sign" =>
         \A i \in c.seen : c.expires <= session[i].expires \/ Caused(i, {"overwritten"})

\* A revocation has blacklisted what it has read, or is about to, up to the expiry
\* of the row.
RevocationHolds(c) ==
    /\ c.pc \in Ending \cup {"fallback"} \/ c.kind = "logout" => \A i \in c.seen : Taken(i)
    /\ c.pc = "block" =>
         \A entry \in c.todo :
            entry[1] \in c.seen
            /\ (entry[2] >= session[entry[1]].expires \/ Caused(entry[1], {"extended"}))
    /\ c.pc \in Ending =>
         \A i \in c.seen : \/ c.pc = "block" /\ \E entry \in c.todo : entry[1] = i
                           \/ blocked[i] >= session[i].expires
                           \/ Caused(i, {"extended", "shortened"})

\* A revocation of all has read rows of its user only, and spares the same one.
AllHolds(c) ==
    c.pc \in Ending /\ c.kind = "all" =>
        \A i \in c.seen : session[i].user = c.user /\ i \notin c.keep

\* A logout has blacklisted the session for as long as its token lasts, or is about
\* to.
LogoutHolds(c) ==
    c.kind = "logout" =>
        /\ \A i \in c.seen : [session |-> i, expires |-> c.expires] \in tokens
        /\ c.pc = "block" =>
             \A entry \in c.todo : entry[2] >= c.expires \/ Caused(entry[1], {"late", "overwritten"})
        /\ c.pc \in Ending =>
             \A i \in c.seen : \/ c.pc = "block" /\ \E entry \in c.todo : entry[1] = i
                               \/ blocked[i] >= c.expires
                               \/ Caused(i, {"late", "overwritten", "shortened"})

CallInv(c) == KindHolds(c) /\ LoginHolds(c) /\ RevocationHolds(c) /\ AllHolds(c) /\ LogoutHolds(c)

\* Tokens last no longer than their rows.
TokensCovered ==
    \A t \in tokens : /\ Taken(t.session)
                      /\ t.expires <= session[t.session].expires \/ Caused(t.session, {"late", "overwritten"})

\* The blacklist knows sessions that exist or existed, and all that are gone.
BlacklistCovers ==
    \A i \in SessionIds :
        /\ session[i].st = "none" => blocked[i] = 0
        /\ session[i].st = "gone" => blocked[i] >= session[i].expires
                                     \/ Caused(i, {"extended", "unlisted", "shortened"})

LogoutsCovered ==
    \A t \in loggedOut : blocked[t.session] >= t.expires
                         \/ Caused(t.session, {"late", "overwritten", "shortened"})

SessionInv ==
    /\ TypeOK
    /\ \A h \in Handlers : CallInv(call[h])
    /\ TokensCovered /\ BlacklistCovers /\ LogoutsCovered /\ ReusableIsUsable

\* What every step keeps to: causes and tokens only grow, rows keep their user, an
\* expiry that sinks or that a revocation has read leaves its cause, and so does a
\* blacklist entry that is shortened.
Keeps(c) ==
    /\ tokens \subseteq tokens'
    /\ \A i \in SessionIds :
         /\ causes[i] \subseteq causes'[i]
         /\ Taken(i) => Taken(i)' /\ session'[i].user = session[i].user
         /\ Taken(i) => \/ session'[i].expires = session[i].expires
                        \/ /\ session'[i].expires < session[i].expires => "overwritten" \in causes'[i]
                           /\ c.pc \in Ending /\ i \in c.seen => "extended" \in causes'[i]
         /\ blocked'[i] >= blocked[i] \/ "shortened" \in causes'[i]

LEMMA CausedGrows ==
    ASSUME NEW i \in SessionIds, causes[i] \subseteq causes'[i]
    PROVE  /\ \A C : Caused(i, C) => Caused(i, C)'
           /\ \A C : \A cause \in C : cause \in causes'[i] => Caused(i, C)'
BY DEF Caused

LEMMA CallKept ==
    ASSUME TypeOK, TypeOK', NEW c \in Calls, CallInv(c), Keeps(c)
    PROVE  CallInv(c)'
<1>0. /\ c.seen \subseteq SessionIds /\ c.todo \subseteq SessionIds \X Times /\ c.expires \in Nat
      /\ \A i \in SessionIds : /\ session[i].expires \in Nat /\ session'[i].expires \in Nat
                               /\ blocked[i] \in Nat /\ blocked'[i] \in Nat
      /\ \A entry \in c.todo : entry[1] \in SessionIds /\ entry[2] \in Nat
  BY SessionAssumption DEF TypeOK, Calls, Rows, Times
<1>1. LoginHolds(c)'
  <2>1. c.pc \in {"extend", "sign"} => \A i \in c.seen : Taken(i)'
    BY <1>0 DEF CallInv, LoginHolds, Keeps
  <2>2. ASSUME c.pc = "sign", NEW i \in c.seen
        PROVE  c.expires <= session'[i].expires \/ Caused(i, {"overwritten"})'
    <3>1. Taken(i) /\ (c.expires <= session[i].expires \/ Caused(i, {"overwritten"}))
      BY <2>2 DEF CallInv, LoginHolds
    <3> QED BY <1>0, <3>1, CausedGrows DEF Keeps
  <2> QED BY <2>1, <2>2 DEF LoginHolds
<1>2. RevocationHolds(c)'
  <2>1. c.pc \in Ending \cup {"fallback"} \/ c.kind = "logout" => \A i \in c.seen : Taken(i)'
    BY <1>0 DEF CallInv, RevocationHolds, Keeps
  <2>2. ASSUME c.pc = "block", NEW entry \in c.todo
        PROVE  /\ entry[1] \in c.seen
               /\ entry[2] >= session'[entry[1]].expires \/ Caused(entry[1], {"extended"})'
    <3>1. /\ entry[1] \in c.seen /\ Taken(entry[1])
          /\ entry[2] >= session[entry[1]].expires \/ Caused(entry[1], {"extended"})
      BY <2>2 DEF CallInv, RevocationHolds, Ending
    <3> QED BY <1>0, <2>2, <3>1, CausedGrows DEF Keeps, Ending
  <2>3. ASSUME c.pc \in Ending, NEW i \in c.seen
        PROVE  \/ c.pc = "block" /\ \E entry \in c.todo : entry[1] = i
               \/ blocked'[i] >= session'[i].expires
               \/ Caused(i, {"extended", "shortened"})'
    <3>1. /\ Taken(i)
          /\ \/ c.pc = "block" /\ \E entry \in c.todo : entry[1] = i
             \/ blocked[i] >= session[i].expires
             \/ Caused(i, {"extended", "shortened"})
      BY <2>3 DEF CallInv, RevocationHolds
    <3>2. \/ session'[i].expires = session[i].expires \/ "extended" \in causes'[i]
      BY <1>0, <2>3, <3>1 DEF Keeps
    <3> QED BY <1>0, <3>1, <3>2, CausedGrows DEF Keeps
  <2> QED BY <2>1, <2>2, <2>3 DEF RevocationHolds
<1>3. AllHolds(c)'
  BY <1>0 DEF CallInv, AllHolds, RevocationHolds, Keeps
<1>4. LogoutHolds(c)'
  <2>1. ASSUME c.kind = "logout", c.pc = "block", NEW entry \in c.todo
        PROVE  entry[2] >= c.expires \/ Caused(entry[1], {"late", "overwritten"})'
    BY <1>0, <2>1, CausedGrows DEF CallInv, LogoutHolds, Keeps
  <2>2. ASSUME c.kind = "logout", c.pc \in Ending, NEW i \in c.seen
        PROVE  \/ c.pc = "block" /\ \E entry \in c.todo : entry[1] = i
               \/ blocked'[i] >= c.expires
               \/ Caused(i, {"late", "overwritten", "shortened"})'
    <3>1. \/ c.pc = "block" /\ \E entry \in c.todo : entry[1] = i
          \/ blocked[i] >= c.expires
          \/ Caused(i, {"late", "overwritten", "shortened"})
      BY <2>2 DEF CallInv, LogoutHolds
    <3> QED BY <1>0, <3>1, CausedGrows DEF Keeps
  <2> QED BY <2>1, <2>2 DEF CallInv, LogoutHolds, Keeps
<1>5. KindHolds(c)'
  BY DEF CallInv, KindHolds
<1> QED BY <1>1, <1>2, <1>3, <1>4, <1>5 DEF CallInv

\* The other parts, under steps that add nothing to tokens, gone rows or logouts.
LEMMA TokensKept ==
    ASSUME TypeOK, TypeOK', TokensCovered, Keeps(NoCall), tokens' = tokens
    PROVE  TokensCovered'
<1> SUFFICES ASSUME NEW t \in tokens
             PROVE  /\ Taken(t.session)'
                    /\ t.expires <= session'[t.session].expires
                       \/ Caused(t.session, {"late", "overwritten"})'
  BY DEF TokensCovered
<1>1. /\ t.session \in SessionIds /\ t.expires \in Nat
      /\ session[t.session].expires \in Nat /\ session'[t.session].expires \in Nat
  BY SessionAssumption DEF TypeOK, Tokens, Times, Rows
<1>2. /\ Taken(t.session)
      /\ t.expires <= session[t.session].expires \/ Caused(t.session, {"late", "overwritten"})
  BY DEF TokensCovered
<1> QED BY <1>1, <1>2, CausedGrows DEF Keeps

LEMMA LogoutsKept ==
    ASSUME TypeOK, TypeOK', LogoutsCovered, Keeps(NoCall), loggedOut' = loggedOut
    PROVE  LogoutsCovered'
<1> SUFFICES ASSUME NEW t \in loggedOut
             PROVE  blocked'[t.session] >= t.expires
                    \/ Caused(t.session, {"late", "overwritten", "shortened"})'
  BY DEF LogoutsCovered
<1>1. /\ t.session \in SessionIds /\ t.expires \in Nat
      /\ blocked[t.session] \in Nat /\ blocked'[t.session] \in Nat
  BY SessionAssumption DEF TypeOK, Tokens, Times
<1>2. blocked[t.session] >= t.expires \/ Caused(t.session, {"late", "overwritten", "shortened"})
  BY DEF LogoutsCovered
<1> QED BY <1>1, <1>2, CausedGrows DEF Keeps

\* The calls of the handlers, one at a time.
LEMMA CallsInv ==
    ASSUME call' \in [Handlers -> Calls],
           \A c \in Calls, k \in Handlers : c = call'[k] => CallInv(c)'
    PROVE  (\A k \in Handlers : CallInv(call[k]))'
<1> SUFFICES ASSUME NEW k \in Handlers PROVE CallInv(call[k])'
  OBVIOUS
<1>1. PICK c \in Calls : c = call'[k]
  OBVIOUS
<1>2. CallInv(c)'
  BY <1>1
<1>3. LoginHolds(call[k])'
  BY <1>1, <1>2 DEF CallInv, LoginHolds, Caused, Taken
<1>4. RevocationHolds(call[k])'
  BY <1>1, <1>2 DEF CallInv, RevocationHolds, Caused, Taken, Ending
<1>5. AllHolds(call[k])'
  BY <1>1, <1>2 DEF CallInv, AllHolds, Ending
<1>6. LogoutHolds(call[k])'
  BY <1>1, <1>2 DEF CallInv, LogoutHolds, Caused, Ending
<1>7. KindHolds(call[k])'
  BY <1>1, <1>2 DEF CallInv, KindHolds
<1> QED BY <1>3, <1>4, <1>5, <1>6, <1>7 DEF CallInv

\* A step that only moves calls on.
LEMMA QuietStep ==
    ASSUME SessionInv, TypeOK', UNCHANGED <<session, blocked, tokens, loggedOut, causes>>,
           clock <= clock',
           \A c \in Calls, k \in Handlers : c = call'[k] => CallInv(c),
           \A k \in Handlers : Revoking(k) \subseteq Revoking(k)'
    PROVE  SessionInv'
<1> USE DEF SessionInv
<1>1. \A i \in SessionIds : blocked[i] \in Nat
  BY SessionAssumption DEF TypeOK, Times
<1>2. \A c : Keeps(c)
  BY <1>1 DEF Keeps, Taken
<1>3. (\A k \in Handlers : CallInv(call[k]))'
  <2>1. ASSUME NEW c \in Calls, NEW k \in Handlers, c = call'[k] PROVE CallInv(c)'
    BY <1>2, <2>1, CallKept
  <2>2. call' \in [Handlers -> Calls]
    BY DEF TypeOK
  <2> QED BY <2>1, <2>2, CallsInv
<1>4. TokensCovered' /\ LogoutsCovered'
  BY <1>2, TokensKept, LogoutsKept
<1>5. BlacklistCovers'
  BY DEF BlacklistCovers, Caused
<1>6. ReusableIsUsable'
  <2> SUFFICES ASSUME NEW i \in SessionIds, Present(i)', Blacklisted(i)'
               PROVE  (\E k \in Handlers : i \in Revoking(k)') \/ "abandoned" \in causes'[i]
    BY DEF ReusableIsUsable
  <2>1. clock \in Nat /\ clock' \in Nat /\ blocked[i] \in Nat
    BY <1>1, SessionAssumption DEF TypeOK
  <2>2. Present(i) /\ Blacklisted(i)
    BY <2>1 DEF Present, Blacklisted
  <2> QED BY <2>2 DEF ReusableIsUsable
<1> QED BY <1>3, <1>4, <1>5, <1>6

\* The handlers that do not take part in a step.
LEMMA OthersKept ==
    ASSUME SessionInv, TypeOK', NEW h \in Handlers,
           \A k \in Handlers \ {h} : call'[k] = call[k] /\ Keeps(call[k]),
           \A c \in Calls : c = call'[h] => CallInv(c)'
    PROVE  (\A k \in Handlers : CallInv(call[k]))'
<1>1. ASSUME NEW c \in Calls, NEW k \in Handlers, c = call'[k] PROVE CallInv(c)'
  <2>1. CASE k = h
    BY <1>1, <2>1
  <2>2. CASE k # h
    <3>1. CallInv(c) /\ Keeps(c)
      BY <1>1, <2>2 DEF SessionInv
    <3> QED BY <3>1, CallKept DEF SessionInv
  <2> QED BY <2>1, <2>2
<1>2. call' \in [Handlers -> Calls]
  BY DEF TypeOK
<1> QED BY <1>1, <1>2, CallsInv

\* A finished call has nothing to hold.
LEMMA NoCallInv == CallInv(NoCall)
BY NoCallType DEF CallInv, KindHolds, LoginHolds, RevocationHolds, AllHolds, LogoutHolds, Ending,
     LoginPcs

LEMMA NoCallInvNext == CallInv(NoCall)'
BY NoCallType DEF CallInv, KindHolds, LoginHolds, RevocationHolds, AllHolds, LogoutHolds, Ending,
     LoginPcs

LEMMA SessionInvInit == Init => SessionInv
<1> SUFFICES ASSUME Init PROVE SessionInv
  OBVIOUS
<1>1. \A h \in Handlers : call[h] = NoCall
  BY DEF Init
<1>2. \A i \in SessionIds : session[i].st = "none" /\ blocked[i] = 0
  BY NoCallType DEF Init
<1>3. TokensCovered /\ LogoutsCovered
  BY DEF Init, TokensCovered, LogoutsCovered
<1>4. BlacklistCovers /\ ReusableIsUsable
  BY <1>2 DEF BlacklistCovers, ReusableIsUsable, Present
<1> QED BY <1>1, <1>3, <1>4, TypeInit, NoCallInv DEF SessionInv
-----------------------------------------------------------------------------
(* The steps that only move a call on.                                     *)

LEMMA QuietMove ==
    ASSUME SessionInv, TypeOK', NEW h \in Handlers, NEW c \in Calls, CallInv(c),
           call'[h] = c, \A k \in Handlers \ {h} : call'[k] = call[k],
           UNCHANGED <<clock, session, blocked, tokens, loggedOut, causes>>,
           Revoking(h) \subseteq Revoking(h)'
    PROVE  SessionInv'
<1>1. \A d \in Calls, k \in Handlers : d = call'[k] => CallInv(d)
  BY DEF SessionInv
<1>2. \A k \in Handlers : Revoking(k) \subseteq Revoking(k)'
  BY DEF Revoking
<1>3. clock <= clock'
  BY SessionAssumption DEF SessionInv, TypeOK
<1> QED BY <1>1, <1>2, <1>3, QuietStep

LEMMA RequestsInv ==
    ASSUME SessionInv, TypeOK', NEW h \in Handlers, Requests(h)
    PROVE  SessionInv'
<1>1. TypeOK /\ TokensCovered
  BY DEF SessionInv
<1>2. PICK c \in Calls :
        /\ Begin(h, c)
        /\ \/ c.pc = "find" /\ c.kind = "login" /\ c.seen = {} /\ c.todo = {}
           \/ /\ c.pc = "readOne" /\ c.kind = "one"
           \/ /\ c.pc = "readOne" /\ c.kind = "logout"
              /\ \E t \in tokens : c.seen = {t.session} /\ c.expires = t.expires
           \/ c.pc = "readAll" /\ c.kind = "all" /\ c.seen = {}
  BY <1>1, RequestsType
<1>3. ASSUME c.kind = "logout" PROVE CallInv(c)
  <2>1. PICK t \in tokens : c.seen = {t.session} /\ c.expires = t.expires
    BY <1>2, <1>3
  <2>2. t \in Tokens /\ Taken(t.session)
    BY <1>1 DEF TypeOK, TokensCovered
  <2>3. t = [session |-> t.session, expires |-> t.expires] /\ t.session \in SessionIds
    BY <2>2 DEF Tokens
  <2>4. c.pc = "readOne"
    BY <1>2, <1>3
  <2>5. KindHolds(c) /\ LoginHolds(c) /\ AllHolds(c)
    BY <1>3, <2>1, <2>3, <2>4 DEF KindHolds, LoginHolds, AllHolds, LoginPcs
  <2>6. RevocationHolds(c)
    BY <2>1, <2>2, <2>4 DEF RevocationHolds, Ending
  <2>7. LogoutHolds(c)
    BY <2>1, <2>3, <2>4 DEF LogoutHolds, Ending
  <2> QED BY <2>5, <2>6, <2>7 DEF CallInv
<1>4. ASSUME c.kind # "logout" PROVE CallInv(c)
  <2>1. \/ c.pc = "find" /\ c.kind = "login"
        \/ c.pc = "readOne" /\ c.kind = "one"
        \/ c.pc = "readAll" /\ c.kind = "all"
    BY <1>2, <1>4
  <2>2. KindHolds(c) /\ LoginHolds(c) /\ AllHolds(c)
    BY <2>1 DEF KindHolds, LoginHolds, AllHolds, LoginPcs, Ending
  <2>3. RevocationHolds(c) /\ LogoutHolds(c)
    BY <2>1 DEF RevocationHolds, LogoutHolds, Ending
  <2> QED BY <2>2, <2>3 DEF CallInv
<1>5. Revoking(h) \subseteq Revoking(h)'
  BY <1>1, <1>2, BeginEffect DEF Revoking
<1> QED BY <1>1, <1>2, <1>3, <1>4, <1>5, BeginEffect, QuietMove

LEMMA FindSessionInv ==
    ASSUME SessionInv, TypeOK', NEW h \in Handlers, FindSession(h)
    PROVE  SessionInv'
<1>1. TypeOK /\ CallInv(call[h]) /\ call[h] \in Calls
  BY DEF SessionInv, TypeOK
<1>2. call[h].pc = "find" /\ call[h].kind = "login"
  BY <1>1 DEF FindSession, CallInv, KindHolds, LoginPcs
<1>3. PICK c \in Calls :
         /\ Become(h, c) /\ c.kind = "login"
         /\ \/ c.pc = "extend" /\ \E i \in SessionIds : c.seen = {i} /\ Taken(i)
            \/ c.pc = "create"
  <2> DEFINE next(i) == [call[h] EXCEPT !.pc = "extend", !.seen = {i}]
  <2>1. \A i \in SessionIds : /\ next(i).kind = "login" /\ next(i).pc = "extend"
                              /\ next(i).seen = {i}
    BY <1>1, <1>2 DEF Calls
  <2>2. \A i \in SessionIds : next(i) \in Calls
    BY <1>1, CallUpdates DEF LoginPcs
  <2>3. [call[h] EXCEPT !.pc = "create"] \in Calls
    BY <1>1, CallUpdates DEF LoginPcs
  <2>4. CASE \E i \in SessionIds : Known(h, i) /\ Become(h, next(i))
    <3> HIDE DEF next
    <3> QED BY <2>1, <2>2, <2>4 DEF Known, Active, Present, Taken
  <2>5. CASE Goto(h, "create")
    BY <1>1, <1>2, <2>3, <2>5, MovedFields DEF Goto
  <2> QED BY <2>4, <2>5 DEF FindSession
<1>4. CallInv(c)
  BY <1>3
     DEF CallInv, KindHolds, LoginHolds, RevocationHolds, AllHolds, LogoutHolds, Ending, LoginPcs
<1>5. Revoking(h) \subseteq Revoking(h)'
  BY <1>2 DEF Revoking
<1> QED BY <1>1, <1>3, <1>4, <1>5, BecomeType, QuietMove DEF FindSession, rowVars

LEMMA ReadInv ==
    ASSUME SessionInv, TypeOK', NEW h \in Handlers, ReadOne(h) \/ ReadAll(h)
    PROVE  SessionInv'
<1>1. TypeOK /\ CallInv(call[h]) /\ call[h] \in Calls /\ TokensCovered
  BY DEF SessionInv, TypeOK
<1>2. \A i \in SessionIds : session[i].expires \in Times
  BY <1>1 DEF TypeOK, Rows
<1> DEFINE Entries(S) == {<<i, session[i].expires>> : i \in S}
<1>3. \A S \in SUBSET SessionIds :
         /\ Entries(S) \in SUBSET (SessionIds \X Times)
         /\ \A entry \in Entries(S) : entry[1] \in S /\ entry[2] = session[entry[1]].expires
         /\ \A i \in S : \E entry \in Entries(S) : entry[1] = i
  <2>1. ASSUME NEW S \in SUBSET SessionIds, NEW i \in S
        PROVE  <<i, session[i].expires>> \in Entries(S)
    OBVIOUS
  <2>2. ASSUME NEW S \in SUBSET SessionIds
        PROVE  Entries(S) \in SUBSET (SessionIds \X Times)
    BY <1>2
  <2>3. ASSUME NEW S \in SUBSET SessionIds, NEW entry \in Entries(S)
        PROVE  entry[1] \in S /\ entry[2] = session[entry[1]].expires
    OBVIOUS
  <2>4. ASSUME NEW S \in SUBSET SessionIds, NEW i \in S
        PROVE  \E entry \in Entries(S) : entry[1] = i
    <3>1. <<i, session[i].expires>>[1] = i
      OBVIOUS
    <3> HIDE DEF Entries
    <3> QED BY <2>1, <3>1
  <2> HIDE DEF Entries
  <2> QED BY <2>2, <2>3, <2>4
<1>4. PICK c \in Calls :
         /\ Become(h, c) /\ c.pc = "block" /\ c.kind = call[h].kind /\ c.expires = call[h].expires
         /\ c.user = call[h].user /\ c.keep = call[h].keep
         /\ c.seen \subseteq SessionIds /\ c.todo = Entries(c.seen)
         /\ \A i \in c.seen : Taken(i)
         /\ \/ c.seen = call[h].seen /\ c.kind \in {"one", "logout"}
            \/ /\ c.kind = "all"
               /\ \A i \in c.seen : session[i].user = call[h].user /\ i \notin call[h].keep
  <2> HIDE DEF Entries
  <2>1. CASE ReadOne(h)
    <3> DEFINE c1 == [call[h] EXCEPT !.pc = "block", !.todo = Entries(call[h].seen)]
    <3>1. Become(h, c1) /\ call[h].pc = "readOne" /\ \A i \in call[h].seen : Present(i)
      BY <2>1 DEF ReadOne, Entries
    <3>2. call[h].kind \in {"one", "logout"} /\ call[h].seen \in SUBSET SessionIds
      BY <1>1, <3>1 DEF CallInv, KindHolds, Calls
    <3>3. c1 \in Calls
      BY <1>1, <1>3, <3>2, CallUpdates DEF RevokePcs
    <3>4. /\ c1.pc = "block" /\ c1.kind = call[h].kind /\ c1.expires = call[h].expires
          /\ c1.user = call[h].user /\ c1.keep = call[h].keep
          /\ c1.seen = call[h].seen /\ c1.todo = Entries(call[h].seen)
      BY <1>1 DEF Calls
    <3> HIDE DEF c1
    <3> QED BY <3>1, <3>2, <3>3, <3>4 DEF Present, Taken
  <2>2. CASE ReadAll(h)
    <3> DEFINE found == {i \in Owned(h) : Active(i)}
               c1 == [call[h] EXCEPT !.pc = "block", !.seen = found, !.todo = Entries(found)]
    <3>1. Become(h, c1) /\ call[h].pc = "readAll"
      BY <2>2 DEF ReadAll, Entries
    <3>2. /\ found \in SUBSET SessionIds
          /\ \A i \in found : Present(i) /\ session[i].user = call[h].user /\ i \notin call[h].keep
      BY DEF Owned
    <3> HIDE DEF found
    <3>3. c1 \in Calls
      BY <1>1, <1>3, <3>2, CallUpdates DEF RevokePcs
    <3>4. /\ c1.pc = "block" /\ c1.kind = call[h].kind /\ c1.expires = call[h].expires
          /\ c1.user = call[h].user /\ c1.keep = call[h].keep
          /\ c1.seen = found /\ c1.todo = Entries(found)
      BY <1>1 DEF Calls
    <3>5. call[h].kind = "all"
      BY <1>1, <3>1 DEF CallInv, KindHolds
    <3> HIDE DEF c1
    <3> QED BY <3>1, <3>2, <3>3, <3>4, <3>5 DEF Present, Taken
  <2> QED BY <2>1, <2>2
<1> HIDE DEF Entries
<1>5. KindHolds(c) /\ LoginHolds(c) /\ AllHolds(c)
  BY <1>1, <1>4 DEF CallInv, KindHolds, LoginHolds, AllHolds, LoginPcs
<1>6. RevocationHolds(c)
  BY <1>2, <1>3, <1>4, SessionAssumption DEF RevocationHolds, Times
<1>7. LogoutHolds(c)
  <2> SUFFICES ASSUME c.kind = "logout" PROVE LogoutHolds(c)
    BY DEF LogoutHolds
  <2>1. \A i \in c.seen : [session |-> i, expires |-> c.expires] \in tokens
    BY <1>1, <1>4 DEF CallInv, LogoutHolds
  <2>2. ASSUME NEW i \in c.seen
        PROVE  c.expires <= session[i].expires \/ Caused(i, {"late", "overwritten"})
    <3>1. [session |-> i, expires |-> c.expires] \in tokens
      BY <2>1
    <3> QED BY <1>1, <3>1 DEF TokensCovered
  <2>3. c.expires \in Nat
    BY SessionAssumption DEF Calls, Times
  <2> QED BY <1>2, <1>3, <1>4, <2>1, <2>2, <2>3, SessionAssumption DEF LogoutHolds, Times
<1>8. Revoking(h) \subseteq Revoking(h)'
  BY DEF Revoking, ReadOne, ReadAll
<1> QED BY <1>1, <1>4, <1>5, <1>6, <1>7, <1>8, BecomeType, QuietMove
        DEF CallInv, ReadOne, ReadAll, rowVars

LEMMA BlocksWrittenInv ==
    ASSUME SessionInv, TypeOK', NEW h \in Handlers, BlocksWritten(h)
    PROVE  SessionInv'
<1>1. TypeOK /\ CallInv(call[h]) /\ call[h] \in Calls
  BY DEF SessionInv, TypeOK
<1>2. PICK c \in Calls :
         /\ Become(h, c) /\ c.pc = IF call[h].kind = "all" THEN "deleteAll" ELSE "deleteOne"
         /\ c.kind = call[h].kind /\ c.expires = call[h].expires /\ c.user = call[h].user
         /\ c.keep = call[h].keep /\ c.seen = call[h].seen
  <2> DEFINE pc == IF call[h].kind = "all" THEN "deleteAll" ELSE "deleteOne"
  <2>0. pc = IF call[h].kind = "all" THEN "deleteAll" ELSE "deleteOne"
    OBVIOUS
  <2>1. pc \in LoginPcs \cup RevokePcs
    BY DEF RevokePcs
  <2>2. Become(h, [call[h] EXCEPT !.pc = pc])
    BY DEF BlocksWritten, Goto
  <2> HIDE DEF pc
  <2>3. [call[h] EXCEPT !.pc = pc] \in Calls
    BY <1>1, <2>1, CallUpdates
  <2>4. /\ [call[h] EXCEPT !.pc = pc].pc = pc
        /\ [call[h] EXCEPT !.pc = pc].kind = call[h].kind
        /\ [call[h] EXCEPT !.pc = pc].user = call[h].user
        /\ [call[h] EXCEPT !.pc = pc].expires = call[h].expires
        /\ [call[h] EXCEPT !.pc = pc].seen = call[h].seen
        /\ [call[h] EXCEPT !.pc = pc].keep = call[h].keep
    BY <1>1, MovedFields
  <2> QED BY <2>0, <2>2, <2>3, <2>4
<1>3. call[h].pc = "block" /\ call[h].todo = {}
  BY DEF BlocksWritten
<1>4. KindHolds(c) /\ LoginHolds(c) /\ AllHolds(c)
  BY <1>1, <1>2, <1>3 DEF CallInv, KindHolds, LoginHolds, AllHolds, LoginPcs, Ending
<1>5. RevocationHolds(c)
  BY <1>1, <1>2, <1>3 DEF CallInv, RevocationHolds, Ending
<1>6. LogoutHolds(c)
  BY <1>1, <1>2, <1>3 DEF CallInv, LogoutHolds, Ending
<1>7. Revoking(h) \subseteq Revoking(h)'
  BY <1>1, <1>2, <1>3, BecomeType DEF Revoking
<1> QED BY <1>1, <1>2, <1>4, <1>5, <1>6, <1>7, BecomeType, QuietMove
        DEF CallInv, BlocksWritten, rowVars
-----------------------------------------------------------------------------
(* The steps of a login.                                                   *)

LEMMA Numbers ==
    ASSUME TypeOK
    PROVE  /\ \A i \in SessionIds : session[i].expires \in Nat /\ blocked[i] \in Nat
           /\ \A h \in Handlers : call[h].expires \in Nat
           /\ clock \in Nat
BY SessionAssumption DEF TypeOK, Rows, Calls, Times

LEMMA ExtendInv ==
    ASSUME SessionInv, TypeOK', NEW h \in Handlers, Extend(h)
    PROVE  SessionInv'
<1>1. TypeOK /\ CallInv(call[h]) /\ call[h] \in Calls
  BY DEF SessionInv, TypeOK
<1>2. call[h].pc = "extend" /\ call[h].kind = "login"
  BY <1>1 DEF Extend, CallInv, KindHolds, LoginPcs
<1>3. UNCHANGED <<clock, blocked, tokens, loggedOut>>
  BY DEF Extend
<1>4. PICK i \in call[h].seen :
         /\ i \in SessionIds /\ Present(i)
         /\ session'[i].st = "present" /\ session'[i].expires = call[h].expires
         /\ session'[i].user = session[i].user
         /\ \A j \in SessionIds \ {i} : session'[j] = session[j]
         /\ \A j \in SessionIds : causes[j] \subseteq causes'[j]
         /\ call[h].expires < session[i].expires => "overwritten" \in causes'[i]
         /\ (\E other \in Handlers : i \in Revoking(other)) => "extended" \in causes'[i]
  BY <1>1, ExtendEffect
<1>5. call[h].seen = {i}
  BY <1>1, <1>2, <1>4 DEF CallInv, KindHolds
<1>6. /\ call'[h].pc = "sign" /\ call'[h].kind = "login" /\ call'[h].seen = {i}
      /\ call'[h].expires = call[h].expires
      /\ \A k \in Handlers \ {h} : call'[k] = call[k]
  <2>1. Become(h, [call[h] EXCEPT !.pc = "sign"]) /\ [call[h] EXCEPT !.pc = "sign"] \in Calls
    BY <1>1, CallUpdates DEF Extend, Goto, LoginPcs
  <2>2. call'[h] = [call[h] EXCEPT !.pc = "sign"] /\ \A k \in Handlers \ {h} : call'[k] = call[k]
    BY <1>1, <2>1, BecomeType
  <2> QED BY <1>1, <1>2, <1>5, <2>2, MovedFields
<1>7. ASSUME NEW c \in Calls, c.pc \in Ending => (\E k \in Handlers : call[k] = c)
      PROVE  Keeps(c)
  <2>1. c.pc \in Ending /\ i \in c.seen => "extended" \in causes'[i]
    BY <1>4, <1>7 DEF Revoking, Ending
  <2>2. ASSUME NEW j \in SessionIds
        PROVE  /\ causes[j] \subseteq causes'[j]
               /\ Taken(j) => Taken(j)' /\ session'[j].user = session[j].user
               /\ blocked'[j] >= blocked[j]
    BY <1>1, <1>3, <1>4, Numbers DEF Taken
  <2>3. ASSUME NEW j \in SessionIds
        PROVE  \/ session'[j].expires = session[j].expires
               \/ /\ session'[j].expires < session[j].expires => "overwritten" \in causes'[j]
                  /\ c.pc \in Ending /\ j \in c.seen => "extended" \in causes'[j]
    BY <1>4, <2>1
  <2> QED BY <1>3, <2>2, <2>3 DEF Keeps
<1>8. (\A k \in Handlers : CallInv(call[k]))'
  <2>1. \A k \in Handlers \ {h} : call[k] \in Calls /\ Keeps(call[k])
    BY <1>1, <1>7 DEF TypeOK
  <2>2. ASSUME NEW c \in Calls, c = call'[h] PROVE CallInv(c)'
    <3>1. c.pc = "sign" /\ c.kind = "login" /\ c.seen = {i} /\ c.expires = session'[i].expires
      BY <1>4, <1>6, <2>2
    <3>2. LoginHolds(c)'
      BY <1>1, <1>4, <3>1, Numbers DEF LoginHolds, Taken
    <3> QED BY <1>4, <3>1, <3>2 DEF CallInv, KindHolds, RevocationHolds, AllHolds, LogoutHolds, Ending,
               LoginPcs
  <2> QED BY <1>6, <2>1, <2>2, OthersKept
<1>9. Keeps(NoCall)
  BY <1>7, NoCallType DEF Ending
<1>10. TokensCovered' /\ LogoutsCovered'
  BY <1>1, <1>3, <1>9, TokensKept, LogoutsKept DEF SessionInv
<1>11. BlacklistCovers'
  BY <1>3, <1>4, CausedGrows DEF SessionInv, BlacklistCovers
<1>12. ReusableIsUsable'
  <2>1. \A k \in Handlers : Revoking(k)' = Revoking(k)
    BY <1>2, <1>6 DEF Revoking
  <2>2. \A j \in SessionIds : (Present(j)' <=> Present(j)) /\ (Blacklisted(j)' <=> Blacklisted(j))
    BY <1>3, <1>4 DEF Present, Blacklisted
  <2> QED BY <1>4, <2>1, <2>2 DEF SessionInv, ReusableIsUsable
<1> QED BY <1>8, <1>10, <1>11, <1>12 DEF SessionInv

LEMMA CreateSessionInv ==
    ASSUME SessionInv, TypeOK', NEW h \in Handlers, CreateSession(h)
    PROVE  SessionInv'
<1>1. TypeOK /\ CallInv(call[h]) /\ call[h] \in Calls
  BY DEF SessionInv, TypeOK
<1>2. call[h].pc = "create" /\ call[h].kind = "login"
  BY <1>1 DEF CreateSession, CallInv, KindHolds, LoginPcs
<1>3. UNCHANGED <<clock, blocked, tokens, loggedOut, causes>>
  BY DEF CreateSession
<1>4. PICK i \in SessionIds :
         /\ session[i].st = "none"
         /\ session' = [session EXCEPT ![i] =
              [st |-> "present", user |-> call[h].user, device |-> call[h].device,
               expires |-> call[h].expires]]
         /\ Become(h, [call[h] EXCEPT !.pc = "sign", !.seen = {i}])
  BY DEF CreateSession
<1>5. /\ session'[i].st = "present" /\ session'[i].expires = call[h].expires
      /\ \A j \in SessionIds \ {i} : session'[j] = session[j]
  BY <1>1, <1>4 DEF TypeOK
<1>6. /\ call'[h].pc = "sign" /\ call'[h].kind = "login" /\ call'[h].seen = {i}
      /\ call'[h].expires = call[h].expires
      /\ \A k \in Handlers \ {h} : call'[k] = call[k]
  <2>1. [call[h] EXCEPT !.pc = "sign", !.seen = {i}] \in Calls
    BY <1>1, CallUpdates DEF LoginPcs
  <2>2. call'[h] = [call[h] EXCEPT !.pc = "sign", !.seen = {i}]
        /\ \A k \in Handlers \ {h} : call'[k] = call[k]
    BY <1>1, <1>4, <2>1, BecomeType
  <2> QED BY <1>1, <1>2, <2>2 DEF Calls
<1>7. \A c : Keeps(c)
  <2>1. \A j \in SessionIds : blocked'[j] >= blocked[j]
    BY <1>1, <1>3, Numbers
  <2>2. \A j \in SessionIds : /\ causes[j] \subseteq causes'[j]
                              /\ Taken(j) => Taken(j)' /\ session'[j] = session[j]
    BY <1>3, <1>4, <1>5 DEF Taken
  <2> QED BY <1>3, <2>1, <2>2 DEF Keeps
<1>8. (\A k \in Handlers : CallInv(call[k]))'
  <2>2. ASSUME NEW c \in Calls, c = call'[h] PROVE CallInv(c)'
    <3>1. c.pc = "sign" /\ c.kind = "login" /\ c.seen = {i} /\ c.expires = session'[i].expires
      BY <1>5, <1>6, <2>2
    <3>2. LoginHolds(c)'
      BY <1>1, <1>5, <1>6, <2>2, <3>1, Numbers DEF LoginHolds, Taken
    <3> QED BY <3>1, <3>2 DEF CallInv, KindHolds, RevocationHolds, AllHolds, LogoutHolds, Ending,
               LoginPcs
  <2> QED BY <1>6, <1>7, <2>2, OthersKept
<1>9. TokensCovered' /\ LogoutsCovered'
  BY <1>1, <1>3, <1>7, TokensKept, LogoutsKept DEF SessionInv
<1>10. BlacklistCovers'
  BY <1>3, <1>5, CausedGrows DEF SessionInv, BlacklistCovers
<1>11. ReusableIsUsable'
  <2>1. \A k \in Handlers : Revoking(k)' = Revoking(k)
    BY <1>2, <1>6 DEF Revoking
  <2>2. ~Blacklisted(i)'
    BY <1>1, <1>3, <1>4, Numbers DEF SessionInv, BlacklistCovers, Blacklisted
  <2>3. \A j \in SessionIds \ {i} : (Present(j)' <=> Present(j)) /\ (Blacklisted(j)' <=> Blacklisted(j))
    BY <1>3, <1>5 DEF Present, Blacklisted
  <2> QED BY <1>3, <2>1, <2>2, <2>3 DEF SessionInv, ReusableIsUsable
<1> QED BY <1>8, <1>9, <1>10, <1>11 DEF SessionInv

LEMMA SignInv ==
    ASSUME SessionInv, TypeOK', NEW h \in Handlers, Sign(h)
    PROVE  SessionInv'
<1>1. TypeOK /\ CallInv(call[h]) /\ call[h] \in Calls
  BY DEF SessionInv, TypeOK
<1>2. UNCHANGED <<clock, session, blocked, loggedOut>> /\ call[h].pc = "sign"
  BY DEF Sign, rowVars
<1>3. /\ \A i \in SessionIds : causes[i] \subseteq causes'[i]
      /\ clock + Lifetime > call[h].expires => \A i \in call[h].seen : "late" \in causes'[i]
  BY <1>1, BlameEffect DEF Sign, Causes, Calls
<1>4. call'[h] = NoCall /\ \A k \in Handlers \ {h} : call'[k] = call[k]
  BY <1>1, NoCallType, BecomeType DEF Sign
<1>5. \A c : Keeps(c)
  <2>1. \A j \in SessionIds : blocked'[j] >= blocked[j]
    BY <1>1, <1>2, Numbers
  <2>2. tokens \subseteq tokens'
    BY DEF Sign
  <2> QED BY <1>2, <1>3, <2>1, <2>2 DEF Keeps, Taken
<1>6. (\A k \in Handlers : CallInv(call[k]))'
  BY <1>4, <1>5, NoCallInvNext, OthersKept
<1>7. TokensCovered'
  <2> SUFFICES ASSUME NEW t \in tokens'
               PROVE  /\ Taken(t.session)
                      /\ t.expires <= session[t.session].expires
                         \/ Caused(t.session, {"late", "overwritten"})'
    BY <1>2 DEF TokensCovered, Taken
  <2>1. CASE t \in tokens
    <3>1. t.session \in SessionIds
      BY <1>1, <2>1 DEF TypeOK, Tokens
    <3> QED BY <1>3, <2>1, <3>1, CausedGrows DEF SessionInv, TokensCovered
  <2>2. CASE t \notin tokens
    <3>1. PICK i \in call[h].seen : t = [session |-> i, expires |-> clock + Lifetime]
      BY <2>2 DEF Sign
    <3>2. i \in SessionIds /\ t.session = i /\ t.expires = clock + Lifetime
      BY <1>1, <3>1 DEF Calls
    <3>3. Taken(i) /\ (call[h].expires <= session[i].expires \/ Caused(i, {"overwritten"}))
      BY <1>1, <1>2, <3>1 DEF CallInv, LoginHolds
    <3>4. clock + Lifetime \in Nat
      BY <1>1, SessionAssumption DEF TypeOK
    <3>5. CASE clock + Lifetime > call[h].expires
      BY <1>3, <3>1, <3>2, <3>3, <3>5, CausedGrows
    <3>6. CASE ~(clock + Lifetime > call[h].expires)
      <4>1. call[h].expires \in Nat /\ session[i].expires \in Nat
        BY <1>1, <3>2, Numbers
      <4>2. Caused(i, {"overwritten"}) => Caused(i, {"late", "overwritten"})'
        BY <1>3, <3>2 DEF Caused
      <4> QED BY <3>2, <3>3, <3>4, <3>6, <4>1, <4>2
    <3> QED BY <3>5, <3>6
  <2> QED BY <2>1, <2>2
<1>8. LogoutsCovered'
  BY <1>1, <1>2, <1>5, LogoutsKept DEF SessionInv
<1>9. BlacklistCovers'
  BY <1>2, <1>3, CausedGrows DEF SessionInv, BlacklistCovers
<1>10. ReusableIsUsable'
  <2>1. \A k \in Handlers : Revoking(k)' = Revoking(k)
    BY <1>2, <1>4, NoCallType DEF Revoking
  <2> QED BY <1>2, <1>3, <2>1 DEF SessionInv, ReusableIsUsable, Present, Blacklisted
<1> QED BY <1>6, <1>7, <1>8, <1>9, <1>10 DEF SessionInv
-----------------------------------------------------------------------------
(* The steps of a revocation.                                              *)

LEMMA BlockOneInv ==
    ASSUME SessionInv, TypeOK', NEW h \in Handlers, BlockOne(h)
    PROVE  SessionInv'
<1>1. TypeOK /\ CallInv(call[h]) /\ call[h] \in Calls
  BY DEF SessionInv, TypeOK
<1>2. UNCHANGED <<clock, session, tokens, loggedOut>> /\ call[h].pc = "block"
  BY DEF BlockOne
<1>3. PICK entry \in call[h].todo :
         /\ Blacklist(entry[1], entry[2])
         /\ Become(h, [call[h] EXCEPT !.todo = call[h].todo \ {entry}])
  BY DEF BlockOne
<1>4. /\ entry[1] \in call[h].seen /\ entry[1] \in SessionIds /\ entry[2] \in Nat
      /\ Taken(entry[1])
      /\ entry[2] >= session[entry[1]].expires \/ Caused(entry[1], {"extended"})
      /\ call[h].kind = "logout" =>
            entry[2] >= call[h].expires \/ Caused(entry[1], {"late", "overwritten"})
  <2>1. entry[1] \in SessionIds /\ entry[2] \in Times
    BY <1>1 DEF Calls
  <2>2. /\ entry[1] \in call[h].seen /\ Taken(entry[1])
        /\ entry[2] >= session[entry[1]].expires \/ Caused(entry[1], {"extended"})
    BY <1>1, <1>2 DEF CallInv, RevocationHolds, Ending
  <2>3. call[h].kind = "logout" =>
            entry[2] >= call[h].expires \/ Caused(entry[1], {"late", "overwritten"})
    BY <1>1, <1>2 DEF CallInv, LogoutHolds
  <2> QED BY <1>1, <2>1, <2>2, <2>3, ClockTimes
<1>5. /\ \A i \in SessionIds : causes[i] \subseteq causes'[i]
      /\ entry[2] < blocked[entry[1]] => "shortened" \in causes'[entry[1]]
      /\ blocked'[entry[1]] = entry[2]
      /\ \A i \in SessionIds \ {entry[1]} : blocked'[i] = blocked[i]
  <2>1. Blame(IF entry[2] < blocked[entry[1]] THEN {entry[1]} ELSE {}, "shortened")
    BY <1>3 DEF Blacklist
  <2>2. /\ \A i \in SessionIds : causes[i] \subseteq causes'[i]
        /\ entry[2] < blocked[entry[1]] => "shortened" \in causes'[entry[1]]
    BY <1>1, <1>4, <2>1, BlameEffect DEF Causes
  <2> QED BY <1>1, <1>3, <1>4, <2>2 DEF Blacklist, TypeOK
<1>6. /\ call'[h] \in Calls /\ call'[h].todo = call[h].todo \ {entry}
      /\ call'[h].pc = "block" /\ call'[h].kind = call[h].kind /\ call'[h].user = call[h].user
      /\ call'[h].expires = call[h].expires /\ call'[h].seen = call[h].seen
      /\ call'[h].keep = call[h].keep
      /\ \A k \in Handlers \ {h} : call'[k] = call[k]
  <2>1. [call[h] EXCEPT !.todo = call[h].todo \ {entry}] \in Calls
    <3>1. call[h].todo \ {entry} \in SUBSET (SessionIds \X Times)
      BY <1>1 DEF Calls
    <3> QED BY <1>1, <3>1, CallUpdates
  <2>2. /\ call'[h] = [call[h] EXCEPT !.todo = call[h].todo \ {entry}]
        /\ \A k \in Handlers \ {h} : call'[k] = call[k]
    BY <1>1, <1>3, <2>1, BecomeType
  <2> QED BY <1>1, <1>2, <2>1, <2>2 DEF Calls
<1>7. \A c : Keeps(c)
  <2>1. \A i \in SessionIds : blocked'[i] >= blocked[i] \/ "shortened" \in causes'[i]
    BY <1>1, <1>4, <1>5, Numbers
  <2> QED BY <1>2, <1>5, <2>1 DEF Keeps, Taken
<1>8. (\A k \in Handlers : CallInv(call[k]))'
  <2>1. ASSUME NEW c \in Calls, c = call'[h] PROVE CallInv(c)'
    <3>1. /\ c.todo = call[h].todo \ {entry} /\ c.pc = "block" /\ c.kind = call[h].kind
          /\ c.user = call[h].user /\ c.expires = call[h].expires /\ c.seen = call[h].seen
          /\ c.keep = call[h].keep
      BY <1>6, <2>1
    <3>2. c.seen \subseteq SessionIds /\ c.todo \subseteq call[h].todo /\ c.expires \in Nat
      BY <1>1, <3>1, Numbers DEF Calls
    <3>3. KindHolds(c)' /\ LoginHolds(c)' /\ AllHolds(c)'
      BY <1>1, <1>2, <3>1
         DEF CallInv, KindHolds, LoginHolds, AllHolds, LoginPcs, Ending
    <3>4. RevocationHolds(c)'
      <4>1. \A i \in c.seen : Taken(i)'
        BY <1>1, <1>2, <3>1 DEF CallInv, RevocationHolds, Ending, Taken
      <4>2. ASSUME NEW e \in c.todo
            PROVE  /\ e[1] \in c.seen
                   /\ e[2] >= session'[e[1]].expires \/ Caused(e[1], {"extended"})'
        <5>1. /\ e[1] \in c.seen
              /\ e[2] >= session[e[1]].expires \/ Caused(e[1], {"extended"})
          BY <1>1, <1>2, <3>1, <3>2 DEF CallInv, RevocationHolds
        <5> QED BY <1>2, <1>5, <3>2, <5>1, CausedGrows
      <4>3. ASSUME NEW i \in c.seen
            PROVE  \/ \E e \in c.todo : e[1] = i
                   \/ blocked'[i] >= session'[i].expires
                   \/ Caused(i, {"extended", "shortened"})'
        <5>1. CASE i = entry[1]
          BY <1>2, <1>4, <1>5, <5>1 DEF Caused
        <5>2. CASE i # entry[1]
          <6>1. \/ \E e \in call[h].todo : e[1] = i
                \/ blocked[i] >= session[i].expires
                \/ Caused(i, {"extended", "shortened"})
            BY <1>1, <1>2, <3>1 DEF CallInv, RevocationHolds, Ending
          <6>2. (\E e \in call[h].todo : e[1] = i) => \E e \in c.todo : e[1] = i
            BY <3>1, <5>2
          <6> QED BY <1>2, <1>5, <3>2, <5>2, <6>1, <6>2, CausedGrows
        <5> QED BY <5>1, <5>2
      <4> QED BY <3>1, <4>1, <4>2, <4>3 DEF RevocationHolds
    <3>5. LogoutHolds(c)'
      <4> SUFFICES ASSUME c.kind = "logout" PROVE LogoutHolds(c)'
        BY DEF LogoutHolds
      <4>1. \A i \in c.seen : [session |-> i, expires |-> c.expires] \in tokens'
        BY <1>1, <1>2, <3>1 DEF CallInv, LogoutHolds
      <4>2. ASSUME NEW e \in c.todo
            PROVE  e[2] >= c.expires \/ Caused(e[1], {"late", "overwritten"})'
        <5>1. e[2] >= c.expires \/ Caused(e[1], {"late", "overwritten"})
          BY <1>1, <1>2, <3>1, <3>2 DEF CallInv, LogoutHolds
        <5>2. e[1] \in SessionIds
          BY <1>1, <3>1, <3>2 DEF Calls
        <5> QED BY <1>5, <5>1, <5>2, CausedGrows
      <4>3. ASSUME NEW i \in c.seen
            PROVE  \/ \E e \in c.todo : e[1] = i
                   \/ blocked'[i] >= c.expires
                   \/ Caused(i, {"late", "overwritten", "shortened"})'
        <5>1. CASE i = entry[1]
          BY <1>4, <1>5, <3>1, <5>1 DEF Caused
        <5>2. CASE i # entry[1]
          <6>1. \/ \E e \in call[h].todo : e[1] = i
                \/ blocked[i] >= c.expires
                \/ Caused(i, {"late", "overwritten", "shortened"})
            BY <1>1, <1>2, <3>1 DEF CallInv, LogoutHolds, Ending
          <6>2. (\E e \in call[h].todo : e[1] = i) => \E e \in c.todo : e[1] = i
            BY <3>1, <5>2
          <6> QED BY <1>5, <3>2, <5>2, <6>1, <6>2, CausedGrows
        <5> QED BY <5>1, <5>2
      <4> QED BY <3>1, <4>1, <4>2, <4>3 DEF LogoutHolds
    <3> QED BY <3>3, <3>4, <3>5 DEF CallInv
  <2> QED BY <1>6, <1>7, <2>1, OthersKept
<1>9. TokensCovered' /\ LogoutsCovered'
  BY <1>1, <1>2, <1>7, TokensKept, LogoutsKept DEF SessionInv
<1>10. BlacklistCovers'
  <2> SUFFICES ASSUME NEW i \in SessionIds
               PROVE  /\ session[i].st = "none" => blocked'[i] = 0
                      /\ session[i].st = "gone" =>
                            blocked'[i] >= session[i].expires
                            \/ Caused(i, {"extended", "unlisted", "shortened"})'
    BY <1>2 DEF BlacklistCovers
  <2>1. /\ session[i].st = "none" => blocked[i] = 0
        /\ session[i].st = "gone" => blocked[i] >= session[i].expires
                                     \/ Caused(i, {"extended", "unlisted", "shortened"})
    BY DEF SessionInv, BlacklistCovers
  <2>2. session[i].st = "none" => i # entry[1]
    BY <1>4 DEF Taken
  <2>3. Caused(i, {"extended", "unlisted", "shortened"})
           => Caused(i, {"extended", "unlisted", "shortened"})'
    BY <1>5, CausedGrows
  <2>4. "shortened" \in causes'[i] => Caused(i, {"extended", "unlisted", "shortened"})'
    BY DEF Caused
  <2>5. /\ blocked[i] \in Nat /\ blocked'[i] \in Nat /\ session[i].expires \in Nat
        /\ blocked'[i] >= blocked[i] \/ "shortened" \in causes'[i]
    BY <1>1, <1>4, <1>5, Numbers
  <2> QED BY <1>5, <2>1, <2>2, <2>3, <2>4, <2>5
<1>11. ReusableIsUsable'
  <2>1. \A k \in Handlers : Revoking(k)' = Revoking(k)
    BY <1>2, <1>6 DEF Revoking
  <2>2. entry[1] \in Revoking(h)
    BY <1>2, <1>4 DEF Revoking
  <2>3. \A j \in SessionIds \ {entry[1]} :
           (Present(j)' <=> Present(j)) /\ (Blacklisted(j)' <=> Blacklisted(j))
    BY <1>2, <1>5 DEF Present, Blacklisted
  <2> QED BY <1>5, <2>1, <2>2, <2>3 DEF SessionInv, ReusableIsUsable
<1> QED BY <1>8, <1>9, <1>10, <1>11 DEF SessionInv
\* Rows deleted by a revocation that ends.
LEMMA DeleteInv ==
    ASSUME SessionInv, TypeOK', NEW h \in Handlers, NEW S \in SUBSET SessionIds,
           DeleteRows(S), Answer(h), UNCHANGED <<clock, blocked, tokens>>,
           call[h].pc \in {"deleteOne", "deleteAll"},
           \A i \in S : Present(i),
           \A i \in call[h].seen : Present(i) => i \in S,
           \A i \in SessionIds : causes[i] \subseteq causes'[i],
           \A i \in S \ call[h].seen : "unlisted" \in causes'[i]
    PROVE  SessionInv'
<1>1. TypeOK /\ CallInv(call[h]) /\ call[h] \in Calls
  BY DEF SessionInv, TypeOK
<1>2. \A i \in SessionIds :
         /\ session'[i].st = IF i \in S THEN "gone" ELSE session[i].st
         /\ session'[i].expires = session[i].expires
         /\ session'[i].user = session[i].user
  BY <1>1, DeleteEffect
<1>3. call'[h] = NoCall /\ \A k \in Handlers \ {h} : call'[k] = call[k]
  BY <1>1, AnswerEffect
<1>4. \A c : Keeps(c)
  <2>1. \A i \in SessionIds : blocked'[i] >= blocked[i]
    BY <1>1, Numbers
  <2> QED BY <1>2, <2>1 DEF Keeps, Taken
<1>5. (\A k \in Handlers : CallInv(call[k]))'
  BY <1>3, <1>4, NoCallInvNext, OthersKept
<1>6. TokensCovered'
  BY <1>1, <1>4, TokensKept DEF SessionInv
<1>7. BlacklistCovers'
  <2> SUFFICES ASSUME NEW i \in SessionIds
               PROVE  /\ session'[i].st = "none" => blocked[i] = 0
                      /\ session'[i].st = "gone" =>
                            blocked[i] >= session[i].expires
                            \/ Caused(i, {"extended", "unlisted", "shortened"})'
    BY <1>2 DEF BlacklistCovers
  <2>1. CASE i \notin S
    BY <1>2, <2>1, CausedGrows DEF SessionInv, BlacklistCovers
  <2>2. CASE i \in S /\ i \in call[h].seen
    <3>1. blocked[i] >= session[i].expires \/ Caused(i, {"extended", "shortened"})
      BY <1>1, <2>2 DEF CallInv, RevocationHolds, Ending
    <3>2. Caused(i, {"extended", "shortened"}) => Caused(i, {"extended", "unlisted", "shortened"})'
      BY DEF Caused
    <3> QED BY <1>2, <2>2, <3>1, <3>2
  <2>3. CASE i \in S /\ i \notin call[h].seen
    BY <1>2, <2>3 DEF Caused
  <2> QED BY <2>1, <2>2, <2>3
<1>8. LogoutsCovered'
  <2> SUFFICES ASSUME NEW t \in loggedOut'
               PROVE  blocked[t.session] >= t.expires
                      \/ Caused(t.session, {"late", "overwritten", "shortened"})'
    BY DEF LogoutsCovered
  <2>1. \/ t \in loggedOut
        \/ /\ call[h].kind = "logout" /\ t.session \in call[h].seen
           /\ t = [session |-> t.session, expires |-> call[h].expires]
    BY <1>1, AnswerEffect
  <2>2. t.session \in SessionIds
    BY <1>1, <2>1 DEF TypeOK, Tokens, Calls
  <2>3. CASE t \in loggedOut
    BY <2>2, <2>3, CausedGrows DEF SessionInv, LogoutsCovered
  <2>4. CASE t \notin loggedOut
    <3>1. t.expires = call[h].expires
      BY <2>1, <2>4
    <3>2. blocked[t.session] >= call[h].expires
          \/ Caused(t.session, {"late", "overwritten", "shortened"})
      BY <1>1, <2>1, <2>4 DEF CallInv, LogoutHolds, Ending
    <3> QED BY <2>2, <3>1, <3>2, CausedGrows
  <2> QED BY <2>3, <2>4
<1>9. ReusableIsUsable'
  <2> SUFFICES ASSUME NEW i \in SessionIds, Present(i)', Blacklisted(i)'
               PROVE  (\E k \in Handlers : i \in Revoking(k)') \/ "abandoned" \in causes'[i]
    BY DEF ReusableIsUsable
  <2>1. i \notin S /\ Present(i) /\ Blacklisted(i)
    BY <1>2 DEF Present, Blacklisted
  <2>2. i \notin Revoking(h)
    BY <2>1 DEF Revoking
  <2>3. \A k \in Handlers \ {h} : Revoking(k)' = Revoking(k)
    BY <1>3 DEF Revoking
  <2> QED BY <2>1, <2>2, <2>3 DEF SessionInv, ReusableIsUsable
<1> QED BY <1>5, <1>6, <1>7, <1>8, <1>9 DEF SessionInv

LEMMA DeleteOneInv ==
    ASSUME SessionInv, TypeOK', NEW h \in Handlers, DeleteOne(h)
    PROVE  SessionInv'
<1>1. call[h].seen \in SUBSET SessionIds
  BY DEF SessionInv, TypeOK, Calls
<1> QED BY <1>1, DeleteInv DEF DeleteOne

LEMMA DeleteAllInv ==
    ASSUME SessionInv, TypeOK', NEW h \in Handlers, DeleteAll(h)
    PROVE  SessionInv'
<1>1. TypeOK /\ CallInv(call[h]) /\ call[h].seen \subseteq SessionIds /\ call[h].pc = "deleteAll"
  BY DEF SessionInv, TypeOK, Calls, DeleteAll
<1>2. Owned(h) \in SUBSET SessionIds /\ \A i \in Owned(h) : Present(i)
  BY DEF Owned
<1>3. \A i \in call[h].seen : Present(i) => i \in Owned(h)
  BY <1>1 DEF CallInv, KindHolds, AllHolds, Ending, Owned
<1>4. /\ \A i \in SessionIds : causes[i] \subseteq causes'[i]
      /\ \A i \in Owned(h) \ call[h].seen : "unlisted" \in causes'[i]
  BY <1>1, <1>2, BlameEffect DEF DeleteAll, Causes
<1> QED BY <1>1, <1>2, <1>3, <1>4, DeleteInv DEF DeleteAll

LEMMA FallbackInv ==
    ASSUME SessionInv, TypeOK', NEW h \in Handlers, Fallback(h)
    PROVE  SessionInv'
<1>1. TypeOK /\ CallInv(call[h]) /\ call[h] \in Calls
  BY DEF SessionInv, TypeOK
<1>2. UNCHANGED <<clock, session, tokens>> /\ call[h].pc = "fallback"
  BY DEF Fallback
<1>3. call[h].kind = "logout"
  BY <1>1, <1>2 DEF CallInv, KindHolds
<1>4. PICK i \in call[h].seen :
         /\ blocked' = [blocked EXCEPT ![i] = call[h].expires]
         /\ causes' = [causes EXCEPT ![i] = @ \cup
              (IF call[h].expires < blocked[i] THEN {"shortened"} ELSE {}) \cup
              (IF Present(i) THEN {"abandoned"} ELSE {})]
  BY DEF Fallback
<1>5. i \in SessionIds /\ call[h].seen = {i} /\ Taken(i)
  BY <1>1, <1>2, <1>3, <1>4 DEF CallInv, KindHolds, RevocationHolds
<1>6. /\ blocked'[i] = call[h].expires /\ \A j \in SessionIds \ {i} : blocked'[j] = blocked[j]
      /\ \A j \in SessionIds : causes[j] \subseteq causes'[j]
      /\ call[h].expires < blocked[i] => "shortened" \in causes'[i]
      /\ Present(i) => "abandoned" \in causes'[i]
  BY <1>1, <1>4, <1>5 DEF TypeOK
<1>7. call'[h] = NoCall /\ \A k \in Handlers \ {h} : call'[k] = call[k]
  BY <1>1, AnswerEffect DEF Fallback
<1>8. \A j \in SessionIds : /\ blocked[j] \in Nat /\ blocked'[j] \in Nat
                            /\ blocked'[j] >= blocked[j] \/ "shortened" \in causes'[j]
  BY <1>1, <1>5, <1>6, Numbers
<1>9. \A c : Keeps(c)
  BY <1>2, <1>6, <1>8 DEF Keeps, Taken
<1>10. (\A k \in Handlers : CallInv(call[k]))'
  BY <1>7, <1>9, NoCallInvNext, OthersKept
<1>11. TokensCovered'
  BY <1>1, <1>2, <1>9, TokensKept DEF SessionInv
<1>12. BlacklistCovers'
  <2> SUFFICES ASSUME NEW j \in SessionIds
               PROVE  /\ session[j].st = "none" => blocked'[j] = 0
                      /\ session[j].st = "gone" =>
                            blocked'[j] >= session[j].expires
                            \/ Caused(j, {"extended", "unlisted", "shortened"})'
    BY <1>2 DEF BlacklistCovers
  <2>1. /\ session[j].st = "none" => blocked[j] = 0
        /\ session[j].st = "gone" => blocked[j] >= session[j].expires
                                     \/ Caused(j, {"extended", "unlisted", "shortened"})
    BY DEF SessionInv, BlacklistCovers
  <2>2. session[j].st = "none" => j # i
    BY <1>5 DEF Taken
  <2>3. Caused(j, {"extended", "unlisted", "shortened"})
           => Caused(j, {"extended", "unlisted", "shortened"})'
    BY <1>6, CausedGrows
  <2>4. "shortened" \in causes'[j] => Caused(j, {"extended", "unlisted", "shortened"})'
    BY DEF Caused
  <2>5. session[j].expires \in Nat
    BY <1>1, Numbers
  <2> QED BY <1>6, <1>8, <2>1, <2>2, <2>3, <2>4, <2>5
<1>13. LogoutsCovered'
  <2> SUFFICES ASSUME NEW t \in loggedOut'
               PROVE  blocked'[t.session] >= t.expires
                      \/ Caused(t.session, {"late", "overwritten", "shortened"})'
    BY DEF LogoutsCovered
  <2>1. \/ t \in loggedOut
        \/ t = [session |-> i, expires |-> call[h].expires]
    BY <1>1, <1>5, AnswerEffect DEF Fallback
  <2>2. CASE t \in loggedOut
    <3>1. t.session \in SessionIds /\ t.expires \in Nat
      BY <1>1, <2>2, SessionAssumption DEF TypeOK, Tokens, Times
    <3>2. blocked[t.session] >= t.expires
          \/ Caused(t.session, {"late", "overwritten", "shortened"})
      BY <2>2 DEF SessionInv, LogoutsCovered
    <3> QED BY <1>6, <1>8, <3>1, <3>2, CausedGrows
  <2>3. CASE t = [session |-> i, expires |-> call[h].expires]
    BY <1>1, <1>6, <2>3, Numbers
  <2> QED BY <2>1, <2>2, <2>3
<1>14. ReusableIsUsable'
  <2> SUFFICES ASSUME NEW j \in SessionIds, Present(j)', Blacklisted(j)'
               PROVE  (\E k \in Handlers : j \in Revoking(k)') \/ "abandoned" \in causes'[j]
    BY DEF ReusableIsUsable
  <2>1. CASE j = i
    BY <1>2, <1>6, <2>1 DEF Present
  <2>2. CASE j # i
    <3>1. Present(j) /\ Blacklisted(j)
      BY <1>2, <1>6, <2>2 DEF Present, Blacklisted
    <3>2. j \notin Revoking(h)
      BY <1>5, <2>2 DEF Revoking
    <3>3. \A k \in Handlers \ {h} : Revoking(k)' = Revoking(k)
      BY <1>7 DEF Revoking
    <3> QED BY <1>6, <3>1, <3>2, <3>3 DEF SessionInv, ReusableIsUsable
  <2> QED BY <2>1, <2>2
<1> QED BY <1>10, <1>11, <1>12, <1>13, <1>14 DEF SessionInv

\* A revocation that ends between its blacklist entry and its row leaves its cause.
LEMMA AbandonInv ==
    ASSUME SessionInv, TypeOK', NEW S \in SUBSET Handlers,
           \A h \in S : call'[h] = NoCall, \A k \in Handlers \ S : call'[k] = call[k],
           \A i \in SessionIds : causes[i] \subseteq causes'[i],
           \A h \in S : \A i \in Revoking(h) :
              Present(i) /\ Blacklisted(i) => "abandoned" \in causes'[i],
           UNCHANGED <<clock, session, blocked, tokens, loggedOut>>
    PROVE  SessionInv'
<1>1. TypeOK
  BY DEF SessionInv
<1>2. \A c : Keeps(c)
  BY <1>1, Numbers DEF Keeps, Taken
<1>3. (\A k \in Handlers : CallInv(call[k]))'
  <2>1. ASSUME NEW c \in Calls, NEW k \in Handlers, c = call'[k] PROVE CallInv(c)'
    <3>1. CASE k \in S
      BY <2>1, <3>1, NoCallInvNext
    <3>2. CASE k \notin S
      <4>1. CallInv(c)
        BY <2>1, <3>2 DEF SessionInv
      <4> QED BY <1>1, <1>2, <4>1, CallKept
    <3> QED BY <3>1, <3>2
  <2>2. call' \in [Handlers -> Calls]
    BY DEF TypeOK
  <2> QED BY <2>1, <2>2, CallsInv
<1>4. TokensCovered' /\ LogoutsCovered'
  BY <1>1, <1>2, TokensKept, LogoutsKept DEF SessionInv
<1>5. BlacklistCovers'
  BY CausedGrows DEF SessionInv, BlacklistCovers
<1>6. ReusableIsUsable'
  <2>1. \A k \in Handlers \ S : Revoking(k)' = Revoking(k)
    BY DEF Revoking
  <2> QED BY <2>1 DEF SessionInv, ReusableIsUsable, Present, Blacklisted
<1> QED BY <1>3, <1>4, <1>5, <1>6 DEF SessionInv

LEMMA FailInv ==
    ASSUME SessionInv, TypeOK', NEW h \in Handlers, Fail(h)
    PROVE  SessionInv'
<1>1. TypeOK /\ CallInv(call[h]) /\ call[h] \in Calls
  BY DEF SessionInv, TypeOK
<1>2. UNCHANGED <<clock, session, blocked, tokens, loggedOut>>
  BY DEF Fail, rowVars
<1>3. CASE call[h].kind = "logout" /\ call[h].pc # "fallback"
  <2>1. Become(h, [call[h] EXCEPT !.pc = "fallback"]) /\ UNCHANGED causes
    BY <1>3 DEF Fail, Goto
  <2> DEFINE c == [call[h] EXCEPT !.pc = "fallback"]
  <2>2. c \in Calls
    BY <1>1, CallUpdates DEF RevokePcs
  <2>3. /\ c.pc = "fallback" /\ c.kind = "logout" /\ c.seen = call[h].seen
        /\ c.expires = call[h].expires
    BY <1>1, <1>3, MovedFields
  <2>4. call'[h] = c /\ \A k \in Handlers \ {h} : call'[k] = call[k]
    BY <1>1, <2>1, <2>2, BecomeType
  <2> HIDE DEF c
  <2>5. KindHolds(c) /\ LoginHolds(c) /\ AllHolds(c)
    BY <1>1, <1>3, <2>3 DEF CallInv, KindHolds, LoginHolds, AllHolds, LoginPcs, Ending
  <2>6. RevocationHolds(c) /\ LogoutHolds(c)
    BY <1>1, <1>3, <2>3 DEF CallInv, RevocationHolds, LogoutHolds, Ending
  <2>7. Revoking(h) \subseteq Revoking(h)'
    BY <2>3, <2>4 DEF Revoking
  <2> QED BY <1>2, <2>1, <2>2, <2>4, <2>5, <2>6, <2>7, QuietMove DEF CallInv
<1>4. CASE ~(call[h].kind = "logout" /\ call[h].pc # "fallback")
  <2> DEFINE S == {i \in Revoking(h) : Present(i) /\ Blacklisted(i)}
  <2>1. Become(h, NoCall) /\ Blame(S, "abandoned")
    BY <1>4 DEF Fail
  <2>2. Revoking(h) \subseteq SessionIds
    BY <1>1 DEF Revoking, Calls
  <2>3. /\ \A i \in SessionIds : causes[i] \subseteq causes'[i]
        /\ \A i \in SessionIds : i \in S => "abandoned" \in causes'[i]
    <3> HIDE DEF S
    <3> QED BY <1>1, <2>1, BlameEffect DEF Causes
  <2>4. call'[h] = NoCall /\ \A k \in Handlers \ {h} : call'[k] = call[k]
    BY <1>1, <2>1, NoCallType, BecomeType
  <2>5. {h} \in SUBSET Handlers
    OBVIOUS
  <2> QED BY <1>2, <2>2, <2>3, <2>4, <2>5, AbandonInv
<1> QED BY <1>3, <1>4

LEMMA CrashInv ==
    ASSUME SessionInv, TypeOK', Crash
    PROVE  SessionInv'
<1>1. TypeOK
  BY DEF SessionInv
<1> DEFINE S == {i \in UNION {Revoking(h) : h \in Handlers} : Present(i) /\ Blacklisted(i)}
<1>2. \A h \in Handlers : Revoking(h) \subseteq SessionIds
  BY <1>1 DEF Revoking, TypeOK, Calls
<1>3. Blame(S, "abandoned")
  BY DEF Crash
<1>4. \A h \in Handlers : \A i \in Revoking(h) : Present(i) /\ Blacklisted(i) => i \in S
  OBVIOUS
<1> HIDE DEF S
<1>5. /\ \A i \in SessionIds : causes[i] \subseteq causes'[i]
      /\ \A i \in SessionIds : i \in S => "abandoned" \in causes'[i]
  BY <1>1, <1>3, BlameEffect DEF Causes
<1>6. UNCHANGED <<clock, session, blocked, tokens, loggedOut>>
      /\ \A h \in Handlers : call'[h] = NoCall
  BY DEF Crash, rowVars
<1>7. \A h \in Handlers : \A i \in Revoking(h) :
         Present(i) /\ Blacklisted(i) => "abandoned" \in causes'[i]
  BY <1>2, <1>4, <1>5
<1>8. Handlers \in SUBSET Handlers
  OBVIOUS
<1> QED BY <1>5, <1>6, <1>7, <1>8, AbandonInv

LEMMA SessionInvNext == SessionInv /\ [Next]_vars => SessionInv'
<1> SUFFICES ASSUME SessionInv, [Next]_vars PROVE SessionInv'
  OBVIOUS
<1>1. TypeOK'
  BY TypeNext DEF SessionInv
<1>2. ASSUME NEW h \in Handlers, Requests(h) PROVE SessionInv'
  BY <1>1, <1>2, RequestsInv
<1>3. ASSUME NEW h \in Handlers, Step(h) PROVE SessionInv'
  BY <1>1, <1>3, FindSessionInv, ExtendInv, CreateSessionInv, SignInv, ReadInv, BlockOneInv,
     BlocksWrittenInv, DeleteOneInv, DeleteAllInv, FallbackInv, FailInv DEF Step
<1>4. ASSUME \/ \E u \in Users : Ban(u) \/ Unban(u)
             \/ Tick
             \/ UNCHANGED vars
      PROVE  SessionInv'
  <2>1. UNCHANGED <<session, blocked, tokens, loggedOut, causes, call>>
    BY <1>4 DEF Ban, Unban, Tick, vars, rowVars
  <2>2. clock <= clock'
    BY <1>4, SessionAssumption DEF Ban, Unban, Tick, vars, SessionInv, TypeOK
  <2>3. \A c \in Calls, k \in Handlers : c = call'[k] => CallInv(c)
    BY <2>1 DEF SessionInv
  <2>4. \A k \in Handlers : Revoking(k) \subseteq Revoking(k)'
    BY <2>1 DEF Revoking
  <2> QED BY <1>1, <2>1, <2>2, <2>3, <2>4, QuietStep
<1>5. CASE Crash
  BY <1>1, <1>5, CrashInv
<1> QED BY <1>2, <1>3, <1>4, <1>5 DEF Next

-----------------------------------------------------------------------------
LEMMA ListedFollows == SessionInv => AcceptedIsListed
<1> SUFFICES ASSUME SessionInv, NEW t \in tokens, Accepted(t),
                    ~Caused(t.session, {"late", "overwritten", "extended", "unlisted", "shortened"})
             PROVE  Present(t.session) /\ session[t.session].expires >= t.expires
  BY DEF AcceptedIsListed, Caused
<1>1. TypeOK /\ t.session \in SessionIds /\ t.expires \in Nat
  BY SessionAssumption DEF SessionInv, TypeOK, Tokens, Times
<1>2. session[t.session].st \in {"none", "present", "gone"}
  BY <1>1 DEF TypeOK, Rows
<1>3. Taken(t.session) /\ t.expires <= session[t.session].expires
  BY DEF SessionInv, TokensCovered, Caused
<1>4. session[t.session].st # "gone"
  <2> SUFFICES ASSUME session[t.session].st = "gone" PROVE FALSE
    OBVIOUS
  <2>1. blocked[t.session] >= session[t.session].expires
    BY <1>1 DEF SessionInv, BlacklistCovers, Caused
  <2> QED BY <1>1, <1>3, <2>1, Numbers DEF Accepted, Blacklisted
<1> QED BY <1>1, <1>2, <1>3, <1>4, Numbers DEF Taken, Present

LEMMA LogoutFollows == SessionInv => LoggedOutIsRefused
<1> SUFFICES ASSUME SessionInv, NEW t \in loggedOut, Accepted(t),
                    ~Caused(t.session, {"late", "overwritten", "shortened"})
             PROVE  FALSE
  BY DEF LoggedOutIsRefused, Caused
<1>1. TypeOK /\ t.session \in SessionIds /\ t.expires \in Nat
  BY SessionAssumption DEF SessionInv, TypeOK, Tokens, Times
<1>2. blocked[t.session] >= t.expires
  BY DEF SessionInv, LogoutsCovered
<1> QED BY <1>1, <1>2, Numbers DEF Accepted, Blacklisted

\* The guard accepts no token whose row is gone or shorter than the token, but for
\* the named races.
THEOREM AcceptedTokensAreListed == Spec => []AcceptedIsListed
BY SessionInvInit, SessionInvNext, ListedFollows, PTL DEF Spec

\* A row logins reuse is refused by the guard only under a revocation under way or
\* given up half way.
THEOREM ReusableSessionsAreUsable == Spec => []ReusableIsUsable
<1>1. SessionInv => ReusableIsUsable
  BY DEF SessionInv
<1> QED BY <1>1, SessionInvInit, SessionInvNext, PTL DEF Spec

\* An answered logout is final, even when its own calls failed.
THEOREM LogoutsAreFinal == Spec => []LoggedOutIsRefused
BY SessionInvInit, SessionInvNext, LogoutFollows, PTL DEF Spec
-----------------------------------------------------------------------------
(* The contract of the sessions.  The steps of Sessions have six shapes,   *)
(* and each shape is an action of SessionLife.                             *)

\* A blacklist entry outlasts the row it is about, so a token it refuses has expired
\* before it ends.
BlocksReach ==
    \A i \in SessionIds : Blacklisted(i) => blocked[i] >= session[i].expires \/ causes[i] # {}

LifeInv == SessionInv /\ BlocksReach

CausesGrow == \A i \in SessionIds : causes[i] \subseteq causes'[i]
SameRow(i) == session'[i].st = session[i].st /\ session'[i].user = session[i].user
SameExpiry(i) == session'[i].expires = session[i].expires

\* Requests move on, fail, or extend a row.
Moves ==
    /\ UNCHANGED <<clock, blocked, tokens>> /\ CausesGrow
    /\ \A i \in SessionIds : /\ SameRow(i)
                             /\ Blacklisted(i) => SameExpiry(i) \/ causes'[i] # {}

Opens(i, u) ==
    /\ UNCHANGED <<clock, blocked, tokens, causes>>
    /\ session[i].st = "none" /\ session'[i].st = "present" /\ session'[i].user = u
    /\ \A j \in SessionIds \ {i} : session'[j] = session[j]

Signs(t) ==
    /\ UNCHANGED <<clock, session, blocked>>
    /\ Taken(t.session) /\ clock < t.expires
    /\ tokens' = tokens \cup {t}
    /\ CausesGrow /\ \A j \in SessionIds \ {t.session} : causes'[j] = causes[j]

Blocks(i) ==
    /\ UNCHANGED <<clock, session, tokens>>
    /\ blocked'[i] > clock
    /\ blocked'[i] >= session[i].expires \/ causes'[i] # {}
    /\ CausesGrow
    /\ \A j \in SessionIds \ {i} : blocked'[j] = blocked[j] /\ causes'[j] = causes[j]

Deletes(S) ==
    /\ UNCHANGED <<clock, blocked, tokens>> /\ CausesGrow
    /\ \A i \in S : Present(i)
    /\ \A i \in SessionIds :
          /\ session'[i].st = IF i \in S THEN "gone" ELSE session[i].st
          /\ session'[i].user = session[i].user /\ SameExpiry(i)
    /\ \A i \in SessionIds \ S : causes'[i] = causes[i]

Passes == clock <= clock' /\ UNCHANGED <<session, blocked, tokens, causes>>

LEMMA BlameOthers ==
    ASSUME TypeOK, NEW S, NEW cause \in Causes, Blame(S, cause)
    PROVE  CausesGrow /\ \A i \in SessionIds \ S : causes'[i] = causes[i]
BY DEF TypeOK, Blame, CausesGrow

LEMMA ExtendMoves ==
    ASSUME SessionInv, NEW h \in Handlers, Extend(h)
    PROVE  Moves
<1>1. TypeOK /\ ReusableIsUsable
  BY DEF SessionInv
<1>2. PICK i \in call[h].seen :
         /\ i \in SessionIds /\ Present(i)
         /\ session'[i].st = "present"
         /\ session'[i].user = session[i].user
         /\ \A j \in SessionIds \ {i} : session'[j] = session[j]
         /\ \A j \in SessionIds : causes[j] \subseteq causes'[j]
         /\ (\E other \in Handlers : i \in Revoking(other)) => "extended" \in causes'[i]
  BY <1>1, ExtendEffect
<1>3. Blacklisted(i) => causes'[i] # {}
  BY <1>1, <1>2 DEF ReusableIsUsable
<1> QED BY <1>2, <1>3 DEF Moves, CausesGrow, SameRow, SameExpiry, Present, Extend

LEMMA CreateOpens ==
    ASSUME SessionInv, NEW h \in Handlers, CreateSession(h)
    PROVE  \E i \in SessionIds, u \in Users : Opens(i, u)
<1>1. TypeOK /\ call[h].user \in Users
  BY DEF SessionInv, TypeOK, Calls
<1>2. PICK i \in SessionIds :
         /\ session[i].st = "none"
         /\ session' = [session EXCEPT ![i] =
              [st |-> "present", user |-> call[h].user, device |-> call[h].device,
               expires |-> call[h].expires]]
  BY DEF CreateSession
<1>3. Opens(i, call[h].user)
  BY <1>1, <1>2 DEF Opens, CreateSession, TypeOK
<1> QED BY <1>1, <1>3

LEMMA SignSigns ==
    ASSUME SessionInv, NEW h \in Handlers, Sign(h)
    PROVE  \E t \in Tokens : Signs(t)
<1>1. TypeOK /\ call[h] \in Calls /\ CallInv(call[h]) /\ call[h].pc = "sign"
  BY DEF SessionInv, TypeOK, Sign
<1>2. PICK i \in SessionIds : call[h].seen = {i}
  BY <1>1 DEF CallInv, KindHolds
<1> DEFINE t == [session |-> i, expires |-> clock + Lifetime]
<1>3. t \in Tokens /\ t.session = i /\ clock < t.expires
  BY <1>1, ClockTimes DEF Tokens
<1>4. tokens' = tokens \cup {t}
  BY <1>2 DEF Sign
<1>5. Taken(i)
  BY <1>1, <1>2 DEF CallInv, LoginHolds
<1>6. CausesGrow /\ \A j \in SessionIds \ {i} : causes'[j] = causes[j]
  <2> DEFINE S == IF clock + Lifetime > call[h].expires THEN call[h].seen ELSE {}
  <2>1. S \subseteq {i} /\ Blame(S, "late")
    BY <1>2 DEF Sign
  <2> HIDE DEF S
  <2> QED BY <1>1, <2>1, BlameOthers DEF Causes
<1> QED BY <1>3, <1>4, <1>5, <1>6 DEF Signs, Sign, rowVars

LEMMA BlockOneBlocks ==
    ASSUME SessionInv, NEW h \in Handlers, BlockOne(h)
    PROVE  \E i \in SessionIds : Blocks(i)
<1>1. TypeOK /\ call[h] \in Calls /\ CallInv(call[h]) /\ call[h].pc = "block"
  BY DEF SessionInv, TypeOK, BlockOne
<1>2. PICK entry \in call[h].todo : Blacklist(entry[1], entry[2])
  BY DEF BlockOne
<1>3. PICK i \in SessionIds : i = entry[1]
  BY <1>1 DEF Calls
<1>4. entry[2] >= session[i].expires \/ Caused(i, {"extended"})
  BY <1>1, <1>3 DEF CallInv, RevocationHolds
<1>5. CausesGrow /\ \A j \in SessionIds \ {i} : causes'[j] = causes[j]
  <2> DEFINE S == IF entry[2] < blocked[entry[1]] THEN {entry[1]} ELSE {}
  <2>1. S \subseteq {i} /\ Blame(S, "shortened")
    BY <1>2, <1>3 DEF Blacklist
  <2> HIDE DEF S
  <2> QED BY <1>1, <2>1, BlameOthers DEF Causes
<1>6. /\ blocked'[i] = entry[2] /\ entry[2] > clock
      /\ \A j \in SessionIds \ {i} : blocked'[j] = blocked[j]
  BY <1>1, <1>2, <1>3 DEF Blacklist, TypeOK
<1>7. blocked'[i] >= session[i].expires \/ causes'[i] # {}
  BY <1>4, <1>5, <1>6 DEF Caused, CausesGrow
<1> QED BY <1>5, <1>6, <1>7 DEF Blocks, BlockOne

LEMMA FallbackBlocks ==
    ASSUME SessionInv, NEW h \in Handlers, Fallback(h)
    PROVE  \E i \in SessionIds : Blocks(i)
<1>1. TypeOK /\ call[h] \in Calls /\ CallInv(call[h]) /\ call[h].pc = "fallback"
  BY DEF SessionInv, TypeOK, Fallback
<1>2. PICK i \in call[h].seen :
         /\ call[h].expires > clock
         /\ blocked' = [blocked EXCEPT ![i] = call[h].expires]
         /\ causes' = [causes EXCEPT ![i] = @ \cup
              (IF call[h].expires < blocked[i] THEN {"shortened"} ELSE {}) \cup
              (IF Present(i) THEN {"abandoned"} ELSE {})]
  BY DEF Fallback
<1>3. i \in SessionIds /\ Taken(i)
  BY <1>1 DEF Calls, CallInv, RevocationHolds
<1>4. /\ blocked'[i] = call[h].expires
      /\ \A j \in SessionIds \ {i} : blocked'[j] = blocked[j] /\ causes'[j] = causes[j]
      /\ CausesGrow
      /\ call[h].expires < blocked[i] => "shortened" \in causes'[i]
      /\ Present(i) => "abandoned" \in causes'[i]
  BY <1>1, <1>2, <1>3 DEF TypeOK, CausesGrow
<1>5. blocked'[i] >= session[i].expires \/ causes'[i] # {}
  <2>1. CASE Present(i)
    BY <1>4, <2>1
  <2>2. CASE ~Present(i)
    <3>1. session[i].st = "gone"
      BY <1>1, <1>3, <2>2 DEF Taken, Present, TypeOK, Rows
    <3>2. blocked[i] >= session[i].expires \/ causes[i] # {}
      BY <1>3, <3>1 DEF SessionInv, BlacklistCovers, Caused
    <3>3. /\ blocked[i] \in Nat /\ session[i].expires \in Nat /\ call[h].expires \in Nat
      BY <1>1, <1>3, Numbers
    <3> QED BY <1>3, <1>4, <3>2, <3>3 DEF CausesGrow
  <2> QED BY <2>1, <2>2
<1> QED BY <1>2, <1>3, <1>4, <1>5 DEF Blocks, Fallback

LEMMA DeleteDeletes ==
    ASSUME SessionInv, NEW h \in Handlers, DeleteOne(h) \/ DeleteAll(h)
    PROVE  \E S \in SUBSET SessionIds : Deletes(S)
<1>1. TypeOK
  BY DEF SessionInv
<1>2. CASE DeleteOne(h)
  <2>1. call[h].seen \in SUBSET SessionIds
    BY <1>1 DEF TypeOK, Calls
  <2>2. Deletes(call[h].seen)
    BY <1>1, <1>2, DeleteEffect DEF DeleteOne, Deletes, CausesGrow, SameExpiry
  <2> QED BY <2>1, <2>2
<1>3. CASE DeleteAll(h)
  <2>1. Owned(h) \in SUBSET SessionIds /\ \A i \in Owned(h) : Present(i)
    BY DEF Owned
  <2>2. CausesGrow /\ \A i \in SessionIds \ Owned(h) : causes'[i] = causes[i]
    BY <1>1, <1>3, BlameOthers DEF DeleteAll, Causes
  <2>3. Deletes(Owned(h))
    BY <1>1, <1>3, <2>1, <2>2, DeleteEffect DEF DeleteAll, Deletes, SameExpiry
  <2> QED BY <2>1, <2>3
<1> QED BY <1>2, <1>3

LEMMA OtherMoves ==
    ASSUME SessionInv,
           \/ \E h \in Handlers : \/ Requests(h) \/ FindSession(h) \/ ReadOne(h) \/ ReadAll(h)
                                  \/ BlocksWritten(h) \/ Fail(h)
           \/ \E u \in Users : Ban(u) \/ Unban(u)
           \/ Crash
           \/ UNCHANGED vars
    PROVE  Moves
<1>1. TypeOK
  BY DEF SessionInv
<1>2. ASSUME NEW h \in Handlers, Requests(h) \/ FindSession(h) \/ ReadOne(h) \/ ReadAll(h)
                                 \/ BlocksWritten(h)
      PROVE  UNCHANGED <<clock, session, blocked, tokens, causes>>
  <2>1. Requests(h) => UNCHANGED <<clock, session, blocked, tokens, causes>>
    BY <1>1, RequestsType, BeginEffect
  <2>2. FindSession(h) => UNCHANGED <<clock, session, blocked, tokens, causes>>
    BY DEF FindSession, rowVars
  <2>3. ReadOne(h) \/ ReadAll(h) => UNCHANGED <<clock, session, blocked, tokens, causes>>
    BY DEF ReadOne, ReadAll, rowVars
  <2>4. BlocksWritten(h) => UNCHANGED <<clock, session, blocked, tokens, causes>>
    BY DEF BlocksWritten, rowVars
  <2> QED BY <1>2, <2>1, <2>2, <2>3, <2>4
<1>3. ASSUME (\E u \in Users : Ban(u) \/ Unban(u)) \/ UNCHANGED vars
      PROVE  UNCHANGED <<clock, session, blocked, tokens, causes>>
  BY <1>3 DEF Ban, Unban, vars, rowVars
<1>4. ASSUME (\E h \in Handlers : Fail(h)) \/ Crash
      PROVE  UNCHANGED <<clock, session, blocked, tokens>> /\ CausesGrow
  <2>1. ASSUME NEW h \in Handlers, Fail(h) PROVE CausesGrow
    BY <1>1, <2>1, BlameOthers DEF Fail, Causes, CausesGrow
  <2>2. Crash => CausesGrow
    BY <1>1, BlameOthers DEF Crash, Causes
  <2>3. UNCHANGED <<clock, session, blocked, tokens>>
    BY <1>4 DEF Fail, Crash, rowVars
  <2> QED BY <1>4, <2>1, <2>2, <2>3
<1>5. UNCHANGED <<clock, session, blocked, tokens>> /\ CausesGrow
  <2>1. UNCHANGED causes => CausesGrow
    BY DEF CausesGrow
  <2> QED BY <1>2, <1>3, <1>4, <2>1
<1> QED BY <1>5 DEF Moves, SameRow, SameExpiry

LEMMA StepShapes ==
    ASSUME SessionInv, [Next]_vars
    PROVE  \/ Moves \/ Passes
           \/ \E i \in SessionIds : Blocks(i) \/ \E u \in Users : Opens(i, u)
           \/ \E t \in Tokens : Signs(t)
           \/ \E S \in SUBSET SessionIds : Deletes(S)
<1>1. Tick => Passes
  BY Numbers DEF Tick, Passes, rowVars, SessionInv
<1> QED BY <1>1, ExtendMoves, CreateOpens, SignSigns, BlockOneBlocks, FallbackBlocks, DeleteDeletes,
       OtherMoves DEF Next, Step

LEMMA BlocksReachNext == LifeInv /\ [Next]_vars => BlocksReach'
<1> SUFFICES ASSUME LifeInv, [Next]_vars, NEW i \in SessionIds, Blacklisted(i)',
                    causes'[i] = {}
             PROVE  blocked'[i] >= session'[i].expires
  BY DEF BlocksReach
<1>1. SessionInv /\ TypeOK /\ TypeOK'
  BY TypeNext DEF LifeInv, SessionInv
<1>2. /\ clock \in Nat /\ clock' \in Nat /\ blocked[i] \in Nat /\ blocked'[i] \in Nat
      /\ session[i].expires \in Nat /\ session'[i].expires \in Nat
  BY <1>1, SessionAssumption DEF TypeOK, Rows, Times
<1>3. ASSUME clock <= clock', blocked'[i] = blocked[i], causes[i] \subseteq causes'[i],
             Blacklisted(i) => SameExpiry(i)
      PROVE  blocked'[i] >= session'[i].expires
  <2>1. Blacklisted(i) /\ causes[i] = {}
    BY <1>2, <1>3 DEF Blacklisted
  <2> QED BY <1>3, <2>1 DEF LifeInv, BlocksReach, SameExpiry
<1>4. CASE Moves
  BY <1>2, <1>3, <1>4 DEF Moves, CausesGrow
<1>5. CASE Passes
  BY <1>3, <1>5 DEF Passes, SameExpiry
<1>6. ASSUME NEW j \in SessionIds, Blocks(j) PROVE blocked'[i] >= session'[i].expires
  <2>1. CASE j = i
    BY <1>6, <2>1 DEF Blocks
  <2>2. CASE j # i
    BY <1>2, <1>3, <1>6, <2>2 DEF Blocks, CausesGrow, SameExpiry
  <2> QED BY <2>1, <2>2
<1>7. ASSUME NEW j \in SessionIds, NEW u \in Users, Opens(j, u)
      PROVE  blocked'[i] >= session'[i].expires
  <2>1. j # i
    BY <1>1, <1>2, <1>7 DEF Opens, SessionInv, BlacklistCovers, Blacklisted
  <2> QED BY <1>2, <1>3, <1>7, <2>1 DEF Opens, SameExpiry
<1>8. ASSUME NEW t \in Tokens, Signs(t) PROVE blocked'[i] >= session'[i].expires
  BY <1>2, <1>3, <1>8 DEF Signs, CausesGrow, SameExpiry
<1>9. ASSUME NEW S \in SUBSET SessionIds, Deletes(S) PROVE blocked'[i] >= session'[i].expires
  BY <1>2, <1>3, <1>9 DEF Deletes, CausesGrow
<1> QED BY <1>1, <1>4, <1>5, <1>6, <1>7, <1>8, <1>9, StepShapes

LEMMA LifeInvInit == Init => LifeInv
<1>1. Init => BlocksReach
  BY DEF Init, BlocksReach, Blacklisted
<1> QED BY <1>1, SessionInvInit DEF LifeInv

LEMMA LifeInvNext == LifeInv /\ [Next]_vars => LifeInv'
BY BlocksReachNext, SessionInvNext DEF LifeInv

-----------------------------------------------------------------------------
(* Every shape is an action of the contract.                               *)

LEMMA InForceFacts ==
    ASSUME TypeOK, NEW t
    PROVE  t \in InForce <=> /\ t \in tokens /\ t \in Tokens /\ t.session \in SessionIds
                             /\ clock < t.expires /\ clock >= blocked[t.session]
                             /\ causes[t.session] = {}
<1>1. tokens \subseteq Tokens /\ \A s \in Tokens : s.session \in SessionIds
  BY DEF TypeOK, Tokens
<1>2. \A i \in SessionIds : Blacklisted(i) <=> ~(clock >= blocked[i])
  BY Numbers DEF Blacklisted
<1> QED BY <1>1, <1>2 DEF InForce

LEMMA InForceNext ==
    ASSUME TypeOK', NEW t
    PROVE  t \in InForce' <=> /\ t \in tokens' /\ t \in Tokens /\ t.session \in SessionIds
                              /\ clock' < t.expires /\ clock' >= blocked'[t.session]
                              /\ causes'[t.session] = {}
<1>1. tokens' \subseteq Tokens /\ \A s \in Tokens : s.session \in SessionIds
  BY DEF TypeOK, Tokens
<1>2. \A i \in SessionIds : Blacklisted(i)' <=> ~(clock' >= blocked'[i])
  BY SessionAssumption DEF TypeOK, Times, Blacklisted
<1> QED BY <1>1, <1>2 DEF InForce

\* A session whose row is gone and that nothing spoiled refuses all its tokens.
LEMMA GoneRefuses ==
    ASSUME SessionInv, NEW t \in tokens, session[t.session].st = "gone", causes[t.session] = {},
           clock < t.expires
    PROVE  Blacklisted(t.session)
<1>1. TypeOK /\ t.session \in SessionIds /\ t.expires \in Nat
  BY SessionAssumption DEF SessionInv, TypeOK, Tokens, Times
<1>2. /\ t.expires <= session[t.session].expires
      /\ blocked[t.session] >= session[t.session].expires
  BY <1>1 DEF SessionInv, TokensCovered, BlacklistCovers, Caused
<1> QED BY <1>1, <1>2, Numbers DEF Blacklisted

LEMMA SameSessions ==
    ASSUME \A i \in SessionIds : SameRow(i)
    PROVE  State' = State /\ Owner' = Owner
BY DEF SameRow, State, Owner, Present

LEMMA MovesSpoil ==
    ASSUME LifeInv, TypeOK', Moves
    PROVE  \E S \in SUBSET SessionIds : Life!Spoil(S)
<1>1. TypeOK
  BY DEF LifeInv, SessionInv
<1> DEFINE S == Spoiled' \ Spoiled
<1>2. S \in SUBSET SessionIds /\ Spoiled' = Spoiled \cup S
  BY DEF Spoiled, Moves, CausesGrow
<1>3. State' = State /\ Owner' = Owner
  BY SameSessions DEF Moves
<1>4. InForce' = InForce \ Life!TokensOf(S)
  <2>1. ASSUME NEW t PROVE t \in InForce' <=> t \in InForce /\ ~(t \in Life!TokensOf(S))
    <3>1. ASSUME t.session \in SessionIds
          PROVE  causes'[t.session] = {} <=> causes[t.session] = {} /\ t.session \notin S
      BY <3>1 DEF Moves, CausesGrow, Spoiled
    <3>2. t \in Life!TokensOf(S) <=> t \in Tokens /\ t.session \in S
      BY DEF Life!TokensOf
    <3> HIDE DEF S
    <3> QED BY <1>1, <3>1, <3>2, InForceFacts, InForceNext DEF Moves
  <2> HIDE DEF S
  <2> QED BY <2>1
<1> HIDE DEF S
<1>5. Life!Spoil(S)
  BY <1>2, <1>3, <1>4 DEF Life!Spoil, Life!TakeBack, Moves
<1> QED BY <1>2, <1>5

LEMMA OpensOpen ==
    ASSUME LifeInv, TypeOK', NEW i \in SessionIds, NEW u \in Users, Opens(i, u)
    PROVE  Life!Open(i, u)
<1>1. TypeOK
  BY DEF LifeInv, SessionInv
<1>2. State[i] = "none" /\ State' = [State EXCEPT ![i] = "open"]
  BY DEF Opens, State, Present
<1>3. Owner' = [Owner EXCEPT ![i] = {u}]
  BY DEF Opens, Owner
<1>4. InForce' = InForce
  <2>1. \A t : t \in InForce' <=> t \in InForce
    BY <1>1, InForceFacts, InForceNext DEF Opens
  <2> QED BY <2>1
<1>5. Spoiled' = Spoiled
  BY DEF Opens, Spoiled
<1> QED BY <1>2, <1>3, <1>4, <1>5 DEF Life!Open, Opens

LEMMA SignsGrant ==
    ASSUME LifeInv, SessionInv', NEW t \in Tokens, t \notin tokens, Signs(t)
    PROVE  Life!Grant(t)
<1>1. TypeOK /\ TypeOK' /\ t.session \in SessionIds
  BY DEF LifeInv, SessionInv, Tokens
<1> DEFINE i == t.session
<1>2. State' = State /\ Owner' = Owner
  BY SameSessions DEF Signs, SameRow
<1>3. State[i] # "none"
  BY <1>1 DEF Signs, State, Taken, Present, TypeOK, Rows
<1>4. \A s : s.session = i \/ s.session \notin SessionIds \/ causes'[s.session] = causes[s.session]
  BY DEF Signs
<1>5. CASE causes'[i] = {}
  <2>1. causes[i] = {} /\ i \notin Spoiled
    BY <1>1, <1>5 DEF Signs, CausesGrow, Spoiled
  <2>2. Spoiled' = Spoiled
    BY <1>5, <2>1 DEF Signs, Spoiled
  <2>3. \A s : s \in InForce' <=> s \in InForce \/ (s = t /\ clock >= blocked[i])
    BY <1>1, <1>4, <1>5, <2>1, InForceFacts, InForceNext DEF Signs
  <2>4. CASE Blacklisted(i)
    <3>1. ~(clock >= blocked[i])
      BY <1>1, <2>4, Numbers DEF Blacklisted
    <3>2. InForce' = InForce
      BY <2>3, <3>1
    <3> QED BY <1>2, <1>3, <2>2, <3>2 DEF Life!Grant, Signs
  <2>5. CASE ~Blacklisted(i)
    <3>1. clock >= blocked[i]
      BY <1>1, <2>5, Numbers DEF Blacklisted
    <3>2. InForce' = InForce \cup {t}
      BY <2>3, <3>1
    <3>3. session[i].st # "gone"
      <4>1. t \in tokens' /\ session'[i] = session[i] /\ clock' = clock /\ ~Blacklisted(i)'
        BY <2>5 DEF Signs, Blacklisted
      <4>2. session[i].st = "gone" => (t.expires <= session[i].expires /\ blocked[i] >= session[i].expires)
        BY <1>1, <1>5, <4>1 DEF SessionInv, TokensCovered, BlacklistCovers, Caused, Signs
      <4>3. t.expires \in Nat /\ session[i].expires \in Nat /\ blocked[i] \in Nat /\ clock \in Nat
        BY <1>1, Numbers, SessionAssumption DEF Tokens, Times
      <4> QED BY <3>1, <4>2, <4>3 DEF Signs
    <3>4. State[i] = "open"
      BY <1>1, <3>3 DEF Signs, State, Taken, Present, TypeOK, Rows
    <3> QED BY <1>2, <1>3, <2>1, <2>2, <3>2, <3>4 DEF Life!Grant, Signs
  <2> QED BY <2>4, <2>5
<1>6. CASE causes'[i] # {}
  <2>1. Spoiled' = Spoiled \cup {i}
    BY <1>1, <1>6 DEF Signs, CausesGrow, Spoiled
  <2>2. InForce' = InForce \ Life!TokensOf({i})
    <3>1. \A s : s \in InForce' <=> s \in InForce /\ ~(s \in Tokens /\ s.session = i)
      BY <1>1, <1>4, <1>6, InForceFacts, InForceNext DEF Signs
    <3>2. \A s : s \in Life!TokensOf({i}) <=> s \in Tokens /\ s.session = i
      BY DEF Life!TokensOf
    <3> QED BY <3>1, <3>2
  <2> QED BY <1>2, <1>3, <2>1, <2>2 DEF Life!Grant, Life!TakeBack, Signs
<1> QED BY <1>5, <1>6

LEMMA BlocksBlock ==
    ASSUME LifeInv, TypeOK', NEW i \in SessionIds, Blocks(i)
    PROVE  Life!Block(i) \/ Life!Spoil({i})
<1>1. TypeOK /\ clock \in Nat /\ clock' \in Nat /\ blocked'[i] \in Nat
  BY Numbers, SessionAssumption DEF LifeInv, SessionInv, TypeOK, Times
<1>2. State' = State /\ Owner' = Owner
  BY SameSessions DEF Blocks, SameRow
<1>3. InForce' = InForce \ Life!TokensOf({i})
  <2>1. ~(clock' >= blocked'[i])
    BY <1>1 DEF Blocks
  <2>2. \A s : s \in InForce' <=> s \in InForce /\ ~(s \in Tokens /\ s.session = i)
    BY <1>1, <2>1, InForceFacts, InForceNext DEF Blocks
  <2>3. \A s : s \in Life!TokensOf({i}) <=> s \in Tokens /\ s.session = i
    BY DEF Life!TokensOf
  <2> QED BY <2>2, <2>3
<1>4. CASE causes'[i] = {}
  <2>1. Spoiled' = Spoiled
    BY <1>4 DEF Blocks, CausesGrow, Spoiled
  <2> QED BY <1>2, <1>3, <2>1 DEF Life!Block, Life!TakeBack, Blocks
<1>5. CASE causes'[i] # {}
  <2>1. Spoiled' = Spoiled \cup {i}
    BY <1>5 DEF Blocks, CausesGrow, Spoiled
  <2> QED BY <1>2, <1>3, <2>1 DEF Life!Spoil, Life!TakeBack, Blocks
<1> QED BY <1>4, <1>5

LEMMA DeletesClose ==
    ASSUME LifeInv, SessionInv', NEW S \in SUBSET SessionIds, Deletes(S)
    PROVE  \E missed \in SUBSET S : Life!Close(S, missed)
<1>1. TypeOK /\ TypeOK'
  BY DEF LifeInv, SessionInv
<1> DEFINE missed == Spoiled' \ Spoiled
<1>2. missed \in SUBSET S /\ Spoiled' = Spoiled \cup missed
  BY DEF Deletes, CausesGrow, Spoiled
<1>3. \A i \in S : State[i] = "open"
  BY DEF Deletes, State
<1>4. State' = [i \in SessionIds |-> IF i \in S THEN "closed" ELSE State[i]]
  BY DEF Deletes, State, Present
<1>5. Owner' = Owner
  <2>1. \A i \in SessionIds : /\ session'[i].st = "none" <=> session[i].st = "none"
                              /\ session'[i].user = session[i].user
    BY DEF Deletes, Present
  <2> QED BY <2>1 DEF Owner
<1>6. ASSUME NEW t PROVE t \in InForce' <=> t \in InForce /\ ~(t \in Life!TokensOf(missed))
  <2>1. ASSUME t.session \in SessionIds
        PROVE  causes'[t.session] = {} <=> causes[t.session] = {} /\ t.session \notin missed
    BY <2>1 DEF Deletes, CausesGrow, Spoiled
  <2>2. t \in Life!TokensOf(missed) <=> t \in Tokens /\ t.session \in missed
    BY DEF Life!TokensOf
  <2> HIDE DEF missed
  <2> QED BY <1>1, <2>1, <2>2, InForceFacts, InForceNext DEF Deletes
<1>7. ASSUME NEW t \in InForce, t.session \in S PROVE t.session \in missed
  <2>0. t \in tokens /\ t.session \in SessionIds /\ clock < t.expires
    BY <1>1, InForceFacts
  <2> SUFFICES ASSUME t.session \notin missed PROVE FALSE
    OBVIOUS
  <2>1. t \in InForce'
    BY <1>6, <1>7 DEF Life!TokensOf
  <2>2. t \in tokens' /\ causes'[t.session] = {} /\ clock' < t.expires /\ clock' >= blocked'[t.session]
    BY <1>1, <2>1, InForceNext
  <2>3. session'[t.session].st = "gone"
    BY <1>7, <2>0 DEF Deletes
  <2>4. /\ t.expires <= session'[t.session].expires
        /\ blocked'[t.session] >= session'[t.session].expires
    BY <2>0, <2>2, <2>3 DEF SessionInv, TokensCovered, BlacklistCovers, Caused
  <2>5. /\ t.expires \in Nat /\ session'[t.session].expires \in Nat
        /\ blocked'[t.session] \in Nat /\ clock' \in Nat
    BY <1>1, <2>0, SessionAssumption DEF TypeOK, Tokens, Rows, Times
  <2> QED BY <2>2, <2>4, <2>5
<1> HIDE DEF missed
<1>8. Life!Close(S, missed)
  BY <1>2, <1>3, <1>4, <1>5, <1>6, <1>7 DEF Life!Close, Life!TakeBack, Deletes
<1> QED BY <1>2, <1>8

LEMMA PassesLapse ==
    ASSUME LifeInv, TypeOK', Passes
    PROVE  Life!Lapse
<1>1. TypeOK
  BY DEF LifeInv, SessionInv
<1>2. State' = State /\ Owner' = Owner /\ Spoiled' = Spoiled
  BY SameSessions DEF Passes, SameRow, Spoiled
<1>3. ASSUME NEW t \in InForce' PROVE t \in InForce
  <2>1. /\ t \in tokens /\ t \in Tokens /\ t.session \in SessionIds /\ causes[t.session] = {}
        /\ clock' < t.expires /\ clock' >= blocked[t.session]
    BY InForceNext DEF Passes
  <2>2. t.expires \in Nat /\ clock' \in Nat /\ clock \in Nat /\ blocked[t.session] \in Nat
    BY <1>1, <2>1, Numbers, SessionAssumption DEF TypeOK, Tokens, Times
  <2>3. clock < t.expires
    BY <2>1, <2>2 DEF Passes
  <2>4. ~Blacklisted(t.session)
    <3> SUFFICES ASSUME Blacklisted(t.session) PROVE FALSE
      OBVIOUS
    <3>1. t.expires <= session[t.session].expires /\ blocked[t.session] >= session[t.session].expires
      BY <2>1 DEF LifeInv, SessionInv, BlocksReach, TokensCovered, Caused
    <3>2. session[t.session].expires \in Nat
      BY <1>1, <2>1, Numbers
    <3> QED BY <2>1, <2>2, <3>1, <3>2
  <2> QED BY <2>1, <2>3, <2>4 DEF InForce
<1> QED BY <1>2, <1>3 DEF Life!Lapse, Passes

LEMMA LifeInit == Init => Life!Init
<1> SUFFICES ASSUME Init PROVE Life!Init
  OBVIOUS
<1>1. \A i \in SessionIds : session[i].st = "none" /\ causes[i] = {}
  BY NoCallType DEF Init
<1>2. tokens = {} /\ InForce = {} /\ Spoiled = {}
  BY <1>1 DEF Init, InForce, Spoiled
<1> QED BY <1>1, <1>2 DEF Life!Init, State, Owner, Present

LEMMA LifeStep == LifeInv /\ [Next]_vars => Life!Next
<1> SUFFICES ASSUME LifeInv, [Next]_vars PROVE Life!Next
  OBVIOUS
<1>1. SessionInv /\ SessionInv' /\ TypeOK /\ TypeOK'
  BY SessionInvNext DEF LifeInv, SessionInv
<1>2. CASE Moves
  BY <1>1, <1>2, MovesSpoil DEF Life!Next
<1>3. ASSUME NEW i \in SessionIds, Blocks(i) PROVE Life!Next
  BY <1>1, <1>3, BlocksBlock DEF Life!Next
<1>4. ASSUME NEW i \in SessionIds, NEW u \in Users, Opens(i, u) PROVE Life!Next
  BY <1>1, <1>4, OpensOpen DEF Life!Next
<1>5. ASSUME NEW t \in Tokens, Signs(t) PROVE Life!Next
  <2>1. CASE t \in tokens
    <3>1. tokens' = tokens
      BY <1>5, <2>1 DEF Signs
    <3>2. Moves
      BY <1>5, <3>1 DEF Signs, Moves, SameRow, SameExpiry
    <3> QED BY <1>2, <3>2
  <2>2. CASE t \notin tokens
    BY <1>1, <1>5, <2>2, SignsGrant DEF Life!Next
  <2> QED BY <2>1, <2>2
<1>6. ASSUME NEW S \in SUBSET SessionIds, Deletes(S) PROVE Life!Next
  BY <1>1, <1>6, DeletesClose DEF Life!Next
<1>7. CASE Passes
  BY <1>1, <1>7, PassesLapse DEF Life!Next
<1> QED BY <1>1, <1>2, <1>3, <1>4, <1>5, <1>6, <1>7, StepShapes

\* Sessions implements its contract: whatever interleaves, a session is one user's, its
\* tokens are in force only while it is open, and none comes back into force, but for
\* the sessions that one of the six races has spoiled.
THEOREM SessionsImplementLife == Spec => SessionsLive
<1>1. LifeInv /\ [Next]_vars => [Life!Next]_(Life!vars)
  BY LifeStep
<1> QED BY <1>1, LifeInit, LifeInvInit, LifeInvNext, PTL DEF Spec, SessionsLive, Life!Spec

-----------------------------------------------------------------------------
(* What the contract says of every step.                                   *)

NeverBack == \A t \in tokens : t \notin InForce => t \notin InForce'
EndsForGood ==
    \A i \in SessionIds : State[i] # "none" =>
        Owner'[i] = Owner[i] /\ (State[i] = "closed" => State'[i] = "closed")
InForceIsOpen == \A t \in InForce : State[t.session] = "open"

LEMMA ContractNeverBack == Life!Next => NeverBack
<1> SUFFICES ASSUME Life!Next, NEW t \in tokens, t \in InForce' PROVE t \in InForce
  BY DEF NeverBack
<1>1. ASSUME NEW i \in SessionIds, NEW u \in Users, Life!Open(i, u) PROVE t \in InForce
  BY <1>1 DEF Life!Open
<1>2. ASSUME NEW i \in SessionIds, Life!Block(i) PROVE t \in InForce
  BY <1>2 DEF Life!Block, Life!TakeBack
<1>3. ASSUME NEW s \in Tokens, Life!Grant(s) PROVE t \in InForce
  BY <1>3 DEF Life!Grant, Life!TakeBack
<1>4. ASSUME NEW S \in SUBSET SessionIds, Life!Spoil(S) PROVE t \in InForce
  BY <1>4 DEF Life!Spoil, Life!TakeBack
<1>5. ASSUME NEW S \in SUBSET SessionIds, NEW missed \in SUBSET S, Life!Close(S, missed)
      PROVE  t \in InForce
  BY <1>5 DEF Life!Close, Life!TakeBack
<1>6. CASE Life!Lapse
  BY <1>6 DEF Life!Lapse
<1> QED BY <1>1, <1>2, <1>3, <1>4, <1>5, <1>6 DEF Life!Next

LEMMA ContractEnds == Life!Next => EndsForGood
<1> SUFFICES ASSUME Life!Next, NEW i \in SessionIds, State[i] # "none"
             PROVE  Owner'[i] = Owner[i] /\ (State[i] = "closed" => State'[i] = "closed")
  BY DEF EndsForGood
<1>1. DOMAIN State = SessionIds /\ DOMAIN Owner = SessionIds
  BY DEF State, Owner
<1>2. ASSUME NEW j \in SessionIds, NEW u \in Users, Life!Open(j, u)
      PROVE  State'[i] = State[i] /\ Owner'[i] = Owner[i]
  <2>1. j # i /\ State' = [State EXCEPT ![j] = "open"] /\ Owner' = [Owner EXCEPT ![j] = {u}]
    BY <1>2 DEF Life!Open
  <2> QED BY <2>1 DEF State, Owner
<1>3. ASSUME NEW S \in SUBSET SessionIds, NEW missed \in SUBSET S, Life!Close(S, missed)
      PROVE  Owner'[i] = Owner[i] /\ (State[i] = "closed" => State'[i] = "closed")
  BY <1>3 DEF Life!Close
<1>4. ASSUME \/ \E j \in SessionIds : Life!Block(j)
             \/ \E t \in Tokens : Life!Grant(t)
             \/ \E S \in SUBSET SessionIds : Life!Spoil(S)
             \/ Life!Lapse
      PROVE  State' = State /\ Owner' = Owner
  BY <1>4 DEF Life!Block, Life!Grant, Life!Spoil, Life!Lapse
<1> QED BY <1>2, <1>3, <1>4 DEF Life!Next

LEMMA ContractOpen == TypeOK /\ InForceIsOpen /\ [Life!Next]_(Life!vars) => InForceIsOpen'
<1> SUFFICES ASSUME TypeOK, InForceIsOpen, [Life!Next]_(Life!vars), NEW t \in InForce'
             PROVE  State'[t.session] = "open"
  BY DEF InForceIsOpen
<1>1. ASSUME State' = State, t \in InForce PROVE State'[t.session] = "open"
  BY <1>1 DEF InForceIsOpen
<1>2. ASSUME NEW i \in SessionIds, NEW u \in Users, Life!Open(i, u)
      PROVE  State'[t.session] = "open"
  <2>1. t \in InForce /\ State' = [State EXCEPT ![i] = "open"]
    BY <1>2 DEF Life!Open
  <2>2. State[t.session] = "open" /\ t.session \in SessionIds
    BY <2>1, InForceFacts DEF InForceIsOpen
  <2> QED BY <2>1, <2>2 DEF State
<1>3. ASSUME NEW i \in SessionIds, Life!Block(i) PROVE State'[t.session] = "open"
  BY <1>1, <1>3 DEF Life!Block, Life!TakeBack
<1>4. ASSUME NEW s \in Tokens, Life!Grant(s) PROVE State'[t.session] = "open"
  BY <1>1, <1>4 DEF Life!Grant, Life!TakeBack
<1>5. ASSUME NEW S \in SUBSET SessionIds, Life!Spoil(S) PROVE State'[t.session] = "open"
  BY <1>1, <1>5 DEF Life!Spoil, Life!TakeBack
<1>6. ASSUME NEW S \in SUBSET SessionIds, NEW missed \in SUBSET S, Life!Close(S, missed)
      PROVE  State'[t.session] = "open"
  <2>1. /\ t \in InForce /\ t \notin Life!TokensOf(missed)
        /\ \A s \in InForce : s.session \in S => s.session \in missed
        /\ State' = [i \in SessionIds |-> IF i \in S THEN "closed" ELSE State[i]]
    BY <1>6 DEF Life!Close, Life!TakeBack
  <2>2. t \in Tokens /\ t.session \in SessionIds /\ State[t.session] = "open"
    BY <2>1, InForceFacts DEF InForceIsOpen
  <2>3. t.session \notin S
    BY <2>1, <2>2 DEF Life!TokensOf
  <2> QED BY <2>1, <2>2, <2>3
<1>7. CASE Life!Lapse
  BY <1>1, <1>7 DEF Life!Lapse
<1>8. CASE UNCHANGED Life!vars
  BY <1>1, <1>8 DEF Life!vars
<1> QED BY <1>2, <1>3, <1>4, <1>5, <1>6, <1>7, <1>8 DEF Life!Next

\* A token that was refused for its age or for the blacklist stays refused: no login that
\* reuses the row, no lapse of the blacklist entry and no other revocation brings it back,
\* unless a race has spoiled its session.
THEOREM RefusedTokensStayRefused == Spec => [][NeverBack]_vars
<1>1. LifeInv /\ [Next]_vars => NeverBack
  BY LifeStep, ContractNeverBack
<1> QED BY <1>1, LifeInvInit, LifeInvNext, PTL DEF Spec

\* A deleted session is never revived, and none changes hands.
THEOREM SessionsEndForGood == Spec => [][EndsForGood]_vars
<1>1. LifeInv /\ [Next]_vars => EndsForGood
  BY LifeStep, ContractEnds
<1> QED BY <1>1, LifeInvInit, LifeInvNext, PTL DEF Spec

\* The tokens in force are those of rows that are there, so that their owner can see
\* and revoke them; it follows from the contract alone.
THEOREM TokensInForceAreOpen == Spec => []InForceIsOpen
<1>1. Init => InForceIsOpen
  BY DEF Init, InForce, InForceIsOpen
<1>2. LifeInv => TypeOK
  BY DEF LifeInv, SessionInv
<1>3. LifeInv /\ InForceIsOpen /\ [Next]_vars => InForceIsOpen'
  BY <1>2, LifeStep, ContractOpen
<1> QED BY <1>1, <1>3, LifeInvInit, LifeInvNext, PTL DEF Spec
=============================================================================

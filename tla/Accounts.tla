------------------------------ MODULE Accounts ------------------------------
(***************************************************************************)
(* One user account: registration with a mailed code, password login with  *)
(* an optional second factor, Google login, password reset by a mailed     *)
(* link, password change, the second factor's set-up, and the avatar.      *)
(*                                                                         *)
(* Every handler reads the User row, awaits bcrypt, the mailer, the file   *)
(* storage or another query, and then writes what it decided on: codes,    *)
(* links, secrets and files are replaced and consumed under handlers that  *)
(* still hold the old ones.                                                *)
(***************************************************************************)
EXTENDS FiniteSets, Integers

CONSTANTS
    Handlers,    \* requests that can be in progress at the same time
    CodeLife,    \* the 15 minutes of a code or a link
    Cooldown,    \* the 60 seconds between two resends
    TempLife,    \* the 5 minutes of a token that awaits the second factor
    MaxTime,     \* bound on the clock
    MaxCalls,    \* bound on the requests of a behaviour
    MaxFailures  \* bound on the failing calls and the crashes

ASSUME AccountAssumption ==
    /\ IsFiniteSet(Handlers) /\ Handlers # {}
    /\ {CodeLife, Cooldown, TempLife} \subseteq Nat \ {0}
    /\ {MaxTime, MaxCalls, MaxFailures} \subseteq Nat

VARIABLES
    clock,
    row,        \* the User row
    cooldown,   \* when the otp_cooldown entry in Redis expires
    temp,       \* when the last token that awaits the second factor expires
    loggedIn,   \* whether the owner holds a session
    apps,       \* the secrets that the owner's authenticator has been given
    mailed,     \* the codes and links delivered
    latest,     \* of either kind, the one delivered last
    files,      \* the avatars in the file storage
    call,       \* how far each request is
    serial,     \* codes, links, secrets, passwords and files made so far
    uses,       \* observer: how many passwords each link has set
    stale,      \* observer: password logins granted on credentials replaced since
    resent,     \* observer: when which code was resent
    mixed,      \* observer: the secret was replaced under the code's verification
    crossed,    \* observer: codes and links overtaken or wiped by another request
    lost,       \* observer: what a failure or a crash left behind
    calls, failures

observers == <<uses, stale, resent, mixed, crossed, lost>>
client == <<temp, loggedIn, apps, mailed, latest>>
vars == <<clock, row, cooldown, client, files, call, serial, observers, calls, failures>>

-----------------------------------------------------------------------------
Kinds == {"otp", "link"}
Values == Nat        \* 0 is null
Mails == [value : Values, expires : Nat]
NoMail == [value |-> 0, expires |-> 0]

Rows == [present : BOOLEAN, provider : {"local", "google"}, verified : BOOLEAN,
         password : Values, otp : Mails, link : Mails, secret : Values, totp : BOOLEAN,
         avatar : Values]
NoRow == [present |-> FALSE, provider |-> "local", verified |-> FALSE, password |-> 0,
          otp |-> NoMail, link |-> NoMail, secret |-> 0, totp |-> FALSE, avatar |-> 0]

\* Owners who have come so far: a code that expired, an account, an avatar and a
\* second factor.
Registered == [NoRow EXCEPT !.present = TRUE, !.password = 1]
Established == [Registered EXCEPT !.verified = TRUE]
Secured == [Established EXCEPT !.secret = 2, !.totp = TRUE, !.avatar = 3]

Pcs == {"idle", "create", "otp", "link", "mail", "cool", "grant", "confirm", "reset", "change",
        "setup", "answer", "enable", "disable", "google", "googleCreate", "unlink", "save", "avatar"}
Calls == [pc   : Pcs,
          kind : {"register", "resend", "login", "forget", "other"},
          made : Values,    \* what the request has made
          read : Values,    \* the password, secret or avatar it has read
          mail : Mails]     \* the mail it sends, or the one it was asked with
NoCall == [pc |-> "idle", kind |-> "other", made |-> 0, read |-> 0, mail |-> NoMail]

Become(h, c) == call' = [call EXCEPT ![h] = c]
Goto(h, pc) == Become(h, [call[h] EXCEPT !.pc = pc])
Return(h) == Become(h, NoCall)

Init ==
    /\ clock = 0
    /\ row \in {NoRow, Registered, Established, Secured}
    /\ loggedIn = row.verified
    /\ apps = {row.secret} \ {0}
    /\ files = {row.avatar} \ {0}
    /\ cooldown = 0 /\ temp = 0
    /\ mailed = {} /\ latest = [k \in Kinds |-> NoMail]
    /\ call = [h \in Handlers |-> NoCall]
    /\ serial = 3
    /\ uses = [l \in {} |-> 0] /\ stale = 0 /\ resent = {}
    /\ mixed = FALSE /\ crossed = {} /\ lost = {}
    /\ calls = 0 /\ failures = 0

\* A request begins, reads the row and goes on to pc; it may make a code, a link, a
\* secret, a password or a file.
Begin(h, pc, kind, makes, read, mail) ==
    /\ call[h].pc = "idle" /\ calls < MaxCalls
    /\ calls' = calls + 1
    /\ serial' = IF makes THEN serial + 1 ELSE serial
    /\ Become(h, [pc |-> pc, kind |-> kind, made |-> IF makes THEN serial + 1 ELSE 0,
                  read |-> read, mail |-> mail])
    /\ UNCHANGED <<clock, row, cooldown, files, mailed, latest, loggedIn, apps, observers,
                   failures>>

\* A step of a request in progress that leaves the client alone.
At(h, pc) == call[h].pc = pc /\ UNCHANGED <<clock, client, serial, calls, failures>>

Write(r) == row.present /\ row' = r

-----------------------------------------------------------------------------
(* Registration: the row with its first code, the mail, its confirmation.  *)
Register(h) ==
    /\ ~row.present
    /\ Begin(h, "create", "register", TRUE, 0, NoMail)
    /\ UNCHANGED temp

NewMail(h) == [value |-> call[h].made, expires |-> clock + CodeLife]

\* The address is unique: of two registrations the later create throws.
Create(h) ==
    /\ At(h, "create")
    /\ \/ /\ ~row.present
          /\ row' = [NoRow EXCEPT !.present = TRUE, !.password = call[h].made,
                                  !.otp = NewMail(h)]
          /\ Become(h, [call[h] EXCEPT !.pc = "mail", !.mail = NewMail(h)])
       \/ /\ row.present
          /\ Return(h)
          /\ UNCHANGED row
    /\ UNCHANGED <<cooldown, files, observers>>

\* A resend during the cooldown changes nothing.
Resend(h) ==
    /\ cooldown <= clock
    /\ IF row.present /\ ~row.verified
       THEN Begin(h, "otp", "resend", TRUE, 0, NoMail)
       ELSE Begin(h, "cool", "resend", FALSE, 0, NoMail)
    /\ UNCHANGED temp

WriteOtp(h) ==
    /\ At(h, "otp")
    /\ Write([row EXCEPT !.otp = NewMail(h)])
    /\ Become(h, [call[h] EXCEPT !.pc = "mail", !.mail = NewMail(h)])
    /\ UNCHANGED <<cooldown, files, observers>>

MailKind(h) == IF call[h].kind = "forget" THEN "link" ELSE "otp"
Column(k) == IF k = "otp" THEN row.otp ELSE row.link

\* A mail that is delivered after the row got another code arrives crossed.
Mail(h) ==
    LET k == MailKind(h)
        mail == call[h].mail
    IN /\ call[h].pc = "mail"
       /\ mailed' = mailed \cup {mail.value}
       /\ latest' = [latest EXCEPT ![k] = mail]
       /\ crossed' = crossed \cup {v \in {mail.value} : v # Column(k).value}
       /\ resent' = resent \cup {[code |-> mail.value, time |-> clock] :
                                    kind \in {call[h].kind} \cap {"resend"}}
       /\ IF call[h].kind = "resend" THEN Goto(h, "cool") ELSE Return(h)
       /\ UNCHANGED <<clock, row, cooldown, temp, loggedIn, apps, files, serial, uses, stale,
                      mixed, lost, calls, failures>>

\* Mutant: the cooldown is over as soon as it begins.
CoolNothing(h) ==
    /\ At(h, "cool")
    /\ cooldown' = clock
    /\ Return(h)
    /\ UNCHANGED <<row, files, observers>>

Cool(h) ==
    /\ At(h, "cool")
    /\ cooldown' = clock + Cooldown
    /\ Return(h)
    /\ UNCHANGED <<row, files, observers>>

Works(mail) == mail.value \in mailed /\ mail.expires > clock

VerifyRegisterOtp(h) ==
    /\ row.present /\ ~row.verified /\ Works(row.otp)
    /\ Begin(h, "confirm", "other", FALSE, 0, row.otp)
    /\ UNCHANGED temp

Confirm(h) ==
    /\ At(h, "confirm")
    /\ Write([row EXCEPT !.verified = TRUE, !.otp = NoMail])
    /\ Return(h)
    /\ UNCHANGED <<cooldown, files, observers>>

-----------------------------------------------------------------------------
(* Login.                                                                  *)
HasPassword == row.present /\ row.provider = "local" /\ row.password # 0

\* Mutant: the second factor is not asked for.
LoginByPassword(h) ==
    /\ HasPassword
    /\ IF row.verified THEN Begin(h, "grant", "login", FALSE, row.password, NoMail)
       ELSE Begin(h, "otp", "login", TRUE, row.password, NoMail)
    /\ UNCHANGED temp

\* With the right password.  An unverified account is sent a new code, one with a
\* second factor gets a token that awaits it.
Login(h) ==
    /\ HasPassword
    /\ \/ ~row.verified /\ Begin(h, "otp", "login", TRUE, row.password, NoMail)
          /\ UNCHANGED temp
       \/ row.verified /\ ~row.totp /\ Begin(h, "grant", "login", FALSE, row.password, NoMail)
          /\ UNCHANGED temp
       \/ /\ row.verified /\ row.totp
          /\ call[h].pc = "idle" /\ calls < MaxCalls
          /\ calls' = calls + 1
          /\ temp' = clock + TempLife
          /\ UNCHANGED <<clock, row, cooldown, loggedIn, apps, mailed, latest, files, call,
                         serial, observers, failures>>

\* With the code that the owner's authenticator makes of the row's secret.
Verify2FA(h) ==
    /\ row.present /\ temp > clock
    /\ row.totp /\ row.secret \in apps
    /\ Begin(h, "grant", "other", FALSE, 0, NoMail)
    /\ UNCHANGED temp

\* The session of generateJWT.  What a password login has read may have changed.
Grant(h) ==
    /\ call[h].pc = "grant"
    /\ loggedIn' = TRUE
    /\ stale' = IF call[h].kind = "login" /\ (call[h].read # row.password \/ row.totp)
                THEN stale + 1 ELSE stale
    /\ Return(h)
    /\ UNCHANGED <<clock, row, cooldown, temp, apps, mailed, latest, files, serial, uses,
                   resent, mixed, crossed, lost, calls, failures>>

\* A Google account of the same address is linked, or the account created.
GoogleLogin(h) ==
    /\ Begin(h, IF row.present THEN "google" ELSE "googleCreate", "other", FALSE, 0, NoMail)
    /\ UNCHANGED temp

GoogleLink(h) ==
    /\ At(h, "google")
    /\ Write([row EXCEPT !.verified = TRUE])
    /\ Goto(h, "grant")
    /\ UNCHANGED <<cooldown, files, observers>>

GoogleCreate(h) ==
    /\ At(h, "googleCreate")
    /\ \/ /\ ~row.present
          /\ row' = [NoRow EXCEPT !.present = TRUE, !.provider = "google", !.verified = TRUE]
          /\ Goto(h, "grant")
       \/ /\ row.present
          /\ Return(h)
          /\ UNCHANGED row
    /\ UNCHANGED <<cooldown, files, observers>>

-----------------------------------------------------------------------------
(* Passwords.                                                              *)
ForgetPassword(h) ==
    /\ row.present
    /\ Begin(h, "link", "forget", TRUE, 0, NoMail)
    /\ UNCHANGED temp

\* Mutant: a link that replaces another one keeps its expiry.
WriteLinkUnrenewed(h) ==
    /\ At(h, "link")
    /\ Write([row EXCEPT !.link = [NewMail(h) EXCEPT
                            !.expires = IF row.link = NoMail THEN @ ELSE row.link.expires]])
    /\ Become(h, [call[h] EXCEPT !.pc = "mail", !.mail = NewMail(h)])
    /\ UNCHANGED <<cooldown, files, observers>>

WriteLink(h) ==
    /\ At(h, "link")
    /\ Write([row EXCEPT !.link = NewMail(h)])
    /\ Become(h, [call[h] EXCEPT !.pc = "mail", !.mail = NewMail(h)])
    /\ UNCHANGED <<cooldown, files, observers>>

ResetPassword(h) ==
    /\ row.present /\ Works(row.link)
    /\ Begin(h, "reset", "other", TRUE, 0, row.link)
    /\ UNCHANGED temp

Used(l) == IF l \in DOMAIN uses THEN uses[l] ELSE 0
CountUse(l) == [k \in DOMAIN uses \cup {l} |-> IF k = l THEN Used(l) + 1 ELSE uses[k]]

\* Mutant: the link stays.
SetPasswordOnly(h) ==
    /\ At(h, "reset")
    /\ Write([row EXCEPT !.password = call[h].made])
    /\ uses' = CountUse(call[h].mail.value)
    /\ stale' = 0
    /\ Return(h)
    /\ UNCHANGED <<cooldown, files, resent, mixed, crossed, lost>>

\* Whatever link the row holds by now is cleared.
SetPassword(h) ==
    /\ At(h, "reset")
    /\ Write([row EXCEPT !.password = call[h].made, !.link = NoMail])
    /\ uses' = CountUse(call[h].mail.value)
    /\ crossed' = IF row.link.value \in {0, call[h].mail.value} THEN crossed
                  ELSE crossed \cup {row.link.value, latest["link"].value}
    /\ stale' = 0
    /\ Return(h)
    /\ UNCHANGED <<cooldown, files, resent, mixed, lost>>

ChangePassword(h) ==
    /\ loggedIn /\ HasPassword
    /\ Begin(h, "change", "other", TRUE, row.password, NoMail)
    /\ UNCHANGED temp

WritePassword(h) ==
    /\ At(h, "change")
    /\ Write([row EXCEPT !.password = call[h].made])
    /\ stale' = 0
    /\ Return(h)
    /\ UNCHANGED <<cooldown, files, uses, resent, mixed, crossed, lost>>

-----------------------------------------------------------------------------
(* The second factor.                                                      *)
\* Mutant: a new secret although the factor is on.
Setup2FAAgain(h) ==
    /\ loggedIn /\ row.present
    /\ Begin(h, "setup", "other", TRUE, 0, NoMail)
    /\ UNCHANGED temp

Setup2FA(h) ==
    /\ loggedIn /\ row.present /\ ~row.totp
    /\ Begin(h, "setup", "other", TRUE, 0, NoMail)
    /\ UNCHANGED temp

WriteSecret(h) ==
    /\ At(h, "setup")
    /\ Write([row EXCEPT !.secret = call[h].made])
    /\ Goto(h, "answer")
    /\ UNCHANGED <<cooldown, files, observers>>

AnswerSecret(h) ==
    /\ call[h].pc = "answer"
    /\ apps' = apps \cup {call[h].made}
    /\ Return(h)
    /\ UNCHANGED <<clock, row, cooldown, temp, loggedIn, mailed, latest, files, serial,
                   observers, calls, failures>>

\* With a code of the secret that the row holds when it is read.
Enable2FA(h) ==
    /\ loggedIn /\ row.present /\ ~row.totp /\ row.secret \in apps
    /\ Begin(h, "enable", "other", FALSE, row.secret, NoMail)
    /\ UNCHANGED temp

WriteEnabled(h) ==
    /\ At(h, "enable")
    /\ Write([row EXCEPT !.totp = TRUE])
    /\ mixed' = (row.secret # call[h].read \/ \E g \in Handlers : call[g].pc = "setup")
    /\ stale' = 0
    /\ Return(h)
    /\ UNCHANGED <<cooldown, files, uses, resent, crossed, lost>>

Disable2FA(h) ==
    /\ loggedIn /\ row.present /\ row.totp /\ row.secret \in apps
    /\ Begin(h, "disable", "other", FALSE, row.secret, NoMail)
    /\ UNCHANGED temp

WriteDisabled(h) ==
    /\ At(h, "disable")
    /\ Write([row EXCEPT !.totp = FALSE, !.secret = 0])
    /\ mixed' = FALSE /\ stale' = 0
    /\ Return(h)
    /\ UNCHANGED <<cooldown, files, uses, resent, crossed, lost>>

-----------------------------------------------------------------------------
(* The avatar: the old file goes before the new one comes.  The storage's   *)
(* refusal to delete is swallowed.                                         *)
EditProfile(h) ==
    /\ loggedIn /\ row.present
    /\ \E upload \in BOOLEAN : Begin(h, "unlink", "other", upload, row.avatar, NoMail)
    /\ UNCHANGED temp

DeleteFile(h) ==
    /\ At(h, "unlink")
    /\ files' \in {files, files \ {call[h].read}}
    /\ Goto(h, IF call[h].made = 0 THEN "avatar" ELSE "save")
    /\ UNCHANGED <<row, cooldown, observers>>

SaveFile(h) ==
    /\ At(h, "save")
    /\ files' = files \cup {call[h].made}
    /\ Goto(h, "avatar")
    /\ UNCHANGED <<row, cooldown, observers>>

\* Mutant: only a new avatar is written.
WriteNewAvatar(h) ==
    /\ At(h, "avatar")
    /\ Write([row EXCEPT !.avatar = IF call[h].made = 0 THEN @ ELSE call[h].made])
    /\ Return(h)
    /\ UNCHANGED <<cooldown, files, observers>>

WriteAvatar(h) ==
    /\ At(h, "avatar")
    /\ Write([row EXCEPT !.avatar = call[h].made])
    /\ Return(h)
    /\ UNCHANGED <<cooldown, files, observers>>

-----------------------------------------------------------------------------
(* A call throws, or the server dies: what was done so far stays.          *)
Left(c) ==
    CASE c.pc = "mail" -> {c.mail.value}
      [] c.pc \in {"save", "avatar"} -> {c.read} \ {0}
      [] OTHER -> {}

Fail(h) ==
    /\ call[h].pc # "idle" /\ failures < MaxFailures
    /\ failures' = failures + 1
    /\ lost' = lost \cup Left(call[h])
    /\ Return(h)
    /\ UNCHANGED <<clock, row, cooldown, client, files, serial, uses, stale, resent, mixed,
                   crossed, calls>>

\* A crash fails every request in progress.
Crash ==
    /\ failures < MaxFailures
    /\ failures' = failures + Cardinality({h \in Handlers : call[h].pc # "idle"})
    /\ lost' = lost \cup UNION {Left(call[h]) : h \in Handlers}
    /\ call' = [h \in Handlers |-> NoCall]
    /\ UNCHANGED <<clock, row, cooldown, client, files, serial, uses, stale, resent, mixed,
                   crossed, calls>>

Tick ==
    /\ clock < MaxTime
    /\ clock' = clock + 1
    /\ UNCHANGED <<row, cooldown, client, files, call, serial, observers, calls, failures>>

Requested(h) ==
    \/ Register(h) \/ Resend(h) \/ VerifyRegisterOtp(h) \/ Login(h) \/ Verify2FA(h)
    \/ GoogleLogin(h) \/ ForgetPassword(h) \/ ResetPassword(h) \/ ChangePassword(h)
    \/ Setup2FA(h) \/ Enable2FA(h) \/ Disable2FA(h) \/ EditProfile(h)

Proceed(h) ==
    \/ Create(h) \/ WriteOtp(h) \/ Mail(h) \/ Cool(h) \/ Confirm(h) \/ Grant(h)
    \/ GoogleLink(h) \/ GoogleCreate(h) \/ WriteLink(h) \/ SetPassword(h)
    \/ WritePassword(h) \/ WriteSecret(h) \/ AnswerSecret(h) \/ WriteEnabled(h)
    \/ WriteDisabled(h) \/ DeleteFile(h) \/ SaveFile(h) \/ WriteAvatar(h) \/ Fail(h)

Next == (\E h \in Handlers : Requested(h) \/ Proceed(h)) \/ Crash \/ Tick

Spec == Init /\ [][Next]_vars
-----------------------------------------------------------------------------
TypeOK ==
    /\ clock \in Nat /\ row \in Rows
    /\ cooldown \in 0..clock + Cooldown /\ temp \in 0..clock + TempLife
    /\ loggedIn \in BOOLEAN
    /\ apps \subseteq 1..serial /\ mailed \subseteq 1..serial /\ files \subseteq 1..serial
    /\ latest \in [Kinds -> Mails]
    /\ call \in [Handlers -> Calls] /\ \A h \in Handlers : call[h].made <= serial
    /\ {row.otp.expires, row.link.expires} \subseteq 0..clock + CodeLife
    /\ {row.otp.value, row.link.value, row.secret, row.password, row.avatar} \subseteq 0..serial
    /\ serial \in Nat /\ calls \in Nat /\ failures \in Nat

\* The code or link that reached the owner last is the one the row accepts until it is
\* used or expires: unless a newer one is on its way or was lost, or another request
\* overtook its mail or wiped it (resend, login and forgetPassword each replace the
\* column and mail in separate calls).
NewestMailWorks ==
    \A k \in Kinds :
        LET m == latest[k]
        IN /\ m.value # 0 /\ clock < m.expires /\ m.value \notin crossed
           /\ m.value \notin DOMAIN uses
           /\ k = "otp" => ~row.verified
           => \/ Column(k) = m
              \/ Column(k).value \in lost
              \/ \E h \in Handlers : call[h].pc = "mail" /\ call[h].mail = Column(k)

\* A reset link sets no more passwords than requests that held it at the same time:
\* resetPassword clears it only after hashing the new password.
LinkUsesBounded == \A l \in DOMAIN uses : uses[l] <= Cardinality(Handlers)

\* Once password or second factor are replaced, only logins already on their way are
\* granted a session on what they had read before.
StaleLoginsBounded == stale < Cardinality(Handlers)

\* Whoever has the second factor switched on can pass it: the row's secret is one that
\* the owner's authenticator was given, unless another setup or a removal crossed the
\* verification that switched it on.
SecondFactorUsable == row.totp /\ ~mixed => row.secret \in apps

\* "Rate-limited to once per 60 seconds" (auth.controller.ts): each request in progress
\* may have passed the check before, and a failed one leaves no cooldown.
ResendsSpaced ==
    \A t \in 0..MaxTime :
        Cardinality({r \in resent : r.time \in t..t + Cooldown - 1})
            <= Cardinality(Handlers) + failures

\* The account's avatar is in the file storage, but while a request replaces it or when
\* one that had deleted it failed.
AvatarStored ==
    row.avatar \in {0} \cup files \cup lost
        \cup {call[h].read : h \in {g \in Handlers : call[g].pc \in {"save", "avatar"}}}
=============================================================================

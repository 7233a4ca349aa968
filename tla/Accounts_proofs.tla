--------------------------- MODULE Accounts_proofs ---------------------------
(***************************************************************************)
(* Theorems about Accounts, for every number of concurrent requests, every *)
(* life of codes, cooldowns and tokens, and every number of failures.      *)
(***************************************************************************)
EXTENDS Accounts, FiniteSetTheorems, TLAPS

-----------------------------------------------------------------------------
(* The inductive invariant.                                                *)

Makers == {"create", "otp", "link", "change", "reset", "setup", "answer", "save"}

\* A request holds what was made before, and has made what it is about to write.
CallOK(c) ==
    /\ c.made <= serial /\ c.read <= serial /\ c.mail.value <= serial
    /\ c.pc \in Makers => c.made # 0
    /\ c.pc \in {"mail", "reset"} => c.mail.value # 0
    /\ c.pc \in {"google", "googleCreate"} => c.kind # "login"
    /\ c.pc = "enable" => c.read \in apps
    /\ ~row.present => c.pc \in {"idle", "create", "cool", "googleCreate"}

CallsOK == \A h \in Handlers : CallOK(call[h])

\* Nothing is made twice.
Distinct ==
    \A g, h \in Handlers : g # h /\ call[h].made # 0 => call[g].made # call[h].made

\* A second factor that is on cannot lose the secret it was switched on with.
FactorSafe ==
    row.totp /\ ~mixed => row.secret \in apps /\ \A h \in Handlers : call[h].pc # "setup"

\* Logins on their way whose credentials were replaced since they read them.
Obsolete == {h \in Handlers : /\ call[h].pc = "grant" /\ call[h].kind = "login"
                              /\ call[h].read # row.password \/ row.totp}
LoginsCounted == stale \in Nat /\ stale + Cardinality(Obsolete) < Cardinality(Handlers)

\* A link that has set a password is in nobody's hands but those who had it before.
Holders(l) == {h \in Handlers : call[h].pc = "reset" /\ call[h].mail.value = l}
Spent(l) ==
    /\ l # 0 /\ l <= serial /\ l # row.link.value
    /\ \A h \in Handlers : call[h].pc = "link" => call[h].made # l
UsesCounted ==
    \A l \in DOMAIN uses :
        l \in Nat /\ uses[l] \in Nat /\ uses[l] + Cardinality(Holders(l)) <= Cardinality(Handlers)
LinksSpent ==
    /\ \A l \in DOMAIN uses : Spent(l)
    /\ \A g, h \in Handlers : call[g].pc = "link" =>
          /\ call[g].made # row.link.value
          /\ call[h].pc = "reset" => call[g].made # call[h].mail.value

\* An upload in progress is nobody's avatar yet.
Uploading(h) == call[h].pc \in {"unlink", "save", "avatar"} /\ call[h].made # 0
UploadsSafe ==
    \A h \in Handlers : Uploading(h) =>
        /\ call[h].made # row.avatar
        /\ \A g \in Handlers : call[g].pc = "unlink" => call[g].read # call[h].made
        /\ call[h].pc = "avatar" => call[h].made \in files

Rest == FactorSafe /\ LoginsCounted /\ UsesCounted /\ LinksSpent /\ UploadsSafe /\ AvatarStored
Basis == TypeOK /\ CallsOK /\ Distinct
IInv == Basis /\ Rest

-----------------------------------------------------------------------------
(* Values.                                                                 *)

LEMMA Constants ==
    /\ IsFiniteSet(Handlers) /\ Cardinality(Handlers) \in Nat /\ Cardinality(Handlers) # 0
    /\ CodeLife \in Nat \ {0} /\ Cooldown \in Nat \ {0} /\ TempLife \in Nat \ {0}
BY AccountAssumption, FS_CardinalityType, FS_EmptySet

LEMMA NoCallType ==
    /\ NoCall \in Calls /\ NoCall.pc = "idle" /\ NoCall.made = 0 /\ NoCall.read = 0
    /\ NoCall.mail = NoMail /\ NoMail \in Mails /\ NoMail.value = 0 /\ NoMail.expires = 0
BY DEF NoCall, Calls, NoMail, Mails, Values, Pcs

LEMMA RowTypes ==
    /\ NoRow \in Rows /\ Registered \in Rows /\ Established \in Rows /\ Secured \in Rows
    /\ ~NoRow.present /\ NoRow.link = NoMail /\ NoRow.otp = NoMail /\ ~NoRow.totp
    /\ NoRow.secret = 0 /\ NoRow.password = 0 /\ NoRow.avatar = 0
BY NoCallType DEF NoRow, Registered, Established, Secured, Rows, Values

LEMMA CallTypes ==
    ASSUME TypeOK, NEW h \in Handlers
    PROVE  /\ call[h] \in Calls /\ call[h].made \in Nat /\ call[h].read \in Nat
           /\ call[h].mail \in Mails /\ call[h].mail.value \in Nat
           /\ call[h].mail.expires \in Nat /\ call[h].made <= serial
BY DEF TypeOK, Calls, Values, Mails

LEMMA RowFields ==
    ASSUME TypeOK
    PROVE  /\ row \in Rows /\ row.otp \in Mails /\ row.link \in Mails
           /\ row.otp.value \in Nat /\ row.link.value \in Nat
           /\ row.secret \in Nat /\ row.password \in Nat /\ row.avatar \in Nat
           /\ row.secret <= serial /\ row.password <= serial /\ row.avatar <= serial
           /\ row.otp.value <= serial /\ row.link.value <= serial
           /\ row.otp.expires <= clock + CodeLife /\ row.link.expires <= clock + CodeLife
           /\ serial \in Nat /\ clock \in Nat
           /\ row.totp \in BOOLEAN /\ row.present \in BOOLEAN
BY DEF TypeOK, Rows, Mails, Values

LEMMA NewMailType ==
    ASSUME TypeOK, NEW h \in Handlers
    PROVE  /\ NewMail(h) \in Mails /\ NewMail(h).value = call[h].made
           /\ NewMail(h).expires = clock + CodeLife
BY CallTypes, RowFields, Constants DEF NewMail, Mails, Values

LEMMA BecomeEffect ==
    ASSUME TypeOK, NEW h \in Handlers, NEW c \in Calls, Become(h, c)
    PROVE  /\ call' \in [Handlers -> Calls] /\ call'[h] = c
           /\ \A g \in Handlers \ {h} : call'[g] = call[g]
BY DEF TypeOK, Become

LEMMA GotoEffect ==
    ASSUME TypeOK, NEW h \in Handlers, NEW pc \in Pcs, Goto(h, pc)
    PROVE  /\ call' \in [Handlers -> Calls] /\ call'[h].pc = pc
           /\ call'[h].made = call[h].made /\ call'[h].read = call[h].read
           /\ call'[h].mail = call[h].mail /\ call'[h].kind = call[h].kind
           /\ \A g \in Handlers \ {h} : call'[g] = call[g]
<1>1. call[h] \in Calls
  BY CallTypes
<1>2. [call[h] EXCEPT !.pc = pc] \in Calls
  BY <1>1 DEF Calls
<1> QED BY <1>1, <1>2, BecomeEffect DEF Goto, Calls

LEMMA ReturnEffect ==
    ASSUME TypeOK, NEW h \in Handlers, Return(h)
    PROVE  /\ call' \in [Handlers -> Calls] /\ call'[h] = NoCall
           /\ \A g \in Handlers \ {h} : call'[g] = call[g]
BY NoCallType, BecomeEffect DEF Return

\* What the request sends next.
LEMMA SendEffect ==
    ASSUME TypeOK, NEW h \in Handlers,
           Become(h, [call[h] EXCEPT !.pc = "mail", !.mail = NewMail(h)])
    PROVE  /\ call' \in [Handlers -> Calls] /\ call'[h].pc = "mail"
           /\ call'[h].made = call[h].made /\ call'[h].read = call[h].read
           /\ call'[h].mail = NewMail(h) /\ call'[h].kind = call[h].kind
           /\ \A g \in Handlers \ {h} : call'[g] = call[g]
<1>1. call[h] \in Calls /\ NewMail(h) \in Mails /\ "mail" \in Pcs
  BY CallTypes, NewMailType DEF Pcs
<1> DEFINE c == [call[h] EXCEPT !.pc = "mail", !.mail = NewMail(h)]
<1>2. /\ c \in Calls /\ c.pc = "mail" /\ c.made = call[h].made /\ c.read = call[h].read
      /\ c.mail = NewMail(h) /\ c.kind = call[h].kind
  BY <1>1 DEF Calls
<1>3. Become(h, c)
  OBVIOUS
<1> HIDE DEF c
<1> QED BY <1>2, <1>3, BecomeEffect

-----------------------------------------------------------------------------
(* What steps that are none of an invariant's business leave it.           *)

OthersWait(h) == \A g \in Handlers \ {h} : call'[g] = call[g]

LEMMA FactorKept ==
    ASSUME FactorSafe, NEW h \in Handlers, OthersWait(h),
           row'.totp = row.totp, row'.secret = row.secret, mixed' = mixed,
           apps \subseteq apps',
           call'[h].pc = "setup" => call[h].pc = "setup" \/ ~row.totp
    PROVE  FactorSafe'
BY DEF FactorSafe, OthersWait

LEMMA ObsoleteFinite ==
    /\ IsFiniteSet(Obsolete) /\ Cardinality(Obsolete) \in Nat
    /\ Cardinality(Obsolete) <= Cardinality(Handlers)
<1>1. Obsolete \subseteq Handlers
  BY DEF Obsolete
<1> QED BY <1>1, Constants, FS_Subset, FS_CardinalityType

LEMMA LoginsKept ==
    ASSUME LoginsCounted, NEW h \in Handlers, OthersWait(h),
           row'.password = row.password, row'.totp = row.totp, stale' = stale,
           ~(call'[h].pc = "grant" /\ call'[h].kind = "login")
    PROVE  LoginsCounted'
<1>1. Obsolete' \subseteq Obsolete
  BY DEF Obsolete, OthersWait
<1>2. Cardinality(Obsolete') <= Cardinality(Obsolete) /\ Cardinality(Obsolete') \in Nat
  BY <1>1, ObsoleteFinite, FS_Subset, FS_CardinalityType
<1> QED BY <1>2, ObsoleteFinite, Constants DEF LoginsCounted

LEMMA HoldersFinite ==
    ASSUME NEW l
    PROVE  /\ IsFiniteSet(Holders(l)) /\ Cardinality(Holders(l)) \in Nat
           /\ Cardinality(Holders(l)) <= Cardinality(Handlers)
<1>1. Holders(l) \subseteq Handlers
  BY DEF Holders
<1> QED BY <1>1, Constants, FS_Subset, FS_CardinalityType

LEMMA UsesKept ==
    ASSUME UsesCounted, NEW h \in Handlers, OthersWait(h), uses' = uses,
           call'[h].pc # "reset"
    PROVE  UsesCounted'
<1> SUFFICES ASSUME NEW l \in DOMAIN uses
             PROVE  /\ l \in Nat /\ uses[l] \in Nat
                    /\ uses[l] + Cardinality(Holders(l)') <= Cardinality(Handlers)
  BY DEF UsesCounted
<1>1. Holders(l)' \subseteq Holders(l)
  BY DEF Holders, OthersWait
<1>2. Cardinality(Holders(l)') <= Cardinality(Holders(l)) /\ Cardinality(Holders(l)') \in Nat
  BY <1>1, HoldersFinite, FS_Subset, FS_CardinalityType
<1> QED BY <1>2, HoldersFinite, Constants DEF UsesCounted

LEMMA SpentKept ==
    ASSUME Basis, UsesCounted, LinksSpent, NEW h \in Handlers, OthersWait(h), uses' = uses,
           row'.link = row.link, serial' \in Nat, serial <= serial',
           call'[h].pc # "reset",
           call'[h].pc = "link" => call'[h].made = serial + 1
    PROVE  LinksSpent'
<1>1. serial \in Nat /\ row.link.value <= serial /\ row.link.value \in Nat
  BY RowFields DEF Basis
<1>2. \A g \in Handlers : call[g].mail.value <= serial /\ call[g].mail.value \in Nat
  BY CallTypes DEF Basis, CallsOK, CallOK
<1>3. ASSUME NEW l \in DOMAIN uses PROVE Spent(l)'
  BY <1>1, <1>3 DEF UsesCounted, LinksSpent, Spent, OthersWait
<1>4. ASSUME NEW g \in Handlers, NEW k \in Handlers, call'[g].pc = "link"
      PROVE  call'[g].made # row'.link.value
             /\ (call'[k].pc = "reset" => call'[g].made # call'[k].mail.value)
  <2>1. CASE g = h
    <3>1. call'[g].made = serial + 1
      BY <1>4, <2>1
    <3>2. call'[k].pc = "reset" => call'[k].mail.value <= serial /\ call'[k].mail.value \in Nat
      BY <1>2 DEF OthersWait
    <3> QED BY <1>1, <3>1, <3>2
  <2>2. CASE g # h
    BY <1>4, <2>2 DEF LinksSpent, OthersWait
  <2> QED BY <2>1, <2>2
<1> QED BY <1>3, <1>4 DEF LinksSpent

LEMMA UploadsKept ==
    ASSUME UploadsSafe, NEW h \in Handlers, OthersWait(h),
           row'.avatar = row.avatar, files' = files,
           call'[h].pc \notin {"unlink", "save", "avatar"}
    PROVE  UploadsSafe'
BY DEF UploadsSafe, Uploading, OthersWait

LEMMA AvatarKept ==
    ASSUME AvatarStored, NEW h \in Handlers, OthersWait(h),
           row'.avatar = row.avatar, files' = files, lost \subseteq lost',
           call[h].pc \in {"save", "avatar"} => call[h].read \in lost' \cup {0}
    PROVE  AvatarStored'
BY DEF AvatarStored, OthersWait

\* Most steps.
LEMMA RestKept ==
    ASSUME IInv, NEW h \in Handlers, OthersWait(h),
           row'.totp = row.totp, row'.secret = row.secret, row'.password = row.password,
           row'.link = row.link, row'.avatar = row.avatar,
           UNCHANGED <<files, uses, stale, mixed>>,
           apps \subseteq apps', lost \subseteq lost', serial' \in Nat, serial <= serial',
           call'[h].pc \notin {"reset", "unlink", "save", "avatar"},
           call'[h].pc = "setup" => ~row.totp,
           call'[h].pc = "link" => call'[h].made = serial + 1,
           ~(call'[h].pc = "grant" /\ call'[h].kind = "login"),
           call[h].pc \in {"save", "avatar"} => call[h].read \in lost' \cup {0}
    PROVE  Rest'
BY FactorKept, LoginsKept, UsesKept, SpentKept, UploadsKept, AvatarKept DEF IInv, Rest

-----------------------------------------------------------------------------
(* The basis.                                                              *)

\* One request moves on: the rest of the basis follows from what it is now.
LEMMA CallsKept ==
    ASSUME Basis, NEW h \in Handlers, OthersWait(h), CallOK(call[h])',
           serial' \in Nat, serial <= serial', apps \subseteq apps',
           row.present => row'.present,
           call'[h].made \in {0, call[h].made, serial + 1}
    PROVE  CallsOK' /\ Distinct'
<1>1. serial \in Nat /\ \A g \in Handlers : call[g].made \in Nat /\ call[g].made <= serial
                     /\ call[g].read \in Nat /\ call[g].mail.value \in Nat
  BY CallTypes, RowFields DEF Basis
<1>2. ASSUME NEW g \in Handlers \ {h} PROVE CallOK(call[g])'
  <2>1. CallOK(call[g]) /\ call'[g] = call[g]
    BY DEF Basis, CallsOK, OthersWait
  <2> QED BY <1>1, <2>1 DEF CallOK
<1>3. Distinct'
  BY <1>1 DEF Basis, Distinct, OthersWait
<1> QED BY <1>2, <1>3 DEF CallsOK

KindsOfCall == {"register", "resend", "login", "forget", "other"}

\* A request that begins, with what it may begin with.
Sensible(pc, kind, makes, read, mail) ==
    /\ pc \in Pcs /\ kind \in KindsOfCall /\ makes \in BOOLEAN
    /\ read \in 0..serial /\ mail \in Mails /\ mail.value <= serial
    /\ pc \in Makers => makes
    /\ pc # "mail" /\ (pc = "reset" => mail.value # 0)
    /\ pc \in {"google", "googleCreate"} => kind # "login"
    /\ pc = "enable" => read \in apps
    /\ ~row.present => pc \in {"idle", "create", "cool", "googleCreate"}

LEMMA BeginEffect ==
    ASSUME Basis, NEW h \in Handlers, NEW pc, NEW kind, NEW makes, NEW read, NEW mail,
           Sensible(pc, kind, makes, read, mail),
           Begin(h, pc, kind, makes, read, mail),
           temp' \in 0..clock + TempLife
    PROVE  /\ Basis' /\ OthersWait(h)
           /\ call[h].pc = "idle" /\ call'[h].pc = pc /\ call'[h].kind = kind
           /\ call'[h].read = read /\ call'[h].mail = mail
           /\ call'[h].made = IF makes THEN serial + 1 ELSE 0
           /\ serial' \in Nat /\ serial <= serial'
           /\ UNCHANGED <<row, files, uses, stale, mixed, apps, lost>>
<1> DEFINE made == IF makes THEN serial + 1 ELSE 0
<1> DEFINE c == [pc |-> pc, kind |-> kind, made |-> made, read |-> read, mail |-> mail]
<1>0. /\ UNCHANGED <<clock, row, cooldown, files, mailed, latest, loggedIn, apps, failures>>
      /\ UNCHANGED <<uses, stale, resent, mixed, crossed, lost>>
      /\ serial' = (IF makes THEN serial + 1 ELSE serial) /\ calls' = calls + 1
      /\ call[h].pc = "idle" /\ Become(h, c)
  BY DEF Begin, observers
<1>1. TypeOK /\ serial \in Nat /\ read \in Nat /\ mail.value \in Nat
  BY RowFields DEF Basis, Sensible, Mails, Values
<1>2. made \in Nat /\ made <= serial' /\ serial' \in Nat /\ serial <= serial'
  BY <1>0, <1>1 DEF Sensible
<1>3. /\ c \in Calls /\ c.pc = pc /\ c.kind = kind /\ c.made = made /\ c.read = read
      /\ c.mail = mail
  BY <1>1, <1>2 DEF Calls, Values, Sensible, KindsOfCall
<1>4. call' \in [Handlers -> Calls] /\ call'[h] = c /\ OthersWait(h)
  <2> HIDE DEF c
  <2> QED BY <1>0, <1>1, <1>3, BecomeEffect DEF OthersWait
<1>5. CallOK(call[h])'
  <2>1. /\ made <= serial' /\ read <= serial' /\ mail.value <= serial'
        /\ made # 0 \/ pc \notin Makers
    BY <1>0, <1>1, <1>2 DEF Sensible
  <2>2. /\ pc \in {"mail", "reset"} => mail.value # 0
        /\ pc \in {"google", "googleCreate"} => kind # "login"
        /\ pc = "enable" => read \in apps'
        /\ ~row'.present => pc \in {"idle", "create", "cool", "googleCreate"}
    BY <1>0 DEF Sensible
  <2> HIDE DEF c, made
  <2> QED BY <1>3, <1>4, <2>1, <2>2 DEF CallOK
<1>6. CallsOK' /\ Distinct'
  <2>1. call'[h].made \in {0, call[h].made, serial + 1}
    BY <1>3, <1>4
  <2> QED BY <1>0, <1>2, <1>4, <1>5, <2>1, CallsKept
<1>7. TypeOK'
  <2>1. \A g \in Handlers : call'[g].made <= serial'
    BY <1>6 DEF CallsOK, CallOK
  <2>2. /\ apps' \subseteq 1..serial' /\ mailed' \subseteq 1..serial' /\ files' \subseteq 1..serial'
        /\ {row'.otp.value, row'.link.value, row'.secret, row'.password, row'.avatar}
              \subseteq 0..serial'
    BY <1>0, <1>1, <1>2 DEF TypeOK
  <2> QED BY <1>0, <1>1, <1>2, <1>4, <2>1, <2>2 DEF TypeOK
<1> QED BY <1>0, <1>2, <1>3, <1>4, <1>6, <1>7 DEF Basis

Began(h, pc, read, mail) ==
    /\ Basis' /\ OthersWait(h)
    /\ call[h].pc = "idle" /\ call'[h].pc = pc
    /\ call'[h].read = read /\ call'[h].mail = mail
    /\ serial' \in Nat /\ serial <= serial'
    /\ UNCHANGED <<row, files, uses, stale, mixed, apps, lost>>

LEMMA BeginSafe ==
    ASSUME Basis, NEW h \in Handlers, NEW pc, NEW kind, NEW makes, NEW read, NEW mail,
           Sensible(pc, kind, makes, read, mail),
           Begin(h, pc, kind, makes, read, mail),
           temp' \in 0..clock + TempLife
    PROVE  Began(h, pc, read, mail)
BY BeginEffect DEF Began

LEMMA MakesNothing == NoMail \in Mails /\ NoMail.value = 0
BY NoCallType

-----------------------------------------------------------------------------
(* Requests.                                                               *)

LEMMA PlainBegin ==
    ASSUME IInv, NEW h \in Handlers, NEW pc, NEW kind, NEW makes, NEW read, NEW mail,
           Sensible(pc, kind, makes, read, mail),
           Begin(h, pc, kind, makes, read, mail),
           temp' \in 0..clock + TempLife,
           pc \notin {"reset", "unlink", "save", "avatar"},
           pc = "setup" => ~row.totp,
           ~(pc = "grant" /\ kind = "login")
    PROVE  IInv'
<1>1. /\ Basis' /\ OthersWait(h)
      /\ call[h].pc = "idle" /\ call'[h].pc = pc /\ call'[h].kind = kind
      /\ call'[h].made = IF makes THEN serial + 1 ELSE 0
      /\ serial' \in Nat /\ serial <= serial'
      /\ UNCHANGED <<row, files, uses, stale, mixed, apps, lost>>
  BY BeginEffect DEF IInv
<1>2. pc = "link" => makes
  BY DEF Sensible, Makers
<1>3. Rest'
  BY <1>1, <1>2, RestKept
<1> QED BY <1>1, <1>3 DEF IInv

LEMMA SameTemp == ASSUME TypeOK, UNCHANGED temp PROVE temp' \in 0..clock + TempLife
BY DEF TypeOK

LEMMA RegisterStep == ASSUME IInv, NEW h \in Handlers, Register(h) PROVE IInv'
<1>1. Sensible("create", "register", TRUE, 0, NoMail)
  BY MakesNothing, RowFields DEF Sensible, IInv, Basis, KindsOfCall, Pcs, Makers
<1> QED BY <1>1, PlainBegin, SameTemp DEF Register, IInv, Basis

LEMMA ResendStep == ASSUME IInv, NEW h \in Handlers, Resend(h) PROVE IInv'
<1>1. row.present => Sensible("otp", "resend", TRUE, 0, NoMail)
  BY MakesNothing, RowFields DEF Sensible, IInv, Basis, KindsOfCall, Pcs, Makers
<1>2. Sensible("cool", "resend", FALSE, 0, NoMail)
  BY MakesNothing, RowFields DEF Sensible, IInv, Basis, KindsOfCall, Pcs, Makers
<1> QED BY <1>1, <1>2, PlainBegin, SameTemp DEF Resend, IInv, Basis

LEMMA VerifyRegisterOtpStep ==
    ASSUME IInv, NEW h \in Handlers, VerifyRegisterOtp(h) PROVE IInv'
<1>1. row.present => Sensible("confirm", "other", FALSE, 0, row.otp)
  BY RowFields DEF Sensible, IInv, Basis, KindsOfCall, Pcs, Makers
<1> QED BY <1>1, PlainBegin, SameTemp DEF VerifyRegisterOtp, IInv, Basis

LEMMA Verify2FAStep == ASSUME IInv, NEW h \in Handlers, Verify2FA(h) PROVE IInv'
<1>1. row.present => Sensible("grant", "other", FALSE, 0, NoMail)
  BY MakesNothing, RowFields DEF Sensible, IInv, Basis, KindsOfCall, Pcs, Makers
<1> QED BY <1>1, PlainBegin, SameTemp DEF Verify2FA, IInv, Basis

LEMMA GoogleLoginStep == ASSUME IInv, NEW h \in Handlers, GoogleLogin(h) PROVE IInv'
<1> DEFINE pc == IF row.present THEN "google" ELSE "googleCreate"
<1>1. Sensible(pc, "other", FALSE, 0, NoMail) /\ pc \in {"google", "googleCreate"}
  BY MakesNothing, RowFields DEF Sensible, IInv, Basis, KindsOfCall, Pcs, Makers
<1>2. Begin(h, pc, "other", FALSE, 0, NoMail) /\ UNCHANGED temp
  BY DEF GoogleLogin
<1> HIDE DEF pc
<1> QED BY <1>1, <1>2, PlainBegin, SameTemp DEF IInv, Basis

LEMMA ForgetPasswordStep == ASSUME IInv, NEW h \in Handlers, ForgetPassword(h) PROVE IInv'
<1>1. row.present => Sensible("link", "forget", TRUE, 0, NoMail)
  BY MakesNothing, RowFields DEF Sensible, IInv, Basis, KindsOfCall, Pcs, Makers
<1> QED BY <1>1, PlainBegin, SameTemp DEF ForgetPassword, IInv, Basis

LEMMA ChangePasswordStep == ASSUME IInv, NEW h \in Handlers, ChangePassword(h) PROVE IInv'
<1>1. row.present => Sensible("change", "other", TRUE, row.password, NoMail)
  BY MakesNothing, RowFields DEF Sensible, IInv, Basis, KindsOfCall, Pcs, Makers
<1> QED BY <1>1, PlainBegin, SameTemp DEF ChangePassword, HasPassword, IInv, Basis

LEMMA Setup2FAStep == ASSUME IInv, NEW h \in Handlers, Setup2FA(h) PROVE IInv'
<1>1. row.present => Sensible("setup", "other", TRUE, 0, NoMail)
  BY MakesNothing, RowFields DEF Sensible, IInv, Basis, KindsOfCall, Pcs, Makers
<1> QED BY <1>1, PlainBegin, SameTemp DEF Setup2FA, IInv, Basis

LEMMA Enable2FAStep == ASSUME IInv, NEW h \in Handlers, Enable2FA(h) PROVE IInv'
<1>1. row.present /\ row.secret \in apps => Sensible("enable", "other", FALSE, row.secret, NoMail)
  BY MakesNothing, RowFields DEF Sensible, IInv, Basis, KindsOfCall, Pcs, Makers
<1> QED BY <1>1, PlainBegin, SameTemp DEF Enable2FA, IInv, Basis

LEMMA Disable2FAStep == ASSUME IInv, NEW h \in Handlers, Disable2FA(h) PROVE IInv'
<1>1. row.present => Sensible("disable", "other", FALSE, row.secret, NoMail)
  BY MakesNothing, RowFields DEF Sensible, IInv, Basis, KindsOfCall, Pcs, Makers
<1> QED BY <1>1, PlainBegin, SameTemp DEF Disable2FA, IInv, Basis

\* A link in the row has set no password yet, however many requests take it up.
LEMMA ResetPasswordStep == ASSUME IInv, NEW h \in Handlers, ResetPassword(h) PROVE IInv'
<1>1. row.link.value \in mailed /\ row.present
  BY DEF ResetPassword, Works
<1>2. row.link.value # 0
  BY <1>1, RowFields DEF IInv, Basis, TypeOK
<1>3. Sensible("reset", "other", TRUE, 0, row.link)
  BY <1>1, <1>2, RowFields DEF Sensible, IInv, Basis, KindsOfCall, Pcs, Makers
<1>4. /\ Basis' /\ OthersWait(h)
      /\ call[h].pc = "idle" /\ call'[h].pc = "reset" /\ call'[h].mail = row.link
      /\ serial' \in Nat /\ serial <= serial'
      /\ UNCHANGED <<row, files, uses, stale, mixed, apps, lost>>
  <2>1. Begin(h, "reset", "other", TRUE, 0, row.link) /\ temp' \in 0..clock + TempLife
    BY SameTemp DEF ResetPassword, IInv, Basis
  <2>2. Basis
    BY DEF IInv
  <2>3. Began(h, "reset", 0, row.link)
    BY <1>3, <2>1, <2>2, BeginSafe
  <2> QED BY <2>3 DEF Began
<1>5. FactorSafe' /\ LoginsCounted' /\ UploadsSafe' /\ AvatarStored'
  BY <1>4, FactorKept, LoginsKept, UploadsKept, AvatarKept DEF IInv, Rest
<1>6. UsesCounted'
  <2> SUFFICES ASSUME NEW l \in DOMAIN uses
               PROVE  /\ l \in Nat /\ uses[l] \in Nat
                      /\ uses[l] + Cardinality(Holders(l)') <= Cardinality(Handlers)
    BY <1>4 DEF UsesCounted
  <2>1. l # row.link.value
    BY DEF IInv, Rest, LinksSpent, Spent
  <2>2. Holders(l)' = Holders(l)
    BY <1>4, <2>1 DEF Holders, OthersWait
  <2> QED BY <2>2 DEF IInv, Rest, UsesCounted
<1>7. LinksSpent'
  BY <1>4 DEF IInv, Rest, LinksSpent, Spent, OthersWait, UsesCounted, Basis, TypeOK
<1> QED BY <1>4, <1>5, <1>6, <1>7 DEF IInv, Rest

\* A login that goes straight to its session has read what the row holds.
LEMMA LoginStep == ASSUME IInv, NEW h \in Handlers, Login(h) PROVE IInv'
<1>t. TypeOK /\ row.present
  BY DEF IInv, Basis, Login, HasPassword
<1>1. CASE ~row.verified /\ Begin(h, "otp", "login", TRUE, row.password, NoMail)
           /\ UNCHANGED temp
  <2>1. Sensible("otp", "login", TRUE, row.password, NoMail)
    BY <1>t, MakesNothing, RowFields DEF Sensible, KindsOfCall, Pcs, Makers
  <2> QED BY <1>t, <1>1, <2>1, PlainBegin, SameTemp
<1>2. CASE row.verified /\ ~row.totp /\ Begin(h, "grant", "login", FALSE, row.password, NoMail)
           /\ UNCHANGED temp
  <2>1. Sensible("grant", "login", FALSE, row.password, NoMail)
    BY <1>t, MakesNothing, RowFields DEF Sensible, KindsOfCall, Pcs, Makers
  <2>2. /\ Basis' /\ OthersWait(h)
        /\ call[h].pc = "idle" /\ call'[h].pc = "grant" /\ call'[h].read = row.password
        /\ serial' \in Nat /\ serial <= serial'
        /\ UNCHANGED <<row, files, uses, stale, mixed, apps, lost>>
    <3>1. Begin(h, "grant", "login", FALSE, row.password, NoMail) /\ temp' \in 0..clock + TempLife
      BY <1>t, <1>2, SameTemp
    <3>2. Basis
      BY DEF IInv
    <3>3. Began(h, "grant", row.password, NoMail)
      BY <2>1, <3>1, <3>2, BeginSafe
    <3> QED BY <3>3 DEF Began
  <2>3. FactorSafe' /\ UsesCounted' /\ LinksSpent' /\ UploadsSafe' /\ AvatarStored'
    BY <2>2, FactorKept, UsesKept, SpentKept, UploadsKept, AvatarKept DEF IInv, Rest
  <2>4. LoginsCounted'
    <3>1. Obsolete' = Obsolete
      BY <1>2, <2>2 DEF Obsolete, OthersWait
    <3> QED BY <2>2, <3>1 DEF IInv, Rest, LoginsCounted
  <2> QED BY <2>2, <2>3, <2>4 DEF IInv, Rest
<1>3. CASE /\ temp' = clock + TempLife /\ calls' = calls + 1
           /\ UNCHANGED <<clock, row, cooldown, loggedIn, apps, mailed, latest, files, call,
                          serial, observers, failures>>
  <2>0. UNCHANGED <<clock, row, cooldown, loggedIn, apps, mailed, latest, files, call, serial,
                    uses, stale, mixed, lost, failures>>
    BY <1>3 DEF observers
  <2>1. TypeOK'
    BY <1>3, <1>t, <2>0, Constants DEF TypeOK
  <2>2. CallsOK' /\ Distinct' /\ FactorSafe' /\ UploadsSafe' /\ AvatarStored'
    BY <2>0 DEF IInv, Basis, Rest, CallsOK, CallOK, Distinct, FactorSafe, UploadsSafe, Uploading,
                AvatarStored
  <2>3. LoginsCounted'
    BY <2>0 DEF IInv, Rest, LoginsCounted, Obsolete
  <2>4. UsesCounted' /\ LinksSpent'
    BY <2>0 DEF IInv, Rest, UsesCounted, LinksSpent, Spent, Holders
  <2> QED BY <2>1, <2>2, <2>3, <2>4 DEF IInv, Basis, Rest
<1> QED BY <1>1, <1>2, <1>3 DEF Login

LEMMA EditProfileStep == ASSUME IInv, NEW h \in Handlers, EditProfile(h) PROVE IInv'
<1>1. PICK upload \in BOOLEAN : Begin(h, "unlink", "other", upload, row.avatar, NoMail)
  BY DEF EditProfile
<1>2. Sensible("unlink", "other", upload, row.avatar, NoMail)
  BY MakesNothing, RowFields
     DEF Sensible, IInv, Basis, KindsOfCall, Pcs, Makers, EditProfile
<1>3. /\ Basis' /\ OthersWait(h)
      /\ call[h].pc = "idle" /\ call'[h].pc = "unlink" /\ call'[h].read = row.avatar
      /\ call'[h].made = IF upload THEN serial + 1 ELSE 0
      /\ serial' \in Nat /\ serial <= serial'
      /\ UNCHANGED <<row, files, uses, stale, mixed, apps, lost>>
  BY <1>1, <1>2, BeginEffect, SameTemp DEF EditProfile, IInv, Basis
<1>4. FactorSafe' /\ LoginsCounted' /\ UsesCounted' /\ LinksSpent' /\ AvatarStored'
  BY <1>3, FactorKept, LoginsKept, UsesKept, SpentKept, AvatarKept DEF IInv, Rest
<1>5. UploadsSafe'
  <2>1. /\ row.avatar <= serial /\ row.avatar \in Nat /\ serial \in Nat
        /\ \A g \in Handlers : call[g].read \in Nat /\ call[g].read <= serial
    BY RowFields, CallTypes DEF IInv, Basis, CallsOK, CallOK
  <2> SUFFICES ASSUME NEW k \in Handlers, Uploading(k)'
               PROVE  /\ call'[k].made # row.avatar
                      /\ \A g \in Handlers : call'[g].pc = "unlink" => call'[g].read # call'[k].made
                      /\ call'[k].pc = "avatar" => call'[k].made \in files
    BY <1>3 DEF UploadsSafe
  <2>2. CASE k = h
    <3>1. call'[k].made = serial + 1
      BY <1>3, <2>2 DEF Uploading
    <3> QED BY <1>3, <2>1, <2>2, <3>1 DEF OthersWait
  <2>3. CASE k # h
    BY <1>3, <2>3 DEF IInv, Rest, UploadsSafe, Uploading, OthersWait
  <2> QED BY <2>2, <2>3
<1> QED BY <1>3, <1>4, <1>5 DEF IInv, Rest

-----------------------------------------------------------------------------
(* Steps of requests in progress.                                          *)

RowBounds ==
    /\ row.otp.expires <= clock + CodeLife /\ row.link.expires <= clock + CodeLife
    /\ row.otp.value <= serial /\ row.link.value <= serial
    /\ row.secret <= serial /\ row.password <= serial /\ row.avatar <= serial

LEMMA WriteBasis ==
    ASSUME Basis, NEW h \in Handlers, OthersWait(h), call' \in [Handlers -> Calls],
           CallOK(call[h])', call'[h].made \in {0, call[h].made},
           row' \in Rows, row.present => row'.present, RowBounds',
           UNCHANGED <<clock, temp, loggedIn, apps, mailed, latest, serial, calls, failures>>,
           cooldown' \in 0..clock + Cooldown, files' \subseteq 1..serial
    PROVE  Basis'
<1>1. serial \in Nat /\ clock \in Nat
  BY DEF Basis, TypeOK
<1>2. CallsOK' /\ Distinct'
  BY <1>1, CallsKept
<1>3. /\ {row'.otp.expires, row'.link.expires} \subseteq 0..clock' + CodeLife
      /\ {row'.otp.value, row'.link.value, row'.secret, row'.password, row'.avatar}
            \subseteq 0..serial'
  <2>1. /\ row'.otp.expires \in Nat /\ row'.link.expires \in Nat
        /\ row'.otp.value \in Nat /\ row'.link.value \in Nat
        /\ row'.secret \in Nat /\ row'.password \in Nat /\ row'.avatar \in Nat
    BY DEF Rows, Mails, Values
  <2> QED BY <1>1, <2>1, Constants DEF RowBounds
<1>4. TypeOK'
  <2>1. \A g \in Handlers : call'[g].made <= serial'
    BY <1>2 DEF CallsOK, CallOK
  <2> QED BY <1>1, <1>3, <2>1 DEF Basis, TypeOK
<1> QED BY <1>2, <1>4 DEF Basis

LEMMA Types ==
    ASSUME Basis
    PROVE  /\ TypeOK /\ row \in Rows /\ RowBounds /\ cooldown \in 0..clock + Cooldown
           /\ files \subseteq 1..serial /\ serial \in Nat /\ clock \in Nat
BY RowFields DEF Basis, RowBounds, TypeOK

LEMMA AtEffect ==
    ASSUME NEW h \in Handlers, NEW pc, At(h, pc)
    PROVE  /\ call[h].pc = pc
           /\ UNCHANGED <<clock, temp, loggedIn, apps, mailed, latest, serial, calls, failures>>
BY DEF At, client

LEMMA ObserversKept ==
    ASSUME UNCHANGED observers
    PROVE  UNCHANGED <<uses, stale, resent, mixed, crossed, lost>>
BY DEF observers

\* A request that returns is idle, and holds nothing.
LEMMA ReturnSafe ==
    ASSUME Basis, NEW h \in Handlers, Return(h), serial' = serial
    PROVE  /\ call' \in [Handlers -> Calls] /\ OthersWait(h)
           /\ CallOK(call[h])' /\ call'[h].made \in {0, call[h].made}
           /\ call'[h].pc = "idle"
<1>1. call' \in [Handlers -> Calls] /\ call'[h] = NoCall /\ OthersWait(h)
  BY ReturnEffect DEF Basis, OthersWait
<1> QED BY <1>1, NoCallType, Types DEF CallOK, Makers

\* A request that goes on with what it has.
LEMMA GotoSafe ==
    ASSUME Basis, NEW h \in Handlers, NEW pc \in Pcs, Goto(h, pc),
           serial' = serial, apps \subseteq apps', row'.present,
           pc \in Makers => call[h].made # 0,
           pc \notin {"mail", "reset", "google", "googleCreate", "enable"}
    PROVE  /\ call' \in [Handlers -> Calls] /\ OthersWait(h)
           /\ CallOK(call[h])' /\ call'[h].made \in {0, call[h].made}
           /\ call'[h].pc = pc /\ call'[h].made = call[h].made
           /\ call'[h].read = call[h].read /\ call'[h].kind = call[h].kind
<1>1. /\ call' \in [Handlers -> Calls] /\ call'[h].pc = pc
      /\ call'[h].made = call[h].made /\ call'[h].read = call[h].read
      /\ call'[h].mail = call[h].mail /\ call'[h].kind = call[h].kind /\ OthersWait(h)
  BY GotoEffect DEF Basis, OthersWait
<1>2. CallOK(call[h])
  BY DEF Basis, CallsOK
<1>3. CallOK(call[h])'
  BY <1>1, <1>2 DEF CallOK
<1> QED BY <1>1, <1>3

\* A request that has written its code or link and mails it.
LEMMA SendSafe ==
    ASSUME Basis, NEW h \in Handlers, call[h].pc \in {"create", "otp", "link"},
           Become(h, [call[h] EXCEPT !.pc = "mail", !.mail = NewMail(h)]),
           serial' = serial, row'.present
    PROVE  /\ call' \in [Handlers -> Calls] /\ OthersWait(h)
           /\ CallOK(call[h])' /\ call'[h].made \in {0, call[h].made}
           /\ call'[h].pc = "mail"
<1>1. /\ call' \in [Handlers -> Calls] /\ call'[h].pc = "mail"
      /\ call'[h].made = call[h].made /\ call'[h].read = call[h].read
      /\ call'[h].mail = NewMail(h) /\ call'[h].kind = call[h].kind /\ OthersWait(h)
  BY SendEffect DEF Basis, OthersWait
<1>2. CallOK(call[h]) /\ NewMail(h).value = call[h].made
  BY NewMailType DEF Basis, CallsOK
<1>3. CallOK(call[h])'
  BY <1>1, <1>2 DEF CallOK, Makers
<1> QED BY <1>1, <1>3

LEMMA RowEdits ==
    ASSUME NEW r \in Rows
    PROVE  /\ \A m \in Mails : [r EXCEPT !.otp = m] \in Rows /\ [r EXCEPT !.link = m] \in Rows
           /\ \A m \in Mails : [r EXCEPT !.verified = TRUE, !.otp = m] \in Rows
           /\ \A p \in Nat, m \in Mails : [r EXCEPT !.password = p, !.link = m] \in Rows
           /\ \A p \in Nat : /\ [r EXCEPT !.password = p] \in Rows
                             /\ [r EXCEPT !.secret = p] \in Rows
                             /\ [r EXCEPT !.avatar = p] \in Rows
           /\ [r EXCEPT !.verified = TRUE] \in Rows
           /\ [r EXCEPT !.totp = TRUE] \in Rows
           /\ [r EXCEPT !.totp = FALSE, !.secret = 0] \in Rows
BY DEF Rows, Values

\* The parts of the row that most requests leave alone.
SameKeys == /\ row'.totp = row.totp /\ row'.secret = row.secret
            /\ row'.password = row.password /\ row'.link = row.link
            /\ row'.avatar = row.avatar

LEMMA PlainStep ==
    ASSUME IInv, NEW h \in Handlers, OthersWait(h), SameKeys,
           UNCHANGED <<files, uses, stale, mixed, lost, serial, apps>>,
           call[h].pc \notin {"save", "avatar"},
           call'[h].pc \in {"idle", "mail", "cool", "answer", "create", "otp"}
               \/ (call'[h].pc = "grant" /\ call'[h].kind # "login")
    PROVE  Rest'
<1>1. serial \in Nat
  BY Types DEF IInv
<1> QED BY <1>1, RestKept DEF SameKeys

LEMMA WriteOtpStep == ASSUME IInv, NEW h \in Handlers, WriteOtp(h) PROVE IInv'
<1>1. Basis
  BY DEF IInv
<1>2. /\ call[h].pc = "otp" /\ row.present /\ row' = [row EXCEPT !.otp = NewMail(h)]
      /\ UNCHANGED <<clock, temp, loggedIn, apps, mailed, latest, serial, calls, failures>>
      /\ UNCHANGED <<cooldown, files, uses, stale, mixed, lost>>
  BY AtEffect, ObserversKept DEF WriteOtp, Write
<1>3. NewMail(h) \in Mails /\ NewMail(h).value <= serial /\ NewMail(h).expires = clock + CodeLife
  BY <1>1, NewMailType, CallTypes DEF Basis
<1>4. row' \in Rows /\ row'.present /\ SameKeys /\ row'.otp = NewMail(h)
  BY <1>1, <1>2, <1>3, RowEdits, Types DEF SameKeys, Rows
<1>5. /\ call' \in [Handlers -> Calls] /\ OthersWait(h)
      /\ CallOK(call[h])' /\ call'[h].made \in {0, call[h].made} /\ call'[h].pc = "mail"
  BY <1>1, <1>2, <1>4, SendSafe DEF WriteOtp
<1>6. RowBounds'
  BY <1>1, <1>2, <1>3, <1>4, Types, Constants DEF RowBounds, SameKeys
<1>7. Basis'
  BY <1>1, <1>2, <1>4, <1>5, <1>6, WriteBasis, Types
<1>8. Rest'
  BY <1>2, <1>4, <1>5, PlainStep
<1> QED BY <1>7, <1>8 DEF IInv

LEMMA CoolStep == ASSUME IInv, NEW h \in Handlers, Cool(h) PROVE IInv'
<1>1. Basis
  BY DEF IInv
<1>2. /\ call[h].pc = "cool" /\ row' = row /\ cooldown' = clock + Cooldown
      /\ UNCHANGED <<clock, temp, loggedIn, apps, mailed, latest, serial, calls, failures>>
      /\ UNCHANGED <<files, uses, stale, mixed, lost>>
  BY AtEffect, ObserversKept DEF Cool
<1>3. /\ call' \in [Handlers -> Calls] /\ OthersWait(h)
      /\ CallOK(call[h])' /\ call'[h].made \in {0, call[h].made} /\ call'[h].pc = "idle"
  BY <1>1, <1>2, ReturnSafe DEF Cool
<1>4. Basis'
  BY <1>1, <1>2, <1>3, WriteBasis, Types, Constants DEF RowBounds
<1>5. Rest'
  BY <1>2, <1>3, PlainStep DEF SameKeys
<1> QED BY <1>4, <1>5 DEF IInv

LEMMA ConfirmStep == ASSUME IInv, NEW h \in Handlers, Confirm(h) PROVE IInv'
<1>1. Basis
  BY DEF IInv
<1>2. /\ call[h].pc = "confirm" /\ row.present
      /\ row' = [row EXCEPT !.verified = TRUE, !.otp = NoMail]
      /\ UNCHANGED <<clock, temp, loggedIn, apps, mailed, latest, serial, calls, failures>>
      /\ UNCHANGED <<cooldown, files, uses, stale, mixed, lost>>
  BY AtEffect, ObserversKept DEF Confirm, Write
<1>3. row' \in Rows /\ row'.present /\ SameKeys /\ row'.otp = NoMail
  <2>1. row \in Rows /\ NoMail \in Mails
    BY <1>1, NoCallType, Types
  <2>2. row' \in Rows
    BY <1>2, <2>1, RowEdits
  <2> QED BY <1>2, <2>1, <2>2 DEF SameKeys, Rows
<1>4. /\ call' \in [Handlers -> Calls] /\ OthersWait(h)
      /\ CallOK(call[h])' /\ call'[h].made \in {0, call[h].made} /\ call'[h].pc = "idle"
  BY <1>1, <1>2, ReturnSafe DEF Confirm
<1>5. RowBounds'
  BY <1>1, <1>2, <1>3, Types, NoCallType, Constants DEF RowBounds, SameKeys
<1>6. Basis'
  BY <1>1, <1>2, <1>3, <1>4, <1>5, WriteBasis, Types
<1>7. Rest'
  BY <1>2, <1>3, <1>4, PlainStep
<1> QED BY <1>6, <1>7 DEF IInv

LEMMA GoogleLinkStep == ASSUME IInv, NEW h \in Handlers, GoogleLink(h) PROVE IInv'
<1>1. Basis
  BY DEF IInv
<1>2. /\ call[h].pc = "google" /\ row.present /\ row' = [row EXCEPT !.verified = TRUE]
      /\ UNCHANGED <<clock, temp, loggedIn, apps, mailed, latest, serial, calls, failures>>
      /\ UNCHANGED <<cooldown, files, uses, stale, mixed, lost>>
  BY AtEffect, ObserversKept DEF GoogleLink, Write
<1>3. row' \in Rows /\ row'.present /\ SameKeys /\ row'.otp = row.otp
  <2>1. row \in Rows
    BY <1>1, Types
  <2>2. row' \in Rows
    BY <1>2, <2>1, RowEdits
  <2> QED BY <1>2, <2>1, <2>2 DEF SameKeys, Rows
<1>4. /\ call' \in [Handlers -> Calls] /\ OthersWait(h)
      /\ CallOK(call[h])' /\ call'[h].made \in {0, call[h].made} /\ call'[h].pc = "grant"
      /\ call'[h].kind = call[h].kind
  BY <1>1, <1>2, <1>3, GotoSafe DEF GoogleLink, Pcs, Makers
<1>5. call[h].kind # "login"
  BY <1>1, <1>2 DEF Basis, CallsOK, CallOK
<1>6. RowBounds'
  BY <1>1, <1>2, <1>3, Types DEF RowBounds, SameKeys
<1>7. Basis'
  BY <1>1, <1>2, <1>3, <1>4, <1>6, WriteBasis, Types
<1>8. Rest'
  BY <1>2, <1>3, <1>4, <1>5, PlainStep
<1> QED BY <1>7, <1>8 DEF IInv

LEMMA AnswerSecretStep == ASSUME IInv, NEW h \in Handlers, AnswerSecret(h) PROVE IInv'
<1>1. Basis /\ serial \in Nat
  BY Types DEF IInv
<1>2. /\ call[h].pc = "answer" /\ apps' = apps \cup {call[h].made}
      /\ UNCHANGED <<clock, row, cooldown, temp, loggedIn, mailed, latest, files, serial,
                     uses, stale, mixed, lost, calls, failures>>
  BY DEF AnswerSecret, observers
<1>3. call[h].made \in 1..serial
  BY <1>1, <1>2, CallTypes DEF Basis, CallsOK, CallOK, Makers
<1>4. /\ call' \in [Handlers -> Calls] /\ OthersWait(h)
      /\ CallOK(call[h])' /\ call'[h].made \in {0, call[h].made} /\ call'[h].pc = "idle"
  BY <1>1, <1>2, ReturnSafe DEF AnswerSecret
<1>5. CallsOK' /\ Distinct'
  BY <1>1, <1>2, <1>4, CallsKept
<1>6. TypeOK'
  <2>1. apps' \subseteq 1..serial /\ \A g \in Handlers : call'[g].made <= serial'
    BY <1>1, <1>2, <1>3, <1>5 DEF Basis, TypeOK, CallsOK, CallOK
  <2> QED BY <1>1, <1>2, <1>4, <2>1 DEF Basis, TypeOK
<1>7. Rest'
  BY <1>1, <1>2, <1>4, RestKept
<1> QED BY <1>5, <1>6, <1>7 DEF IInv, Basis

LEMMA MailStep == ASSUME IInv, NEW h \in Handlers, Mail(h) PROVE IInv'
<1>1. Basis /\ serial \in Nat /\ row.present
  <2>1. call[h].pc = "mail"
    BY DEF Mail
  <2> QED BY <2>1, Types DEF IInv, Basis, CallsOK, CallOK
<1>2. /\ call[h].pc = "mail" /\ mailed' = mailed \cup {call[h].mail.value}
      /\ latest' = [latest EXCEPT ![MailKind(h)] = call[h].mail]
      /\ UNCHANGED <<clock, row, cooldown, temp, loggedIn, apps, files, serial, uses, stale,
                     mixed, lost, calls, failures>>
      /\ IF call[h].kind = "resend" THEN Goto(h, "cool") ELSE Return(h)
  BY DEF Mail
<1>3. call[h].mail \in Mails /\ call[h].mail.value \in 1..serial
  BY <1>1, <1>2, CallTypes DEF Basis, CallsOK, CallOK
<1>4. /\ call' \in [Handlers -> Calls] /\ OthersWait(h)
      /\ CallOK(call[h])' /\ call'[h].made \in {0, call[h].made}
      /\ call'[h].pc \in {"idle", "cool"}
  <2>1. CASE Goto(h, "cool")
    BY <1>1, <1>2, <2>1, GotoSafe DEF Pcs, Makers
  <2>2. CASE Return(h)
    BY <1>1, <1>2, <2>2, ReturnSafe
  <2> QED BY <1>2, <2>1, <2>2
<1>5. CallsOK' /\ Distinct'
  BY <1>1, <1>2, <1>4, CallsKept
<1>6. TypeOK'
  <2>1. mailed' \subseteq 1..serial /\ \A g \in Handlers : call'[g].made <= serial'
    BY <1>1, <1>2, <1>3, <1>5 DEF Basis, TypeOK, CallsOK, CallOK
  <2>2. latest' \in [Kinds -> Mails]
    BY <1>1, <1>2, <1>3 DEF Basis, TypeOK
  <2> QED BY <1>1, <1>2, <1>4, <2>1, <2>2 DEF Basis, TypeOK
<1>7. Rest'
  BY <1>2, <1>4, PlainStep DEF SameKeys
<1> QED BY <1>5, <1>6, <1>7 DEF IInv, Basis

LEMMA LoginsShrink ==
    ASSUME LoginsCounted, Obsolete' \subseteq Obsolete, stale' = stale
    PROVE  LoginsCounted'
<1>1. Cardinality(Obsolete') <= Cardinality(Obsolete) /\ Cardinality(Obsolete') \in Nat
  BY ObsoleteFinite, FS_Subset, FS_CardinalityType
<1> QED BY <1>1, ObsoleteFinite, Constants DEF LoginsCounted

\* The first row: nothing that could be about an older one is in progress.
LEMMA FirstRow ==
    ASSUME IInv, NEW h \in Handlers, OthersWait(h), ~row.present,
           row'.link.value = 0, ~row'.totp, row'.avatar = 0,
           UNCHANGED <<files, uses, stale, mixed, lost, serial, apps>>,
           \/ call'[h].pc \in {"idle", "mail"}
           \/ call'[h].pc = "grant" /\ call'[h].kind # "login"
    PROVE  Rest'
<1>1. \A g \in Handlers \ {h} : /\ call'[g].pc \in {"idle", "create", "cool", "googleCreate"}
  BY DEF IInv, Basis, CallsOK, CallOK, OthersWait
<1>2. FactorSafe' /\ UploadsSafe' /\ AvatarStored'
  BY <1>1 DEF FactorSafe, UploadsSafe, Uploading, AvatarStored
<1>3. LoginsCounted'
  <2>1. Obsolete' \subseteq Obsolete
    BY <1>1 DEF Obsolete
  <2> QED BY <2>1, LoginsShrink DEF IInv, Rest
<1>4. UsesCounted'
  BY UsesKept DEF IInv, Rest
<1>5. LinksSpent'
  BY <1>1 DEF IInv, Rest, LinksSpent, Spent
<1> QED BY <1>2, <1>3, <1>4, <1>5 DEF Rest

LEMMA CreateStep == ASSUME IInv, NEW h \in Handlers, Create(h) PROVE IInv'
<1>1. Basis /\ serial \in Nat
  BY Types DEF IInv
<1>2. /\ call[h].pc = "create"
      /\ UNCHANGED <<clock, temp, loggedIn, apps, mailed, latest, serial, calls, failures>>
      /\ UNCHANGED <<cooldown, files, uses, stale, mixed, lost>>
  BY AtEffect, ObserversKept DEF Create
<1>3. CASE /\ ~row.present
           /\ row' = [NoRow EXCEPT !.present = TRUE, !.password = call[h].made,
                                   !.otp = NewMail(h)]
           /\ Become(h, [call[h] EXCEPT !.pc = "mail", !.mail = NewMail(h)])
  <2>1. /\ NewMail(h) \in Mails /\ NewMail(h).value = call[h].made
        /\ NewMail(h).expires = clock + CodeLife
        /\ call[h].made \in Nat /\ call[h].made <= serial
    BY <1>1, NewMailType, CallTypes DEF Basis
  <2>2. /\ row' \in Rows /\ row'.present /\ row'.link = NoMail /\ ~row'.totp
        /\ row'.avatar = 0 /\ row'.secret = 0 /\ row'.otp = NewMail(h)
        /\ row'.password = call[h].made
    BY <1>3, <2>1, RowTypes DEF Rows, Values
  <2>3. /\ call' \in [Handlers -> Calls] /\ OthersWait(h)
        /\ CallOK(call[h])' /\ call'[h].made \in {0, call[h].made} /\ call'[h].pc = "mail"
    BY <1>1, <1>2, <1>3, <2>2, SendSafe
  <2>4. RowBounds'
    BY <1>1, <1>2, <2>1, <2>2, Types, NoCallType, Constants DEF RowBounds
  <2>5. Basis'
    BY <1>1, <1>2, <1>3, <2>2, <2>3, <2>4, WriteBasis, Types
  <2>6. Rest'
    BY <1>2, <1>3, <2>2, <2>3, FirstRow, NoCallType
  <2> QED BY <2>5, <2>6 DEF IInv
<1>4. CASE row.present /\ Return(h) /\ UNCHANGED row
  <2>1. /\ call' \in [Handlers -> Calls] /\ OthersWait(h)
        /\ CallOK(call[h])' /\ call'[h].made \in {0, call[h].made} /\ call'[h].pc = "idle"
    BY <1>1, <1>2, <1>4, ReturnSafe
  <2>2. Basis'
    BY <1>1, <1>2, <1>4, <2>1, WriteBasis, Types DEF RowBounds
  <2>3. Rest'
    BY <1>2, <1>4, <2>1, PlainStep DEF SameKeys
  <2> QED BY <2>2, <2>3 DEF IInv
<1> QED BY <1>3, <1>4 DEF Create

LEMMA GoogleCreateStep == ASSUME IInv, NEW h \in Handlers, GoogleCreate(h) PROVE IInv'
<1>1. Basis /\ serial \in Nat
  BY Types DEF IInv
<1>2. /\ call[h].pc = "googleCreate"
      /\ UNCHANGED <<clock, temp, loggedIn, apps, mailed, latest, serial, calls, failures>>
      /\ UNCHANGED <<cooldown, files, uses, stale, mixed, lost>>
  BY AtEffect, ObserversKept DEF GoogleCreate
<1>3. CASE /\ ~row.present
           /\ row' = [NoRow EXCEPT !.present = TRUE, !.provider = "google", !.verified = TRUE]
           /\ Goto(h, "grant")
  <2>2. /\ row' \in Rows /\ row'.present /\ row'.link = NoMail /\ row'.otp = NoMail
        /\ ~row'.totp /\ row'.avatar = 0 /\ row'.secret = 0 /\ row'.password = 0
    BY <1>3, RowTypes DEF Rows, Values
  <2>3. /\ call' \in [Handlers -> Calls] /\ OthersWait(h)
        /\ CallOK(call[h])' /\ call'[h].made \in {0, call[h].made} /\ call'[h].pc = "grant"
        /\ call'[h].kind = call[h].kind
    BY <1>1, <1>2, <1>3, <2>2, GotoSafe DEF Pcs, Makers
  <2>4. call[h].kind # "login"
    BY <1>1, <1>2 DEF Basis, CallsOK, CallOK
  <2>5. RowBounds'
    BY <1>1, <1>2, <2>2, Types, NoCallType, Constants DEF RowBounds
  <2>6. Basis'
    BY <1>1, <1>2, <1>3, <2>2, <2>3, <2>5, WriteBasis, Types
  <2>7. Rest'
    BY <1>2, <1>3, <2>2, <2>3, <2>4, FirstRow, NoCallType
  <2> QED BY <2>6, <2>7 DEF IInv
<1>4. CASE row.present /\ Return(h) /\ UNCHANGED row
  <2>1. /\ call' \in [Handlers -> Calls] /\ OthersWait(h)
        /\ CallOK(call[h])' /\ call'[h].made \in {0, call[h].made} /\ call'[h].pc = "idle"
    BY <1>1, <1>2, <1>4, ReturnSafe
  <2>2. Basis'
    BY <1>1, <1>2, <1>4, <2>1, WriteBasis, Types DEF RowBounds
  <2>3. Rest'
    BY <1>2, <1>4, <2>1, PlainStep DEF SameKeys
  <2> QED BY <2>2, <2>3 DEF IInv
<1> QED BY <1>3, <1>4 DEF GoogleCreate

\* New credentials: whoever logs in on the old ones is on the way already, and the
\* request that replaces them is not a login.
LEMMA LoginsRestart ==
    ASSUME NEW h \in Handlers, stale' = 0, call'[h].pc = "idle"
    PROVE  LoginsCounted'
<1>1. Obsolete' \subseteq Handlers \ {h}
  BY DEF Obsolete
<1>2. /\ IsFiniteSet(Handlers \ {h})
      /\ Cardinality(Handlers \ {h}) = Cardinality(Handlers) - 1
      /\ Cardinality(Handlers \ {h}) \in Nat
  BY Constants, FS_RemoveElement, FS_CardinalityType
<1>3. Cardinality(Obsolete') \in Nat /\ Cardinality(Obsolete') <= Cardinality(Handlers \ {h})
  BY <1>1, <1>2, FS_Subset, FS_CardinalityType
<1> QED BY <1>2, <1>3, Constants DEF LoginsCounted

LEMMA WriteLinkStep == ASSUME IInv, NEW h \in Handlers, WriteLink(h) PROVE IInv'
<1>1. Basis /\ serial \in Nat
  BY Types DEF IInv
<1>2. /\ call[h].pc = "link" /\ row.present /\ row' = [row EXCEPT !.link = NewMail(h)]
      /\ UNCHANGED <<clock, temp, loggedIn, apps, mailed, latest, serial, calls, failures>>
      /\ UNCHANGED <<cooldown, files, uses, stale, mixed, lost>>
  BY AtEffect, ObserversKept DEF WriteLink, Write
<1>3. /\ NewMail(h) \in Mails /\ NewMail(h).value = call[h].made
      /\ NewMail(h).expires = clock + CodeLife
      /\ call[h].made \in Nat /\ call[h].made <= serial
  BY <1>1, NewMailType, CallTypes DEF Basis
<1>4. /\ row' \in Rows /\ row'.present /\ row'.link = NewMail(h) /\ row'.otp = row.otp
      /\ row'.totp = row.totp /\ row'.secret = row.secret
      /\ row'.password = row.password /\ row'.avatar = row.avatar
  <2>1. row \in Rows
    BY <1>1, Types
  <2>2. row' \in Rows
    BY <1>2, <1>3, <2>1, RowEdits
  <2> QED BY <1>2, <1>3, <2>1, <2>2 DEF Rows
<1>5. /\ call' \in [Handlers -> Calls] /\ OthersWait(h)
      /\ CallOK(call[h])' /\ call'[h].made \in {0, call[h].made} /\ call'[h].pc = "mail"
  BY <1>1, <1>2, <1>4, SendSafe DEF WriteLink
<1>6. RowBounds'
  BY <1>1, <1>2, <1>3, <1>4, Types, Constants DEF RowBounds
<1>7. Basis'
  BY <1>1, <1>2, <1>4, <1>5, <1>6, WriteBasis, Types
<1>8. FactorSafe' /\ LoginsCounted' /\ UsesCounted' /\ UploadsSafe' /\ AvatarStored'
  BY <1>2, <1>4, <1>5, FactorKept, LoginsKept, UsesKept, UploadsKept, AvatarKept
     DEF IInv, Rest
<1>9. LinksSpent'
  <2>1. ASSUME NEW l \in DOMAIN uses PROVE Spent(l)'
    <3>1. Spent(l)
      BY DEF IInv, Rest, LinksSpent
    <3> QED BY <1>2, <1>3, <1>4, <1>5, <3>1 DEF Spent, OthersWait
  <2>2. ASSUME NEW g \in Handlers, NEW k \in Handlers, call'[g].pc = "link"
        PROVE  /\ call'[g].made # row'.link.value
               /\ call'[k].pc = "reset" => call'[g].made # call'[k].mail.value
    <3>1. g # h /\ call'[g] = call[g]
      BY <1>5, <2>2 DEF OthersWait
    <3>2. call[g].made # call[h].made
      BY <1>1, <1>2, <2>2, <3>1 DEF Basis, Distinct, CallsOK, CallOK, Makers
    <3>3. call'[k].pc = "reset" => call'[k] = call[k]
      BY <1>5 DEF OthersWait
    <3> QED BY <1>3, <1>4, <2>2, <3>1, <3>2, <3>3 DEF IInv, Rest, LinksSpent
  <2> QED BY <1>2, <2>1, <2>2 DEF LinksSpent
<1> QED BY <1>7, <1>8, <1>9 DEF IInv, Rest

LEMMA CountUseEffect ==
    ASSUME NEW l
    PROVE  /\ DOMAIN CountUse(l) = DOMAIN uses \cup {l}
           /\ CountUse(l)[l] = Used(l) + 1
           /\ \A k \in DOMAIN uses \ {l} : CountUse(l)[k] = uses[k]
BY DEF CountUse

LEMMA SetPasswordStep == ASSUME IInv, NEW h \in Handlers, SetPassword(h) PROVE IInv'
<1>1. Basis /\ serial \in Nat
  BY Types DEF IInv
<1>l. PICK l \in Nat : l = call[h].mail.value
  BY <1>1, CallTypes DEF Basis
<1>2. /\ call[h].pc = "reset" /\ row.present
      /\ row' = [row EXCEPT !.password = call[h].made, !.link = NoMail]
      /\ UNCHANGED <<clock, temp, loggedIn, apps, mailed, latest, serial, calls, failures>>
      /\ UNCHANGED <<cooldown, files, mixed, lost>>
      /\ stale' = 0 /\ uses' = CountUse(l)
  BY <1>l, AtEffect DEF SetPassword, Write
<1>3. /\ call[h].made \in Nat /\ call[h].made <= serial
      /\ l # 0 /\ l <= serial
  BY <1>1, <1>2, <1>l, CallTypes DEF Basis, CallsOK, CallOK
<1>4. /\ row' \in Rows /\ row'.present /\ row'.link = NoMail /\ row'.otp = row.otp
      /\ row'.totp = row.totp /\ row'.secret = row.secret
      /\ row'.password = call[h].made /\ row'.avatar = row.avatar
  <2>1. row \in Rows /\ NoMail \in Mails
    BY <1>1, Types, NoCallType
  <2>2. row' \in Rows
    BY <1>2, <1>3, <2>1, RowEdits
  <2> QED BY <1>2, <2>1, <2>2 DEF Rows
<1>5. /\ call' \in [Handlers -> Calls] /\ OthersWait(h)
      /\ CallOK(call[h])' /\ call'[h].made \in {0, call[h].made} /\ call'[h].pc = "idle"
  BY <1>1, <1>2, ReturnSafe DEF SetPassword
<1>6. RowBounds'
  BY <1>1, <1>2, <1>3, <1>4, Types, NoCallType, Constants DEF RowBounds
<1>7. Basis'
  BY <1>1, <1>2, <1>4, <1>5, <1>6, WriteBasis, Types
<1>8. FactorSafe' /\ LoginsCounted' /\ UploadsSafe' /\ AvatarStored'
  BY <1>2, <1>4, <1>5, FactorKept, LoginsRestart, UploadsKept, AvatarKept DEF IInv, Rest
<1>9. UsesCounted'
  <2>1. /\ Holders(l)' = Holders(l) \ {h} /\ h \in Holders(l)
        /\ \A k \in Nat \ {l} : Holders(k)' = Holders(k)
    BY <1>l, <1>2, <1>5 DEF Holders, OthersWait
  <2>2. Cardinality(Holders(l)') = Cardinality(Holders(l)) - 1
    BY <2>1, HoldersFinite, FS_RemoveElement
  <2>3. /\ Used(l) \in Nat
        /\ Used(l) + Cardinality(Holders(l)) <= Cardinality(Handlers)
    BY HoldersFinite, Constants DEF Used, IInv, Rest, UsesCounted
  <2>c. /\ DOMAIN CountUse(l) = DOMAIN uses \cup {l}
        /\ CountUse(l)[l] = Used(l) + 1
        /\ \A k \in DOMAIN uses \ {l} : CountUse(l)[k] = uses[k]
    BY CountUseEffect
  <2> SUFFICES ASSUME NEW k \in DOMAIN CountUse(l)
               PROVE  /\ k \in Nat /\ CountUse(l)[k] \in Nat
                      /\ CountUse(l)[k] + Cardinality(Holders(k)') <= Cardinality(Handlers)
    BY <1>2 DEF UsesCounted
  <2>4. CASE k = l
    <3>1. Cardinality(Holders(l)) \in Nat
      BY HoldersFinite
    <3>2. CountUse(l)[k] = Used(l) + 1 /\ Holders(k)' = Holders(l)'
      BY <2>c, <2>4
    <3> QED BY <2>2, <2>3, <2>4, <3>1, <3>2, Constants
  <2>5. CASE k # l
    <3>1. k \in DOMAIN uses /\ CountUse(l)[k] = uses[k] /\ k \in Nat
      BY <2>c, <2>5 DEF IInv, Rest, UsesCounted
    <3> QED BY <2>1, <2>5, <3>1 DEF IInv, Rest, UsesCounted
  <2> QED BY <2>4, <2>5
<1>10. LinksSpent'
  <2>0. \A g \in Handlers : call'[g].pc \in {"link", "reset"} => call'[g] = call[g]
    BY <1>5 DEF OthersWait
  <2>1. ASSUME NEW k \in DOMAIN CountUse(l) PROVE Spent(k)'
    <3>1. k \in DOMAIN uses \/ k = l
      BY CountUseEffect
    <3>2. CASE k \in DOMAIN uses
      BY <1>2, <1>4, <2>0, <3>2, NoCallType DEF IInv, Rest, LinksSpent, Spent
    <3>3. CASE k = l
      BY <1>l, <1>2, <1>3, <1>4, <2>0, <3>3, NoCallType DEF IInv, Rest, LinksSpent, Spent
    <3> QED BY <3>1, <3>2, <3>3
  <2>2. ASSUME NEW g \in Handlers, NEW k \in Handlers, call'[g].pc = "link"
        PROVE  /\ call'[g].made # row'.link.value
               /\ call'[k].pc = "reset" => call'[g].made # call'[k].mail.value
    <3>1. call'[g] = call[g] /\ call[g].made # 0
      BY <1>1, <2>0, <2>2 DEF Basis, CallsOK, CallOK, Makers
    <3> QED BY <1>4, <2>0, <2>2, <3>1, NoCallType DEF IInv, Rest, LinksSpent
  <2> QED BY <1>2, <2>1, <2>2 DEF LinksSpent
<1> QED BY <1>7, <1>8, <1>9, <1>10 DEF IInv, Rest

\* A request that writes one of the row's other columns and returns or goes on.
LEMMA ColumnBasis ==
    ASSUME Basis, NEW h \in Handlers, OthersWait(h), call' \in [Handlers -> Calls],
           CallOK(call[h])', call'[h].made \in {0, call[h].made},
           row' \in Rows, row.present => row'.present,
           row'.otp = row.otp, row'.link = row.link,
           row'.secret <= serial, row'.password <= serial, row'.avatar <= serial,
           UNCHANGED <<clock, temp, loggedIn, apps, mailed, latest, serial, calls, failures>>,
           cooldown' = cooldown, files' \subseteq 1..serial
    PROVE  Basis'
<1>1. RowBounds'
  BY Types DEF RowBounds
<1> QED BY <1>1, WriteBasis, Types

LEMMA WritePasswordStep == ASSUME IInv, NEW h \in Handlers, WritePassword(h) PROVE IInv'
<1>1. Basis /\ serial \in Nat
  BY Types DEF IInv
<1>2. /\ call[h].pc = "change" /\ row.present /\ row' = [row EXCEPT !.password = call[h].made]
      /\ UNCHANGED <<clock, temp, loggedIn, apps, mailed, latest, serial, calls, failures>>
      /\ UNCHANGED <<cooldown, files, uses, mixed, lost>> /\ stale' = 0
  BY AtEffect DEF WritePassword, Write
<1>3. call[h].made \in Nat /\ call[h].made <= serial /\ row \in Rows
  BY <1>1, CallTypes, Types
<1>4. /\ row' \in Rows /\ row'.present /\ row'.link = row.link /\ row'.otp = row.otp
      /\ row'.totp = row.totp /\ row'.secret = row.secret
      /\ row'.password = call[h].made /\ row'.avatar = row.avatar
  <2>1. row' \in Rows
    BY <1>2, <1>3, RowEdits
  <2> QED BY <1>2, <1>3, <2>1 DEF Rows
<1>5. /\ call' \in [Handlers -> Calls] /\ OthersWait(h)
      /\ CallOK(call[h])' /\ call'[h].made \in {0, call[h].made} /\ call'[h].pc = "idle"
  BY <1>1, <1>2, ReturnSafe DEF WritePassword
<1>6. Basis'
  BY <1>1, <1>2, <1>3, <1>4, <1>5, ColumnBasis, Types DEF RowBounds
<1>7. FactorSafe' /\ LoginsCounted' /\ UsesCounted' /\ LinksSpent' /\ UploadsSafe' /\ AvatarStored'
  BY <1>1, <1>2, <1>4, <1>5, FactorKept, LoginsRestart, UsesKept, SpentKept, UploadsKept,
     AvatarKept DEF IInv, Rest
<1> QED BY <1>6, <1>7 DEF IInv, Rest

LEMMA WriteSecretStep == ASSUME IInv, NEW h \in Handlers, WriteSecret(h) PROVE IInv'
<1>1. Basis /\ serial \in Nat
  BY Types DEF IInv
<1>2. /\ call[h].pc = "setup" /\ row.present /\ row' = [row EXCEPT !.secret = call[h].made]
      /\ UNCHANGED <<clock, temp, loggedIn, apps, mailed, latest, serial, calls, failures>>
      /\ UNCHANGED <<cooldown, files, uses, stale, mixed, lost>>
  BY AtEffect, ObserversKept DEF WriteSecret, Write
<1>3. call[h].made \in Nat /\ call[h].made <= serial /\ row \in Rows /\ call[h].made # 0
  BY <1>1, <1>2, CallTypes, Types DEF Basis, CallsOK, CallOK, Makers
<1>4. /\ row' \in Rows /\ row'.present /\ row'.link = row.link /\ row'.otp = row.otp
      /\ row'.totp = row.totp /\ row'.secret = call[h].made
      /\ row'.password = row.password /\ row'.avatar = row.avatar
  <2>1. row' \in Rows
    BY <1>2, <1>3, RowEdits
  <2> QED BY <1>2, <1>3, <2>1 DEF Rows
<1>5. /\ call' \in [Handlers -> Calls] /\ OthersWait(h)
      /\ CallOK(call[h])' /\ call'[h].made \in {0, call[h].made} /\ call'[h].pc = "answer"
  BY <1>1, <1>2, <1>3, <1>4, GotoSafe DEF WriteSecret, Pcs
<1>6. Basis'
  BY <1>1, <1>2, <1>3, <1>4, <1>5, ColumnBasis, Types DEF RowBounds
<1>7. FactorSafe'
  BY <1>2, <1>4 DEF IInv, Rest, FactorSafe
<1>8. LoginsCounted' /\ UsesCounted' /\ LinksSpent' /\ UploadsSafe' /\ AvatarStored'
  BY <1>1, <1>2, <1>4, <1>5, LoginsKept, UsesKept, SpentKept, UploadsKept, AvatarKept
     DEF IInv, Rest
<1> QED BY <1>6, <1>7, <1>8 DEF IInv, Rest

LEMMA WriteEnabledStep == ASSUME IInv, NEW h \in Handlers, WriteEnabled(h) PROVE IInv'
<1>1. Basis /\ serial \in Nat
  BY Types DEF IInv
<1>2. /\ call[h].pc = "enable" /\ row.present /\ row' = [row EXCEPT !.totp = TRUE]
      /\ UNCHANGED <<clock, temp, loggedIn, apps, mailed, latest, serial, calls, failures>>
      /\ UNCHANGED <<cooldown, files, uses, lost>> /\ stale' = 0
      /\ mixed' = (row.secret # call[h].read \/ \E g \in Handlers : call[g].pc = "setup")
  BY AtEffect DEF WriteEnabled, Write
<1>3. row \in Rows /\ call[h].read \in apps
  BY <1>1, <1>2, Types DEF Basis, CallsOK, CallOK
<1>4. /\ row' \in Rows /\ row'.present /\ row'.link = row.link /\ row'.otp = row.otp
      /\ row'.totp = TRUE /\ row'.secret = row.secret
      /\ row'.password = row.password /\ row'.avatar = row.avatar
  <2>1. row' \in Rows
    BY <1>2, <1>3, RowEdits
  <2> QED BY <1>2, <1>3, <2>1 DEF Rows
<1>5. /\ call' \in [Handlers -> Calls] /\ OthersWait(h)
      /\ CallOK(call[h])' /\ call'[h].made \in {0, call[h].made} /\ call'[h].pc = "idle"
  BY <1>1, <1>2, ReturnSafe DEF WriteEnabled
<1>6. Basis'
  BY <1>1, <1>2, <1>3, <1>4, <1>5, ColumnBasis, Types DEF RowBounds
<1>7. FactorSafe'
  <2> SUFFICES ASSUME ~mixed' PROVE row'.secret \in apps' /\ \A g \in Handlers : call'[g].pc # "setup"
    BY DEF FactorSafe
  <2>1. row.secret = call[h].read /\ \A g \in Handlers : call[g].pc # "setup"
    BY <1>2
  <2> QED BY <1>2, <1>3, <1>4, <1>5, <2>1 DEF OthersWait
<1>8. LoginsCounted' /\ UsesCounted' /\ LinksSpent' /\ UploadsSafe' /\ AvatarStored'
  BY <1>1, <1>2, <1>4, <1>5, LoginsRestart, UsesKept, SpentKept, UploadsKept, AvatarKept
     DEF IInv, Rest
<1> QED BY <1>6, <1>7, <1>8 DEF IInv, Rest

LEMMA WriteDisabledStep == ASSUME IInv, NEW h \in Handlers, WriteDisabled(h) PROVE IInv'
<1>1. Basis /\ serial \in Nat
  BY Types DEF IInv
<1>2. /\ call[h].pc = "disable" /\ row.present
      /\ row' = [row EXCEPT !.totp = FALSE, !.secret = 0]
      /\ UNCHANGED <<clock, temp, loggedIn, apps, mailed, latest, serial, calls, failures>>
      /\ UNCHANGED <<cooldown, files, uses, lost>> /\ stale' = 0 /\ mixed' = FALSE
  BY AtEffect DEF WriteDisabled, Write
<1>3. row \in Rows
  BY <1>1, Types
<1>4. /\ row' \in Rows /\ row'.present /\ row'.link = row.link /\ row'.otp = row.otp
      /\ row'.totp = FALSE /\ row'.secret = 0
      /\ row'.password = row.password /\ row'.avatar = row.avatar
  <2>1. row' \in Rows
    BY <1>2, <1>3, RowEdits
  <2> QED BY <1>2, <1>3, <2>1 DEF Rows
<1>5. /\ call' \in [Handlers -> Calls] /\ OthersWait(h)
      /\ CallOK(call[h])' /\ call'[h].made \in {0, call[h].made} /\ call'[h].pc = "idle"
  BY <1>1, <1>2, ReturnSafe DEF WriteDisabled
<1>6. Basis'
  BY <1>1, <1>2, <1>3, <1>4, <1>5, ColumnBasis, Types DEF RowBounds
<1>7. FactorSafe'
  BY <1>4 DEF FactorSafe
<1>8. LoginsCounted' /\ UsesCounted' /\ LinksSpent' /\ UploadsSafe' /\ AvatarStored'
  BY <1>1, <1>2, <1>4, <1>5, LoginsRestart, UsesKept, SpentKept, UploadsKept, AvatarKept
     DEF IInv, Rest
<1> QED BY <1>6, <1>7, <1>8 DEF IInv, Rest

LEMMA GrantStep == ASSUME IInv, NEW h \in Handlers, Grant(h) PROVE IInv'
<1>1. Basis /\ serial \in Nat
  BY Types DEF IInv
<1>2. /\ call[h].pc = "grant" /\ loggedIn' = TRUE
      /\ stale' = IF call[h].kind = "login" /\ (call[h].read # row.password \/ row.totp)
                  THEN stale + 1 ELSE stale
      /\ UNCHANGED <<clock, row, cooldown, temp, apps, mailed, latest, files, serial, uses,
                     mixed, lost, calls, failures>>
  BY DEF Grant
<1>3. /\ call' \in [Handlers -> Calls] /\ OthersWait(h)
      /\ CallOK(call[h])' /\ call'[h].made \in {0, call[h].made} /\ call'[h].pc = "idle"
  BY <1>1, <1>2, ReturnSafe DEF Grant
<1>4. CallsOK' /\ Distinct'
  BY <1>1, <1>2, <1>3, CallsKept
<1>5. TypeOK'
  <2>1. \A g \in Handlers : call'[g].made <= serial'
    BY <1>4 DEF CallsOK, CallOK
  <2> QED BY <1>1, <1>2, <1>3, <2>1 DEF Basis, TypeOK
<1>6. FactorSafe' /\ UsesCounted' /\ LinksSpent' /\ UploadsSafe' /\ AvatarStored'
  BY <1>1, <1>2, <1>3, FactorKept, UsesKept, SpentKept, UploadsKept, AvatarKept DEF IInv, Rest
<1>7. LoginsCounted'
  <2>1. Obsolete' = Obsolete \ {h}
    BY <1>2, <1>3 DEF Obsolete, OthersWait
  <2>2. CASE h \in Obsolete
    <3>1. stale' = stale + 1
      BY <1>2, <2>2 DEF Obsolete
    <3>2. Cardinality(Obsolete') = Cardinality(Obsolete) - 1
      BY <2>1, <2>2, ObsoleteFinite, FS_RemoveElement
    <3> QED BY <3>1, <3>2, ObsoleteFinite, Constants DEF IInv, Rest, LoginsCounted
  <2>3. CASE h \notin Obsolete
    <3>1. stale' = stale /\ Obsolete' = Obsolete
      BY <1>2, <2>1, <2>3 DEF Obsolete
    <3> QED BY <3>1 DEF IInv, Rest, LoginsCounted
  <2> QED BY <2>2, <2>3
<1> QED BY <1>4, <1>5, <1>6, <1>7 DEF IInv, Basis, Rest

\* The old avatar's file may go: no upload in progress is that file.
LEMMA DeleteFileStep == ASSUME IInv, NEW h \in Handlers, DeleteFile(h) PROVE IInv'
<1>1. Basis /\ serial \in Nat /\ row.present
  <2>1. call[h].pc = "unlink"
    BY AtEffect DEF DeleteFile
  <2> QED BY <2>1, Types DEF IInv, Basis, CallsOK, CallOK
<1>2. /\ call[h].pc = "unlink" /\ row' = row
      /\ files' \in {files, files \ {call[h].read}}
      /\ UNCHANGED <<clock, temp, loggedIn, apps, mailed, latest, serial, calls, failures>>
      /\ UNCHANGED <<cooldown, uses, stale, mixed, lost>>
  BY AtEffect, ObserversKept DEF DeleteFile
<1>3. /\ call' \in [Handlers -> Calls] /\ OthersWait(h)
      /\ CallOK(call[h])' /\ call'[h].made \in {0, call[h].made}
      /\ call'[h].pc = (IF call[h].made = 0 THEN "avatar" ELSE "save")
      /\ call'[h].made = call[h].made /\ call'[h].read = call[h].read
  <2>1. CASE call[h].made = 0
    BY <1>1, <1>2, <2>1, GotoSafe DEF DeleteFile, Pcs, Makers
  <2>2. CASE call[h].made # 0
    BY <1>1, <1>2, <2>2, GotoSafe DEF DeleteFile, Pcs, Makers
  <2> QED BY <2>1, <2>2
<1>4. Basis'
  <2>1. files' \subseteq 1..serial
    BY <1>1, <1>2, Types
  <2> QED BY <1>1, <1>2, <1>3, <2>1, ColumnBasis, Types DEF RowBounds
<1>5. FactorSafe' /\ LoginsCounted' /\ UsesCounted' /\ LinksSpent'
  BY <1>1, <1>2, <1>3, FactorKept, LoginsKept, UsesKept, SpentKept DEF IInv, Rest
<1>6. UploadsSafe'
  <2> SUFFICES ASSUME NEW k \in Handlers, Uploading(k)'
               PROVE  /\ call'[k].made # row'.avatar
                      /\ \A g \in Handlers : call'[g].pc = "unlink" => call'[g].read # call'[k].made
                      /\ call'[k].pc = "avatar" => call'[k].made \in files'
    BY DEF UploadsSafe
  <2>1. Uploading(k) /\ call'[k].made = call[k].made
    BY <1>2, <1>3 DEF Uploading, OthersWait
  <2>2. /\ call[k].made # row.avatar /\ call[h].read # call[k].made
        /\ \A g \in Handlers : call[g].pc = "unlink" => call[g].read # call[k].made
        /\ call[k].pc = "avatar" => call[k].made \in files
    BY <1>2, <2>1 DEF IInv, Rest, UploadsSafe
  <2>3. call'[k].pc = "avatar" => call[k].made \in files
    BY <1>3, <2>1, <2>2 DEF Uploading, OthersWait
  <2> QED BY <1>2, <1>3, <2>1, <2>2, <2>3 DEF OthersWait
<1>7. AvatarStored'
  BY <1>2, <1>3 DEF IInv, Rest, AvatarStored, OthersWait
<1> QED BY <1>4, <1>5, <1>6, <1>7 DEF IInv, Rest

LEMMA SaveFileStep == ASSUME IInv, NEW h \in Handlers, SaveFile(h) PROVE IInv'
<1>1. Basis /\ serial \in Nat /\ row.present
  <2>1. call[h].pc = "save"
    BY AtEffect DEF SaveFile
  <2> QED BY <2>1, Types DEF IInv, Basis, CallsOK, CallOK
<1>2. /\ call[h].pc = "save" /\ row' = row /\ files' = files \cup {call[h].made}
      /\ UNCHANGED <<clock, temp, loggedIn, apps, mailed, latest, serial, calls, failures>>
      /\ UNCHANGED <<cooldown, uses, stale, mixed, lost>>
  BY AtEffect, ObserversKept DEF SaveFile
<1>3. /\ call' \in [Handlers -> Calls] /\ OthersWait(h)
      /\ CallOK(call[h])' /\ call'[h].made \in {0, call[h].made} /\ call'[h].pc = "avatar"
      /\ call'[h].made = call[h].made /\ call'[h].read = call[h].read
  BY <1>1, <1>2, GotoSafe DEF SaveFile, Pcs, Makers
<1>4. Basis'
  <2>1. call[h].made \in 1..serial
    BY <1>1, <1>2, CallTypes DEF Basis, CallsOK, CallOK, Makers
  <2>2. files' \subseteq 1..serial
    BY <1>1, <1>2, <2>1, Types
  <2> QED BY <1>1, <1>2, <1>3, <2>2, ColumnBasis, Types DEF RowBounds
<1>5. FactorSafe' /\ LoginsCounted' /\ UsesCounted' /\ LinksSpent'
  BY <1>1, <1>2, <1>3, FactorKept, LoginsKept, UsesKept, SpentKept DEF IInv, Rest
<1>6. UploadsSafe'
  BY <1>2, <1>3 DEF IInv, Rest, UploadsSafe, Uploading, OthersWait
<1>7. AvatarStored'
  BY <1>2, <1>3 DEF IInv, Rest, AvatarStored, OthersWait
<1> QED BY <1>4, <1>5, <1>6, <1>7 DEF IInv, Rest

\* What the row names from now on was stored, and nobody else's upload.
LEMMA WriteAvatarStep == ASSUME IInv, NEW h \in Handlers, WriteAvatar(h) PROVE IInv'
<1>1. Basis /\ serial \in Nat
  BY Types DEF IInv
<1>2. /\ call[h].pc = "avatar" /\ row.present /\ row' = [row EXCEPT !.avatar = call[h].made]
      /\ UNCHANGED <<clock, temp, loggedIn, apps, mailed, latest, serial, calls, failures>>
      /\ UNCHANGED <<cooldown, files, uses, stale, mixed, lost>>
  BY AtEffect, ObserversKept DEF WriteAvatar, Write
<1>3. call[h].made \in Nat /\ call[h].made <= serial /\ row \in Rows
  BY <1>1, CallTypes, Types
<1>4. /\ row' \in Rows /\ row'.present /\ row'.link = row.link /\ row'.otp = row.otp
      /\ row'.totp = row.totp /\ row'.secret = row.secret
      /\ row'.password = row.password /\ row'.avatar = call[h].made
  <2>1. row' \in Rows
    BY <1>2, <1>3, RowEdits
  <2> QED BY <1>2, <1>3, <2>1 DEF Rows
<1>5. /\ call' \in [Handlers -> Calls] /\ OthersWait(h)
      /\ CallOK(call[h])' /\ call'[h].made \in {0, call[h].made} /\ call'[h].pc = "idle"
  BY <1>1, <1>2, ReturnSafe DEF WriteAvatar
<1>6. Basis'
  BY <1>1, <1>2, <1>3, <1>4, <1>5, ColumnBasis, Types DEF RowBounds
<1>7. FactorSafe' /\ LoginsCounted' /\ UsesCounted' /\ LinksSpent'
  BY <1>1, <1>2, <1>4, <1>5, FactorKept, LoginsKept, UsesKept, SpentKept DEF IInv, Rest
<1>8. UploadsSafe'
  <2> SUFFICES ASSUME NEW k \in Handlers, Uploading(k)'
               PROVE  /\ call'[k].made # row'.avatar
                      /\ \A g \in Handlers : call'[g].pc = "unlink" => call'[g].read # call'[k].made
                      /\ call'[k].pc = "avatar" => call'[k].made \in files'
    BY DEF UploadsSafe
  <2>1. k # h /\ call'[k] = call[k] /\ Uploading(k) /\ call[k].made # 0
    BY <1>5 DEF Uploading, OthersWait
  <2>2. call[k].made # call[h].made
    BY <1>1, <2>1 DEF Basis, Distinct
  <2> QED BY <1>2, <1>4, <1>5, <2>1, <2>2 DEF IInv, Rest, UploadsSafe, OthersWait
<1>9. AvatarStored'
  <2>1. call[h].made \in {0} \cup files
    BY <1>2 DEF IInv, Rest, UploadsSafe, Uploading
  <2> QED BY <1>2, <1>4, <2>1 DEF AvatarStored
<1> QED BY <1>6, <1>7, <1>8, <1>9 DEF IInv, Rest

LEMMA LeftEffect ==
    ASSUME NEW c, c.pc \in {"save", "avatar"}
    PROVE  c.read \in Left(c) \cup {0}
BY DEF Left

LEMMA FailStep == ASSUME IInv, NEW h \in Handlers, Fail(h) PROVE IInv'
<1>1. Basis /\ serial \in Nat
  BY Types DEF IInv
<1>2. /\ lost' = lost \cup Left(call[h]) /\ failures' = failures + 1
      /\ UNCHANGED <<clock, row, cooldown, temp, loggedIn, apps, mailed, latest, files, serial,
                     uses, stale, mixed, calls>>
  BY DEF Fail, client
<1>3. /\ call' \in [Handlers -> Calls] /\ OthersWait(h)
      /\ CallOK(call[h])' /\ call'[h].made \in {0, call[h].made} /\ call'[h].pc = "idle"
  BY <1>1, <1>2, ReturnSafe DEF Fail
<1>4. CallsOK' /\ Distinct'
  BY <1>1, <1>2, <1>3, CallsKept
<1>5. TypeOK'
  <2>1. \A g \in Handlers : call'[g].made <= serial'
    BY <1>4 DEF CallsOK, CallOK
  <2> QED BY <1>1, <1>2, <1>3, <2>1 DEF Basis, TypeOK
<1>6. Rest'
  BY <1>1, <1>2, <1>3, RestKept, LeftEffect
<1> QED BY <1>4, <1>5, <1>6 DEF IInv, Basis

Busy == {h \in Handlers : call[h].pc # "idle"}

LEMMA BusyFinite == IsFiniteSet(Busy) /\ Cardinality(Busy) \in Nat
<1>1. Busy \subseteq Handlers
  BY DEF Busy
<1> QED BY <1>1, Constants, FS_Subset, FS_CardinalityType

LEMMA CrashStep == ASSUME IInv, Crash PROVE IInv'
<1>1. TypeOK /\ serial \in Nat
  BY Types DEF IInv, Basis
<1>2. /\ lost' = lost \cup UNION {Left(call[h]) : h \in Handlers}
      /\ call' = [h \in Handlers |-> NoCall]
      /\ UNCHANGED <<clock, row, cooldown, temp, loggedIn, apps, mailed, latest, files, serial,
                     uses, stale, mixed, calls>>
  BY DEF Crash, client
<1>3. \A h \in Handlers : /\ call'[h] = NoCall /\ call'[h].pc = "idle"
                          /\ call'[h].made = 0
  BY <1>2, NoCallType
<1>4. CallsOK' /\ Distinct'
  <2>1. \A h \in Handlers : CallOK(call[h])'
    BY <1>1, <1>2, <1>3, NoCallType DEF CallOK, Makers
  <2> QED BY <1>3, <2>1 DEF CallsOK, Distinct
<1>5. TypeOK'
  <2>1. call' \in [Handlers -> Calls] /\ \A g \in Handlers : call'[g].made <= serial'
    BY <1>1, <1>2, <1>3, NoCallType
  <2>2. failures' \in Nat
    BY <1>1, BusyFinite DEF Crash, Busy, TypeOK
  <2> QED BY <1>1, <1>2, <2>1, <2>2 DEF TypeOK
<1>6. FactorSafe' /\ UploadsSafe'
  BY <1>2, <1>3 DEF IInv, Rest, FactorSafe, UploadsSafe, Uploading
<1>7. LoginsCounted'
  <2>1. Obsolete' \subseteq Obsolete
    BY <1>3 DEF Obsolete
  <2> QED BY <1>2, <2>1, LoginsShrink DEF IInv, Rest
<1>8. UsesCounted'
  <2> SUFFICES ASSUME NEW l \in DOMAIN uses
               PROVE  /\ l \in Nat /\ uses[l] \in Nat
                      /\ uses[l] + Cardinality(Holders(l)') <= Cardinality(Handlers)
    BY <1>2 DEF UsesCounted
  <2>1. Holders(l)' \subseteq Holders(l)
    BY <1>3 DEF Holders
  <2>2. Cardinality(Holders(l)') <= Cardinality(Holders(l)) /\ Cardinality(Holders(l)') \in Nat
    BY <2>1, HoldersFinite, FS_Subset, FS_CardinalityType
  <2> QED BY <2>2, HoldersFinite, Constants DEF IInv, Rest, UsesCounted
<1>9. LinksSpent'
  BY <1>2, <1>3 DEF IInv, Rest, LinksSpent, Spent
<1>10. AvatarStored'
  <2>1. \A h \in Handlers : call[h].pc \in {"save", "avatar"} => call[h].read \in lost' \cup {0}
    BY <1>2, LeftEffect
  <2>2. lost \subseteq lost'
    BY <1>2
  <2> QED BY <1>2, <2>1, <2>2 DEF IInv, Rest, AvatarStored
<1> QED BY <1>4, <1>5, <1>6, <1>7, <1>8, <1>9, <1>10 DEF IInv, Basis, Rest

LEMMA UnmovedRest ==
    ASSUME Rest, UNCHANGED <<row, call, apps, files, serial, uses, stale, mixed, lost>>
    PROVE  Rest'
<1>1. FactorSafe' /\ UploadsSafe' /\ AvatarStored'
  BY DEF Rest, FactorSafe, UploadsSafe, Uploading, AvatarStored
<1>2. LoginsCounted'
  BY DEF Rest, LoginsCounted, Obsolete
<1>3. UsesCounted' /\ LinksSpent'
  BY DEF Rest, UsesCounted, LinksSpent, Spent, Holders
<1> QED BY <1>1, <1>2, <1>3 DEF Rest

LEMMA UnmovedCalls ==
    ASSUME CallsOK, Distinct, UNCHANGED <<row, call, apps, serial>>
    PROVE  CallsOK' /\ Distinct'
BY DEF CallsOK, CallOK, Distinct

LEMMA TickStep == ASSUME IInv, Tick PROVE IInv'
<1>1. /\ clock' = clock + 1
      /\ UNCHANGED <<row, cooldown, temp, loggedIn, apps, mailed, latest, files, call, serial,
                     uses, stale, mixed, lost, calls, failures>>
  BY DEF Tick, client, observers
<1>2. TypeOK'
  <2>1. /\ cooldown \in 0..clock' + Cooldown /\ temp \in 0..clock' + TempLife
        /\ {row.otp.expires, row.link.expires} \subseteq 0..clock' + CodeLife
    BY <1>1, Constants DEF IInv, Basis, TypeOK
  <2> QED BY <1>1, <2>1 DEF IInv, Basis, TypeOK
<1> QED BY <1>1, <1>2, UnmovedRest, UnmovedCalls DEF IInv, Basis

LEMMA StutterStep == ASSUME IInv, UNCHANGED vars PROVE IInv'
<1>1. UNCHANGED <<clock, row, cooldown, temp, loggedIn, apps, mailed, latest, files, call, serial,
                  uses, stale, mixed, lost, calls, failures>>
  BY DEF vars, client, observers
<1>2. TypeOK'
  BY <1>1 DEF IInv, Basis, TypeOK
<1> QED BY <1>1, <1>2, UnmovedRest, UnmovedCalls DEF IInv, Basis

LEMMA InitIInv == Init => IInv
<1> SUFFICES ASSUME Init PROVE IInv
  OBVIOUS
<1>1. /\ clock = 0 /\ cooldown = 0 /\ temp = 0 /\ mailed = {} /\ serial = 3
      /\ stale = 0 /\ lost = {} /\ calls = 0 /\ failures = 0
      /\ latest = [k \in Kinds |-> NoMail] /\ DOMAIN uses = {}
      /\ apps = {row.secret} \ {0} /\ files = {row.avatar} \ {0} /\ loggedIn = row.verified
  BY DEF Init
<1>2. \A h \in Handlers : call[h] = NoCall
  BY DEF Init
<1>3. /\ row \in Rows /\ row.otp = NoMail /\ row.link = NoMail
      /\ row.secret \in {0, 2} /\ row.password \in {0, 1} /\ row.avatar \in {0, 3}
      /\ row.present \in BOOLEAN /\ row.verified \in BOOLEAN /\ (row.totp => row.secret = 2)
  <2>1. CASE row = NoRow
    BY <2>1, RowTypes DEF NoRow
  <2>2. CASE row = Registered
    BY <2>2, RowTypes DEF NoRow, Registered
  <2>3. CASE row = Established
    BY <2>3, RowTypes DEF NoRow, Registered, Established
  <2>4. CASE row = Secured
    BY <2>4, RowTypes DEF NoRow, Registered, Established, Secured
  <2> QED BY <2>1, <2>2, <2>3, <2>4 DEF Init
<1>4. TypeOK
  <2>1. /\ {row.otp.expires, row.link.expires} \subseteq 0..clock + CodeLife
        /\ {row.otp.value, row.link.value, row.secret, row.password, row.avatar} \subseteq 0..serial
        /\ cooldown \in 0..clock + Cooldown /\ temp \in 0..clock + TempLife
    BY <1>1, <1>3, NoCallType, Constants
  <2>2. /\ call \in [Handlers -> Calls] /\ \A h \in Handlers : call[h].made <= serial
        /\ latest \in [Kinds -> Mails]
    BY <1>1, NoCallType DEF Init
  <2>3. /\ apps \subseteq 1..serial /\ mailed \subseteq 1..serial /\ files \subseteq 1..serial
    BY <1>1, <1>3
  <2> QED BY <1>1, <1>3, <2>1, <2>2, <2>3 DEF TypeOK
<1>5. CallsOK /\ Distinct
  <2>1. \A h \in Handlers : CallOK(call[h])
    BY <1>1, <1>2, NoCallType DEF CallOK, Makers
  <2> QED BY <1>2, <2>1, NoCallType DEF CallsOK, Distinct
<1>6. FactorSafe /\ UploadsSafe /\ AvatarStored
  BY <1>1, <1>2, <1>3, NoCallType DEF FactorSafe, UploadsSafe, Uploading, AvatarStored
<1>7. LoginsCounted
  <2>1. Obsolete = {}
    BY <1>2, NoCallType DEF Obsolete
  <2> QED BY <1>1, <2>1, FS_EmptySet, Constants DEF LoginsCounted
<1>8. UsesCounted /\ LinksSpent
  BY <1>1, <1>2, NoCallType DEF UsesCounted, LinksSpent
<1> QED BY <1>4, <1>5, <1>6, <1>7, <1>8 DEF IInv, Basis, Rest

LEMMA RequestedStep == ASSUME IInv, NEW h \in Handlers, Requested(h) PROVE IInv'
BY RegisterStep, ResendStep, VerifyRegisterOtpStep, LoginStep, Verify2FAStep, GoogleLoginStep,
   ForgetPasswordStep, ResetPasswordStep, ChangePasswordStep, Setup2FAStep, Enable2FAStep,
   Disable2FAStep, EditProfileStep DEF Requested

LEMMA ProceedStep == ASSUME IInv, NEW h \in Handlers, Proceed(h) PROVE IInv'
BY CreateStep, WriteOtpStep, MailStep, CoolStep, ConfirmStep, GrantStep, GoogleLinkStep,
   GoogleCreateStep, WriteLinkStep, SetPasswordStep, WritePasswordStep, WriteSecretStep,
   AnswerSecretStep, WriteEnabledStep, WriteDisabledStep, DeleteFileStep, SaveFileStep,
   WriteAvatarStep, FailStep DEF Proceed

LEMMA NextIInv == IInv /\ [Next]_vars => IInv'
BY RequestedStep, ProceedStep, CrashStep, TickStep, StutterStep DEF Next

LEMMA Invariance == Spec => []IInv
BY InitIInv, NextIInv, PTL DEF Spec

-----------------------------------------------------------------------------
(* Mails: the code or link that reached the owner last.                    *)

Mailing == {"create", "otp", "link"}

\* Only register creates a row, and only forgetPassword makes links.
KindsMatch ==
    \A h \in Handlers :
        /\ call[h].pc = "link" => call[h].kind = "forget"
        /\ call[h].pc = "otp" => call[h].kind # "forget"
        /\ call[h].pc = "create" => call[h].kind = "register"

\* What is about to be written was never mailed, and what is being mailed is in no other
\* column than its own.
Fresh ==
    \A h \in Handlers : call[h].pc \in Mailing =>
        call[h].made \notin mailed \cup {row.otp.value, row.link.value}
InFlight ==
    \A h \in Handlers : call[h].pc = "mail" =>
        /\ call[h].mail.value = call[h].made
        /\ \A k \in Kinds : Column(k).value = call[h].made =>
              k = MailKind(h) /\ Column(k) = call[h].mail
ResetsMailed == \A h \in Handlers : call[h].pc = "reset" => call[h].mail.value \in mailed
NothingYet == ~row.present => row = NoRow

\* Of either kind: what the row holds and the owner was mailed is what was mailed last;
\* what the owner was not mailed is on its way or lost; a column is emptied under the
\* owner's hands only by a use or across another request.
Delivered(k) ==
    Column(k).value \in mailed => latest[k] = Column(k) \/ latest[k].value \in crossed
OnItsWay(k) ==
    \/ Column(k).value \in {0} \cup mailed \cup lost
    \/ \E h \in Handlers : call[h].pc = "mail" /\ call[h].mail = Column(k)
Cleared(k) ==
    Column(k).value = 0 /\ (k = "otp" => ~row.verified)
        => latest[k].value \in {0} \cup crossed \cup DOMAIN uses

MailCalls == KindsMatch /\ Fresh /\ InFlight /\ ResetsMailed /\ NothingYet
MailsInv == MailCalls /\ \A k \in Kinds : Delivered(k) /\ OnItsWay(k) /\ Cleared(k)

LEMMA Columns ==
    ASSUME TypeOK, NEW k \in Kinds
    PROVE  /\ Column(k) \in Mails /\ Column(k).value \in Nat /\ Column(k).value <= serial
           /\ Column(k) \in {row.otp, row.link}
BY RowFields DEF Column

LEMMA SameColumns ==
    ASSUME row'.otp = row.otp, row'.link = row.link
    PROVE  \A k \in Kinds : Column(k)' = Column(k)
BY DEF Column

\* A step that leaves mails and columns alone.
Undisturbed ==
    /\ UNCHANGED <<mailed, latest, crossed>>
    /\ row'.otp = row.otp /\ row'.link = row.link
    /\ row'.present \/ row' = row
    /\ row.verified => row'.verified
    /\ lost \subseteq lost' /\ DOMAIN uses \subseteq DOMAIN uses'

\* What the request does next if it is about to make or to send something.
Proper(h) ==
    /\ call'[h].pc # "mail"
    /\ call'[h].pc \in Mailing => call'[h].made = serial + 1
    /\ call'[h].pc = "link" => call'[h].kind = "forget"
    /\ call'[h].pc = "otp" => call'[h].kind # "forget"
    /\ call'[h].pc = "create" => call'[h].kind = "register"
    /\ call'[h].pc = "reset" => call'[h].mail.value \in mailed

LEMMA MailCallsKept ==
    ASSUME TypeOK, MailCalls, NEW h \in Handlers, OthersWait(h), Undisturbed, Proper(h)
    PROVE  MailCalls'
<1>1. KindsMatch' /\ ResetsMailed' /\ NothingYet'
  BY DEF MailCalls, KindsMatch, ResetsMailed, NothingYet, Undisturbed, Proper, OthersWait
<1>2. Fresh'
  <2> SUFFICES ASSUME NEW g \in Handlers, call'[g].pc \in Mailing
               PROVE  call'[g].made \notin mailed \cup {row.otp.value, row.link.value}
    BY DEF Fresh, Undisturbed
  <2>1. CASE g = h
    BY <2>1, RowFields DEF Proper, TypeOK
  <2>2. CASE g # h
    BY <2>2 DEF MailCalls, Fresh, OthersWait
  <2> QED BY <2>1, <2>2
<1>3. InFlight'
  <2> SUFFICES ASSUME NEW g \in Handlers, call'[g].pc = "mail"
               PROVE  /\ call'[g].mail.value = call'[g].made
                      /\ \A k \in Kinds : Column(k)'.value = call'[g].made =>
                            k = MailKind(g)' /\ Column(k)' = call'[g].mail
    BY DEF InFlight
  <2>1. call'[g] = call[g] /\ call[g].pc = "mail" /\ MailKind(g)' = MailKind(g)
    BY DEF Proper, OthersWait, MailKind
  <2>2. \A k \in Kinds : Column(k)' = Column(k)
    BY SameColumns DEF Undisturbed
  <2> QED BY <2>1, <2>2 DEF MailCalls, InFlight
<1> QED BY <1>1, <1>2, <1>3 DEF MailCalls

LEMMA MailsKept ==
    ASSUME TypeOK, MailsInv, NEW h \in Handlers, OthersWait(h), Undisturbed, Proper(h),
           call[h].pc = "mail" => call[h].mail.value \in lost'
    PROVE  MailsInv'
<1>1. MailCalls'
  BY MailCallsKept DEF MailsInv
<1>2. ASSUME NEW k \in Kinds PROVE Delivered(k)' /\ OnItsWay(k)' /\ Cleared(k)'
  <2>1. /\ Column(k)' = Column(k) /\ latest'[k] = latest[k] /\ mailed' = mailed
        /\ crossed' = crossed /\ lost \subseteq lost' /\ DOMAIN uses \subseteq DOMAIN uses'
        /\ row.verified => row'.verified
    BY SameColumns DEF Undisturbed
  <2>2. Delivered(k) /\ OnItsWay(k) /\ Cleared(k)
    BY DEF MailsInv
  <2>3. Delivered(k)' /\ Cleared(k)'
    BY <2>1, <2>2 DEF Delivered, Cleared
  <2>4. CASE Column(k).value \in {0} \cup mailed \cup lost
    BY <2>1, <2>3, <2>4 DEF OnItsWay
  <2>5. ASSUME NEW g \in Handlers, call[g].pc = "mail", call[g].mail = Column(k)
        PROVE  OnItsWay(k)'
    BY <2>1, <2>5 DEF OnItsWay, OthersWait
  <2> QED BY <2>2, <2>3, <2>4, <2>5 DEF OnItsWay
<1> QED BY <1>1, <1>2 DEF MailsInv

-----------------------------------------------------------------------------
(* Resends: how many codes one window of the cooldown's length can hold.   *)

\* Resends on their way: those that have yet to send, and those that have yet to set the
\* cooldown.
Unsent == {h \in Handlers : call[h].kind = "resend" /\ call[h].pc \in {"otp", "mail"}}
Sent == {h \in Handlers : call[h].kind = "resend" /\ call[h].pc = "cool"}
InWindow(t) == {r \in resent : r.time \in t..t + Cooldown - 1}

\* Until a cooldown covers the rest of the window, whoever resent in it is about to set
\* one or has failed; from then on only those come to send who were on their way.
WindowOK(t) ==
    IF cooldown < t + Cooldown
    THEN Cardinality(InWindow(t)) <= Cardinality(Sent) + failures
    ELSE Cardinality(InWindow(t)) + (IF clock < t + Cooldown THEN Cardinality(Unsent) ELSE 0)
            <= Cardinality(Handlers) + failures

ResendsInv ==
    /\ IsFiniteSet(resent)
    /\ \A r \in resent : r.time \in Nat /\ r.time <= clock
    /\ \A t \in Nat : WindowOK(t)

LEMMA Counts ==
    /\ IsFiniteSet(Sent) /\ Cardinality(Sent) \in Nat
    /\ IsFiniteSet(Unsent) /\ Cardinality(Unsent) \in Nat
    /\ Cardinality(Sent) + Cardinality(Unsent) <= Cardinality(Handlers)
<1>1. Sent \subseteq Handlers /\ Unsent \subseteq Handlers /\ Sent \cap Unsent = {}
  BY DEF Sent, Unsent
<1>2. /\ IsFiniteSet(Sent) /\ Cardinality(Sent) \in Nat
      /\ IsFiniteSet(Unsent) /\ Cardinality(Unsent) \in Nat
  BY <1>1, Constants, FS_Subset, FS_CardinalityType
<1>3. Cardinality(Sent \cup Unsent) = Cardinality(Sent) + Cardinality(Unsent)
  BY <1>1, <1>2, FS_Union, FS_EmptySet
<1>4. Cardinality(Sent \cup Unsent) <= Cardinality(Handlers)
  BY <1>1, Constants, FS_Subset
<1> QED BY <1>2, <1>3, <1>4

LEMMA Windows ==
    ASSUME ResendsInv, NEW t \in Nat
    PROVE  /\ IsFiniteSet(InWindow(t)) /\ Cardinality(InWindow(t)) \in Nat
           /\ t > clock /\ clock \in Nat => Cardinality(InWindow(t)) = 0
<1>1. InWindow(t) \subseteq resent
  BY DEF InWindow
<1>2. IsFiniteSet(InWindow(t)) /\ Cardinality(InWindow(t)) \in Nat
  BY <1>1, FS_Subset, FS_CardinalityType DEF ResendsInv
<1>3. ASSUME t > clock, clock \in Nat PROVE Cardinality(InWindow(t)) = 0
  <2>1. InWindow(t) = {}
    BY <1>3, Constants DEF InWindow, ResendsInv
  <2> QED BY <2>1, FS_EmptySet
<1> QED BY <1>2, <1>3

LEMMA WindowsKept ==
    ASSUME ResendsInv, UNCHANGED <<clock, cooldown, resent, failures>>,
           Sent' = Sent, Unsent' = Unsent
    PROVE  ResendsInv'
<1>1. \A t \in Nat : InWindow(t)' = InWindow(t)
  BY DEF InWindow
<1> QED BY <1>1 DEF ResendsInv, WindowOK

LEMMA ResendsKept ==
    ASSUME ResendsInv, UNCHANGED <<clock, cooldown, resent, failures>>,
           NEW h \in Handlers, OthersWait(h),
           call[h].kind = "resend" => call[h].pc \notin {"otp", "mail", "cool"},
           call'[h].kind = "resend" => call'[h].pc \notin {"otp", "mail", "cool"}
    PROVE  ResendsInv'
BY WindowsKept DEF Sent, Unsent, OthersWait

-----------------------------------------------------------------------------
(* Requests and steps that leave mails and resends alone.                  *)

Traffic == MailsInv /\ ResendsInv

Quiet == Undisturbed /\ UNCHANGED <<clock, cooldown, resent, failures>>

LEMMA QuietReturn ==
    ASSUME IInv, Traffic, NEW h \in Handlers, Return(h), Quiet,
           call[h].pc \notin {"otp", "mail", "cool"}
    PROVE  Traffic'
<1>1. OthersWait(h) /\ call'[h].pc = "idle"
  BY ReturnEffect, NoCallType DEF IInv, Basis, OthersWait
<1>2. MailsInv'
  BY <1>1, MailsKept DEF Traffic, IInv, Basis, Quiet, Proper, Mailing
<1>3. ResendsInv'
  BY <1>1, ResendsKept DEF Traffic, Quiet
<1> QED BY <1>2, <1>3 DEF Traffic

LEMMA QuietGoto ==
    ASSUME IInv, Traffic, NEW h \in Handlers, NEW pc \in {"grant", "answer", "save", "avatar"},
           Goto(h, pc), Quiet, call[h].pc \notin {"otp", "mail", "cool"}
    PROVE  Traffic'
<1>1. OthersWait(h) /\ call'[h].pc = pc
  BY GotoEffect DEF IInv, Basis, OthersWait, Pcs
<1>2. MailsInv'
  BY <1>1, MailsKept DEF Traffic, IInv, Basis, Quiet, Proper, Mailing
<1>3. ResendsInv'
  BY <1>1, ResendsKept DEF Traffic, Quiet
<1> QED BY <1>2, <1>3 DEF Traffic

\* What a request finds when it has begun.
LEMMA BeginFrame ==
    ASSUME NEW h \in Handlers, NEW pc, NEW kind, NEW makes, NEW read, NEW mail,
           Begin(h, pc, kind, makes, read, mail), TypeOK
    PROVE  /\ Quiet /\ OthersWait(h) /\ call[h].pc = "idle" /\ call'[h].pc = pc
           /\ call'[h].kind = kind /\ call'[h].mail = mail
           /\ makes = TRUE => call'[h].made = serial + 1
<1>1. /\ UNCHANGED <<clock, row, cooldown, files, mailed, latest, loggedIn, apps, failures>>
      /\ UNCHANGED <<uses, stale, resent, mixed, crossed, lost>>
      /\ call[h].pc = "idle"
  BY DEF Begin, observers
<1>2. Quiet
  BY <1>1 DEF Quiet, Undisturbed
<1> DEFINE made == IF makes THEN serial + 1 ELSE 0
<1>3. /\ OthersWait(h)
      /\ call'[h] = [pc |-> pc, kind |-> kind, made |-> made, read |-> read, mail |-> mail]
  BY DEF Begin, Become, TypeOK, OthersWait
<1>4. makes = TRUE => made = serial + 1
  OBVIOUS
<1> HIDE DEF made
<1> QED BY <1>1, <1>2, <1>3, <1>4

LEMMA QuietBegin ==
    ASSUME IInv, Traffic, NEW h \in Handlers, NEW pc, NEW kind, NEW makes, NEW read, NEW mail,
           Begin(h, pc, kind, makes, read, mail),
           pc # "mail", pc \in Mailing => makes = TRUE,
           pc = "link" => kind = "forget", pc = "otp" => kind # "forget",
           pc = "create" => kind = "register",
           pc = "reset" => mail.value \in mailed, kind # "resend"
    PROVE  Traffic'
<1>1. /\ Quiet /\ OthersWait(h) /\ call[h].pc = "idle" /\ call'[h].pc = pc
      /\ call'[h].kind = kind /\ call'[h].mail = mail
      /\ makes = TRUE => call'[h].made = serial + 1
  BY BeginFrame DEF IInv, Basis
<1>2. MailsInv'
  BY <1>1, MailsKept DEF Traffic, IInv, Basis, Quiet, Proper, Mailing
<1>3. ResendsInv'
  BY <1>1, ResendsKept DEF Traffic, Quiet
<1> QED BY <1>2, <1>3 DEF Traffic

LEMMA QuietRequests ==
    ASSUME IInv, Traffic, NEW h \in Handlers,
           \/ Register(h) \/ VerifyRegisterOtp(h) \/ Verify2FA(h) \/ GoogleLogin(h)
           \/ ForgetPassword(h) \/ ResetPassword(h) \/ ChangePassword(h) \/ Setup2FA(h)
           \/ Enable2FA(h) \/ Disable2FA(h) \/ EditProfile(h)
    PROVE  Traffic'
<1>1. CASE Register(h)
  BY <1>1, QuietBegin DEF Register, Mailing
<1>2. CASE VerifyRegisterOtp(h)
  <2>1. PICK m : m = row.otp
    OBVIOUS
  <2>2. Begin(h, "confirm", "other", FALSE, 0, m)
    BY <1>2, <2>1 DEF VerifyRegisterOtp
  <2> QED BY <2>2, QuietBegin DEF Mailing
<1>3. CASE Verify2FA(h)
  BY <1>3, QuietBegin DEF Verify2FA, Mailing
<1>4. CASE GoogleLogin(h)
  <2>1. CASE row.present
    BY <1>4, <2>1, QuietBegin DEF GoogleLogin, Mailing
  <2>2. CASE ~row.present
    BY <1>4, <2>2, QuietBegin DEF GoogleLogin, Mailing
  <2> QED BY <2>1, <2>2
<1>5. CASE ForgetPassword(h)
  BY <1>5, QuietBegin DEF ForgetPassword, Mailing
<1>6. CASE ResetPassword(h)
  <2>1. PICK m : m = row.link
    OBVIOUS
  <2>2. Begin(h, "reset", "other", TRUE, 0, m) /\ m.value \in mailed
    BY <1>6, <2>1 DEF ResetPassword, Works
  <2> QED BY <2>2, QuietBegin DEF Mailing
<1>7. CASE ChangePassword(h)
  BY <1>7, QuietBegin DEF ChangePassword, Mailing
<1>8. CASE Setup2FA(h)
  BY <1>8, QuietBegin DEF Setup2FA, Mailing
<1>9. CASE Enable2FA(h)
  BY <1>9, QuietBegin DEF Enable2FA, Mailing
<1>10. CASE Disable2FA(h)
  BY <1>10, QuietBegin DEF Disable2FA, Mailing
<1>11. CASE EditProfile(h)
  BY <1>11, QuietBegin DEF EditProfile, Mailing
<1> QED BY <1>1, <1>2, <1>3, <1>4, <1>5, <1>6, <1>7, <1>8, <1>9, <1>10, <1>11

LEMMA UnmovedTraffic ==
    ASSUME TypeOK, Traffic, clock' \in {clock, clock + 1},
           UNCHANGED <<row, call, mailed, latest, cooldown, uses, resent, crossed, lost, failures>>
    PROVE  Traffic'
<1>1. MailCalls'
  BY DEF Traffic, MailsInv, MailCalls, KindsMatch, Fresh, InFlight, ResetsMailed, NothingYet,
         MailKind, Column
<1>2. \A k \in Kinds : Delivered(k)' /\ OnItsWay(k)' /\ Cleared(k)'
  BY DEF Traffic, MailsInv, Delivered, OnItsWay, Cleared, Column
<1>3. ResendsInv'
  <2>1. /\ IsFiniteSet(resent') /\ \A r \in resent' : r.time \in Nat /\ r.time <= clock'
    BY DEF Traffic, ResendsInv, TypeOK
  <2>2. ASSUME NEW t \in Nat PROVE WindowOK(t)'
    <3>1. /\ InWindow(t)' = InWindow(t) /\ Sent' = Sent /\ Unsent' = Unsent
          /\ Cardinality(InWindow(t)) \in Nat /\ Cardinality(Unsent) \in Nat
      BY Windows, Counts DEF InWindow, Sent, Unsent, Traffic
    <3>2. WindowOK(t)
      BY DEF Traffic, ResendsInv
    <3>3. /\ failures' = failures /\ failures \in Nat /\ clock \in Nat
          /\ cooldown \in Nat /\ cooldown' = cooldown
      BY Constants DEF TypeOK
    <3> QED BY <3>1, <3>2, <3>3, Constants DEF WindowOK
  <2> QED BY <2>1, <2>2 DEF ResendsInv
<1> QED BY <1>1, <1>2, <1>3 DEF Traffic, MailsInv

LEMMA LoginTraffic == ASSUME IInv, Traffic, NEW h \in Handlers, Login(h) PROVE Traffic'
<1>1. CASE Begin(h, "otp", "login", TRUE, row.password, NoMail)
  BY <1>1, QuietBegin DEF Mailing
<1>2. CASE Begin(h, "grant", "login", FALSE, row.password, NoMail)
  BY <1>2, QuietBegin DEF Mailing
<1>3. CASE UNCHANGED <<clock, row, cooldown, mailed, latest, call, observers, failures>>
  BY <1>3, UnmovedTraffic DEF observers, IInv, Basis
<1> QED BY <1>1, <1>2, <1>3 DEF Login

LEMMA QuietSteps ==
    ASSUME IInv, Traffic, NEW h \in Handlers,
           \/ Grant(h) \/ GoogleLink(h) \/ GoogleCreate(h) \/ WritePassword(h) \/ WriteSecret(h)
           \/ AnswerSecret(h) \/ WriteEnabled(h) \/ WriteDisabled(h) \/ DeleteFile(h)
           \/ SaveFile(h) \/ WriteAvatar(h)
    PROVE  Traffic'
<1>r. row \in Rows
  BY RowFields DEF IInv, Basis
<1>1. CASE Grant(h)
  BY <1>1, QuietReturn DEF Grant, Quiet, Undisturbed
<1>2. CASE GoogleLink(h)
  <2>1. /\ row'.otp = row.otp /\ row'.link = row.link /\ row'.present
        /\ row.verified => row'.verified
    BY <1>r, <1>2 DEF GoogleLink, Write, Rows
  <2>2. /\ call[h].pc = "google" /\ Goto(h, "grant")
        /\ UNCHANGED <<clock, cooldown, mailed, latest, resent, crossed, lost, failures, uses>>
    BY <1>2, AtEffect, ObserversKept DEF GoogleLink
  <2> QED BY <2>1, <2>2, QuietGoto DEF Quiet, Undisturbed
<1>3. CASE GoogleCreate(h)
  <2>1. /\ call[h].pc = "googleCreate"
        /\ UNCHANGED <<clock, cooldown, mailed, latest, uses, resent, crossed, lost, failures>>
    BY <1>3, AtEffect, ObserversKept DEF GoogleCreate
  <2>2. CASE row.present /\ Return(h) /\ UNCHANGED row
    BY <2>1, <2>2, QuietReturn DEF Quiet, Undisturbed
  <2>3. CASE /\ ~row.present /\ Goto(h, "grant")
             /\ row' = [NoRow EXCEPT !.present = TRUE, !.provider = "google", !.verified = TRUE]
    <3>1. row = NoRow
      BY <2>3 DEF Traffic, MailsInv, MailCalls, NothingYet
    <3>2. row'.otp = row.otp /\ row'.link = row.link /\ row'.present /\ row'.verified
      BY <2>3, <3>1 DEF NoRow
    <3> QED BY <2>1, <2>3, <3>2, QuietGoto DEF Quiet, Undisturbed
  <2> QED BY <1>3, <2>2, <2>3 DEF GoogleCreate
<1>4. CASE WritePassword(h)
  <2>1. /\ row'.otp = row.otp /\ row'.link = row.link /\ row'.present
        /\ row.verified => row'.verified
    BY <1>r, <1>4 DEF WritePassword, Write, Rows
  <2>2. /\ call[h].pc = "change" /\ Return(h)
        /\ UNCHANGED <<clock, cooldown, mailed, latest, resent, crossed, lost, failures, uses>>
    BY <1>4, AtEffect DEF WritePassword
  <2> QED BY <2>1, <2>2, QuietReturn DEF Quiet, Undisturbed
<1>5. CASE WriteSecret(h)
  <2>1. /\ row'.otp = row.otp /\ row'.link = row.link /\ row'.present
        /\ row.verified => row'.verified
    BY <1>r, <1>5 DEF WriteSecret, Write, Rows
  <2>2. /\ call[h].pc = "setup" /\ Goto(h, "answer")
        /\ UNCHANGED <<clock, cooldown, mailed, latest, resent, crossed, lost, failures, uses>>
    BY <1>5, AtEffect, ObserversKept DEF WriteSecret
  <2> QED BY <2>1, <2>2, QuietGoto DEF Quiet, Undisturbed
<1>6. CASE AnswerSecret(h)
  BY <1>6, QuietReturn, ObserversKept DEF AnswerSecret, Quiet, Undisturbed
<1>7. CASE WriteEnabled(h)
  <2>1. /\ row'.otp = row.otp /\ row'.link = row.link /\ row'.present
        /\ row.verified => row'.verified
    BY <1>r, <1>7 DEF WriteEnabled, Write, Rows
  <2>2. /\ call[h].pc = "enable" /\ Return(h)
        /\ UNCHANGED <<clock, cooldown, mailed, latest, resent, crossed, lost, failures, uses>>
    BY <1>7, AtEffect DEF WriteEnabled
  <2> QED BY <2>1, <2>2, QuietReturn DEF Quiet, Undisturbed
<1>8. CASE WriteDisabled(h)
  <2>1. /\ row'.otp = row.otp /\ row'.link = row.link /\ row'.present
        /\ row.verified => row'.verified
    BY <1>r, <1>8 DEF WriteDisabled, Write, Rows
  <2>2. /\ call[h].pc = "disable" /\ Return(h)
        /\ UNCHANGED <<clock, cooldown, mailed, latest, resent, crossed, lost, failures, uses>>
    BY <1>8, AtEffect DEF WriteDisabled
  <2> QED BY <2>1, <2>2, QuietReturn DEF Quiet, Undisturbed
<1>9. CASE DeleteFile(h)
  <2>1. Quiet /\ call[h].pc = "unlink"
    BY <1>9, AtEffect, ObserversKept DEF DeleteFile, Quiet, Undisturbed
  <2>2. Goto(h, "avatar") \/ Goto(h, "save")
    BY <1>9 DEF DeleteFile
  <2> QED BY <2>1, <2>2, QuietGoto
<1>10. CASE SaveFile(h)
  BY <1>10, QuietGoto, AtEffect, ObserversKept DEF SaveFile, Quiet, Undisturbed
<1>11. CASE WriteAvatar(h)
  <2>1. /\ row'.otp = row.otp /\ row'.link = row.link /\ row'.present
        /\ row.verified => row'.verified
    BY <1>r, <1>11 DEF WriteAvatar, Write, Rows
  <2>2. /\ call[h].pc = "avatar" /\ Return(h)
        /\ UNCHANGED <<clock, cooldown, mailed, latest, resent, crossed, lost, failures, uses>>
    BY <1>11, AtEffect, ObserversKept DEF WriteAvatar
  <2> QED BY <2>1, <2>2, QuietReturn DEF Quiet, Undisturbed
<1> QED BY <1>1, <1>2, <1>3, <1>4, <1>5, <1>6, <1>7, <1>8, <1>9, <1>10, <1>11

-----------------------------------------------------------------------------
(* Requests and steps that change mails.                                   *)

\* The row gets the code or link that the request has made.
LEMMA MailsWritten ==
    ASSUME IInv, MailsInv, NEW h \in Handlers, call[h].pc \in Mailing,
           Become(h, [call[h] EXCEPT !.pc = "mail", !.mail = NewMail(h)]),
           NEW k \in Kinds, k = MailKind(h), Column(k)' = NewMail(h),
           \A j \in Kinds \ {k} : Column(j)' = Column(j),
           row'.present, row.verified => row'.verified,
           UNCHANGED <<clock, mailed, latest, uses, crossed, lost>>
    PROVE  MailsInv'
<1>1. /\ call'[h].pc = "mail" /\ call'[h].made = call[h].made
      /\ call'[h].mail = NewMail(h) /\ call'[h].kind = call[h].kind /\ OthersWait(h)
      /\ NewMail(h).value = call[h].made
  BY SendEffect, NewMailType DEF IInv, Basis, OthersWait
<1>2. /\ call[h].made # 0 /\ call[h].made \notin mailed
      /\ \A j \in Kinds : Column(j).value # call[h].made
  BY DEF IInv, Basis, CallsOK, CallOK, Makers, Mailing, MailsInv, MailCalls, Fresh, Column, Kinds
<1>3. \A g \in Handlers \ {h} : call[g].made # call[h].made /\ call'[g] = call[g]
  BY <1>1, <1>2 DEF IInv, Basis, Distinct, OthersWait
<1>4. \A j \in Kinds : Column(j)'.value \in {Column(j).value, call[h].made}
  BY <1>1
<1>5. KindsMatch' /\ ResetsMailed' /\ NothingYet'
  BY <1>1, <1>3 DEF MailsInv, MailCalls, KindsMatch, ResetsMailed, NothingYet
<1>6. Fresh'
  <2> SUFFICES ASSUME NEW g \in Handlers, call'[g].pc \in Mailing
               PROVE  call'[g].made \notin mailed \cup {row'.otp.value, row'.link.value}
    BY DEF Fresh
  <2>1. g # h /\ call'[g] = call[g] /\ call[g].made # call[h].made
    BY <1>1, <1>3 DEF Mailing
  <2>2. call[g].made \notin mailed \cup {Column("otp").value, Column("link").value}
    BY <2>1 DEF MailsInv, MailCalls, Fresh, Column
  <2>3. row'.otp = Column("otp")' /\ row'.link = Column("link")' /\ {"otp", "link"} = Kinds
    BY DEF Column, Kinds
  <2> QED BY <1>4, <2>1, <2>2, <2>3
<1>7. InFlight'
  <2> SUFFICES ASSUME NEW g \in Handlers, call'[g].pc = "mail"
               PROVE  /\ call'[g].mail.value = call'[g].made
                      /\ \A j \in Kinds : Column(j)'.value = call'[g].made =>
                            j = MailKind(g)' /\ Column(j)' = call'[g].mail
    BY DEF InFlight
  <2>1. MailKind(g)' = MailKind(g)
    BY <1>1, <1>3 DEF MailKind
  <2>2. CASE g = h
    BY <1>1, <1>2, <2>1, <2>2
  <2>3. CASE g # h
    BY <1>1, <1>3, <1>4, <2>1, <2>3 DEF MailsInv, MailCalls, InFlight
  <2> QED BY <2>2, <2>3
<1>8. ASSUME NEW j \in Kinds PROVE Delivered(j)' /\ OnItsWay(j)' /\ Cleared(j)'
  <2>1. CASE j = k
    BY <1>1, <1>2, <2>1 DEF Delivered, OnItsWay, Cleared
  <2>2. CASE j # k
    <3>1. Column(j)' = Column(j) /\ Delivered(j) /\ OnItsWay(j) /\ Cleared(j)
      BY <2>2 DEF MailsInv
    <3>2. Delivered(j)' /\ Cleared(j)'
      BY <3>1 DEF Delivered, Cleared
    <3>3. CASE Column(j).value \in {0} \cup mailed \cup lost
      <4>1. Column(j)'.value \in {0} \cup mailed' \cup lost'
        BY <3>1, <3>3
      <4> QED BY <3>2, <4>1 DEF OnItsWay
    <3>4. ASSUME NEW g \in Handlers, call[g].pc = "mail", call[g].mail = Column(j)
          PROVE  OnItsWay(j)'
      <4>1. g # h
        BY <3>4 DEF Mailing
      <4> QED BY <1>3, <3>1, <3>4, <4>1 DEF OnItsWay
    <3> QED BY <3>1, <3>2, <3>3, <3>4 DEF OnItsWay
  <2> QED BY <2>1, <2>2
<1> QED BY <1>5, <1>6, <1>7, <1>8 DEF MailsInv, MailCalls

\* A resend that has written its code is still to send it.
LEMMA ResendsWritten ==
    ASSUME IInv, ResendsInv, NEW h \in Handlers, call[h].pc \in Mailing,
           call[h].kind = "resend" => call[h].pc = "otp",
           Become(h, [call[h] EXCEPT !.pc = "mail", !.mail = NewMail(h)]),
           UNCHANGED <<clock, cooldown, resent, failures>>
    PROVE  ResendsInv'
<1>1. /\ call'[h].pc = "mail" /\ call'[h].kind = call[h].kind
      /\ \A g \in Handlers \ {h} : call'[g] = call[g]
  BY SendEffect DEF IInv, Basis
<1>2. Sent' = Sent /\ Unsent' = Unsent
  BY <1>1 DEF Sent, Unsent, Mailing
<1> QED BY <1>2, WindowsKept

LEMMA WriteOtpTraffic == ASSUME IInv, Traffic, NEW h \in Handlers, WriteOtp(h) PROVE Traffic'
<1>1. /\ call[h].pc = "otp" /\ row.present /\ row' = [row EXCEPT !.otp = NewMail(h)]
      /\ Become(h, [call[h] EXCEPT !.pc = "mail", !.mail = NewMail(h)])
      /\ UNCHANGED <<clock, cooldown, mailed, latest, uses, resent, crossed, lost, failures>>
  BY AtEffect, ObserversKept DEF WriteOtp, Write
<1>2. "otp" \in Kinds /\ "otp" = MailKind(h)
  BY <1>1 DEF Traffic, MailsInv, MailCalls, KindsMatch, MailKind, Kinds
<1>3. row'.otp = NewMail(h) /\ row'.link = row.link /\ row'.present /\ row'.verified = row.verified
  BY <1>1, RowFields DEF IInv, Basis, Rows
<1>4. Column("otp")' = NewMail(h) /\ \A j \in Kinds \ {"otp"} : Column(j)' = Column(j)
  BY <1>3 DEF Column
<1>5. MailsInv'
  BY <1>1, <1>2, <1>3, <1>4, MailsWritten DEF Traffic, Mailing
<1>6. ResendsInv'
  BY <1>1, ResendsWritten DEF Traffic, Mailing
<1> QED BY <1>5, <1>6 DEF Traffic

LEMMA WriteLinkTraffic == ASSUME IInv, Traffic, NEW h \in Handlers, WriteLink(h) PROVE Traffic'
<1>1. /\ call[h].pc = "link" /\ row.present /\ row' = [row EXCEPT !.link = NewMail(h)]
      /\ Become(h, [call[h] EXCEPT !.pc = "mail", !.mail = NewMail(h)])
      /\ UNCHANGED <<clock, cooldown, mailed, latest, uses, resent, crossed, lost, failures>>
  BY AtEffect, ObserversKept DEF WriteLink, Write
<1>2. "link" \in Kinds /\ "link" = MailKind(h) /\ call[h].kind = "forget"
  BY <1>1 DEF Traffic, MailsInv, MailCalls, KindsMatch, MailKind, Kinds
<1>3. row'.link = NewMail(h) /\ row'.otp = row.otp /\ row'.present /\ row'.verified = row.verified
  BY <1>1, RowFields DEF IInv, Basis, Rows
<1>4. Column("link")' = NewMail(h) /\ \A j \in Kinds \ {"link"} : Column(j)' = Column(j)
  BY <1>3 DEF Column, Kinds
<1>5. MailsInv'
  BY <1>1, <1>2, <1>3, <1>4, MailsWritten DEF Traffic, Mailing
<1>6. ResendsInv'
  BY <1>1, <1>2, ResendsWritten DEF Traffic, Mailing
<1> QED BY <1>5, <1>6 DEF Traffic

LEMMA CreateTraffic == ASSUME IInv, Traffic, NEW h \in Handlers, Create(h) PROVE Traffic'
<1>1. /\ call[h].pc = "create"
      /\ UNCHANGED <<clock, cooldown, mailed, latest, uses, resent, crossed, lost, failures>>
  BY AtEffect, ObserversKept DEF Create
<1>2. CASE row.present /\ Return(h) /\ UNCHANGED row
  BY <1>1, <1>2, QuietReturn DEF Quiet, Undisturbed
<1>3. CASE /\ ~row.present
           /\ row' = [NoRow EXCEPT !.present = TRUE, !.password = call[h].made,
                                   !.otp = NewMail(h)]
           /\ Become(h, [call[h] EXCEPT !.pc = "mail", !.mail = NewMail(h)])
  <2>1. row = NoRow
    BY <1>3 DEF Traffic, MailsInv, MailCalls, NothingYet
  <2>2. "otp" \in Kinds /\ "otp" = MailKind(h) /\ call[h].kind = "register"
    BY <1>1 DEF Traffic, MailsInv, MailCalls, KindsMatch, MailKind, Kinds
  <2>3. row'.otp = NewMail(h) /\ row'.link = row.link /\ row'.present /\ row'.verified = row.verified
    BY <1>3, <2>1 DEF NoRow
  <2>4. Column("otp")' = NewMail(h) /\ \A j \in Kinds \ {"otp"} : Column(j)' = Column(j)
    BY <2>3 DEF Column
  <2>5. MailsInv'
    BY <1>1, <1>3, <2>2, <2>3, <2>4, MailsWritten DEF Traffic, Mailing
  <2>6. ResendsInv'
    BY <1>1, <1>3, <2>2, ResendsWritten DEF Traffic, Mailing
  <2> QED BY <2>5, <2>6 DEF Traffic
<1> QED BY <1>2, <1>3 DEF Create

\* A resend begins only when no cooldown covers the present.
LEMMA ResendTraffic == ASSUME IInv, Traffic, NEW h \in Handlers, Resend(h) PROVE Traffic'
<1>1. /\ cooldown <= clock /\ Quiet /\ OthersWait(h) /\ call[h].pc = "idle"
      /\ call'[h].pc \in {"otp", "cool"} /\ call'[h].kind = "resend"
      /\ call'[h].pc = "otp" => call'[h].made = serial + 1
  <2>1. TypeOK /\ cooldown <= clock
    BY DEF Resend, IInv, Basis
  <2>2. CASE Begin(h, "otp", "resend", TRUE, 0, NoMail)
    BY <2>1, <2>2, BeginFrame
  <2>3. CASE Begin(h, "cool", "resend", FALSE, 0, NoMail)
    BY <2>1, <2>3, BeginFrame
  <2> QED BY <2>2, <2>3 DEF Resend
<1>2. MailsInv'
  BY <1>1, MailsKept DEF Traffic, IInv, Basis, Quiet, Proper, Mailing
<1>3. ASSUME NEW t \in Nat PROVE WindowOK(t)'
  <2>1. /\ WindowOK(t) /\ InWindow(t)' = InWindow(t) /\ Cardinality(InWindow(t)) \in Nat
        /\ clock' = clock /\ cooldown' = cooldown /\ failures' = failures
    BY <1>1, Windows DEF Traffic, ResendsInv, Quiet, InWindow
  <2>2. clock \in Nat /\ cooldown \in Nat /\ failures \in Nat
    BY Constants DEF IInv, Basis, TypeOK
  <2>3. /\ Cardinality(Sent) \in Nat /\ Cardinality(Sent') \in Nat
        /\ Cardinality(Sent) <= Cardinality(Sent')
    <3>1. Sent' = Sent \cup {h} \/ Sent' = Sent
      BY <1>1 DEF Sent, OthersWait
    <3>2. Cardinality(Sent \cup {h}) \in {Cardinality(Sent), Cardinality(Sent) + 1}
      BY Counts, FS_AddElement
    <3> QED BY <3>1, <3>2, Counts
  <2>4. Cardinality(Unsent) \in Nat
    BY Counts
  <2> QED BY <1>1, <2>1, <2>2, <2>3, <2>4, Constants DEF WindowOK
<1>4. ResendsInv'
  BY <1>1, <1>3 DEF Traffic, ResendsInv, Quiet
<1> QED BY <1>2, <1>4 DEF Traffic

\* The mail of a code or link that the row still holds is the latest of its kind; any
\* other arrives crossed.
LEMMA MailsDelivered == ASSUME IInv, MailsInv, NEW h \in Handlers, Mail(h) PROVE MailsInv'
<1> DEFINE k == MailKind(h)
           mail == call[h].mail
<1>1. /\ call[h].pc = "mail" /\ mailed' = mailed \cup {mail.value}
      /\ latest' = [latest EXCEPT ![k] = mail]
      /\ crossed' = crossed \cup {v \in {mail.value} : v # Column(k).value}
      /\ UNCHANGED <<row, uses, lost>> /\ (Goto(h, "cool") \/ Return(h))
  BY DEF Mail
<1>2. OthersWait(h) /\ call'[h].pc \in {"idle", "cool"}
  BY <1>1, GotoEffect, ReturnEffect, NoCallType DEF IInv, Basis, OthersWait, Pcs
<1>3. /\ k \in Kinds /\ mail.value = call[h].made /\ mail.value # 0
      /\ latest \in [Kinds -> Mails]
  BY <1>1 DEF MailsInv, MailCalls, InFlight, IInv, Basis, CallsOK, CallOK, MailKind, Kinds, TypeOK
<1>4. \A j \in Kinds : Column(j)' = Column(j) /\ (Column(j).value = mail.value => j = k /\ Column(j) = mail)
  BY <1>1, <1>3 DEF MailsInv, MailCalls, InFlight, Column
<1>5. \A g \in Handlers \ {h} : call'[g] = call[g] /\ call[g].made # mail.value
  BY <1>2, <1>3 DEF IInv, Basis, Distinct, OthersWait
<1>6. MailCalls'
  <2>1. KindsMatch' /\ ResetsMailed' /\ NothingYet'
    BY <1>1, <1>2 DEF MailsInv, MailCalls, KindsMatch, ResetsMailed, NothingYet, OthersWait
  <2>2. Fresh'
    BY <1>1, <1>2, <1>5 DEF MailsInv, MailCalls, Fresh, Mailing
  <2>3. InFlight'
    <3> SUFFICES ASSUME NEW g \in Handlers, call'[g].pc = "mail"
                 PROVE  /\ call'[g].mail.value = call'[g].made
                        /\ \A j \in Kinds : Column(j)'.value = call'[g].made =>
                              j = MailKind(g)' /\ Column(j)' = call'[g].mail
      BY DEF InFlight
    <3>1. g # h /\ call'[g] = call[g] /\ MailKind(g)' = MailKind(g)
      BY <1>2 DEF OthersWait, MailKind
    <3> QED BY <1>4, <3>1 DEF MailsInv, MailCalls, InFlight
  <2> QED BY <2>1, <2>2, <2>3 DEF MailCalls
<1>7. ASSUME NEW j \in Kinds PROVE Delivered(j)' /\ OnItsWay(j)' /\ Cleared(j)'
  <2>1. Delivered(j) /\ OnItsWay(j) /\ Cleared(j) /\ Column(j)' = Column(j)
    BY <1>4 DEF MailsInv
  <2>2. Delivered(j)' /\ Cleared(j)'
    <3>1. CASE j = k
      <4>1. latest'[j] = mail
        BY <1>1, <1>3, <3>1
      <4>2. CASE Column(j).value = mail.value
        BY <1>3, <1>4, <2>1, <4>1, <4>2 DEF Delivered, Cleared
      <4>3. CASE Column(j).value # mail.value
        <5>1. mail.value \in crossed'
          BY <1>1, <3>1, <4>3
        <5> QED BY <4>1, <5>1 DEF Delivered, Cleared
      <4> QED BY <4>2, <4>3
    <3>2. CASE j # k
      <4>1. latest'[j] = latest[j] /\ Column(j).value # mail.value
        BY <1>1, <1>3, <1>4, <3>2
      <4> QED BY <1>1, <2>1, <4>1 DEF Delivered, Cleared
    <3> QED BY <3>1, <3>2
  <2>3. OnItsWay(j)'
    <3>1. CASE Column(j).value \in {0} \cup mailed \cup lost
      <4>1. Column(j)'.value \in {0} \cup mailed' \cup lost'
        BY <1>1, <2>1, <3>1
      <4> QED BY <4>1 DEF OnItsWay
    <3>2. ASSUME NEW g \in Handlers, call[g].pc = "mail", call[g].mail = Column(j)
          PROVE  OnItsWay(j)'
      BY <1>1, <1>5, <2>1, <3>2 DEF OnItsWay
    <3> QED BY <2>1, <3>1, <3>2 DEF OnItsWay
  <2> QED BY <2>2, <2>3
<1> QED BY <1>6, <1>7 DEF MailsInv

LEMMA ResendsSent == ASSUME IInv, ResendsInv, NEW h \in Handlers, Mail(h) PROVE ResendsInv'
<1>1. /\ call[h].pc = "mail" /\ UNCHANGED <<clock, cooldown, failures>>
      /\ resent' = resent \cup {[code |-> call[h].mail.value, time |-> clock] :
                                   kind \in {call[h].kind} \cap {"resend"}}
      /\ IF call[h].kind = "resend" THEN Goto(h, "cool") ELSE Return(h)
  BY DEF Mail
<1>2. CASE call[h].kind # "resend"
  <2>1. OthersWait(h) /\ call'[h].pc = "idle"
    BY <1>1, <1>2, ReturnEffect, NoCallType DEF IInv, Basis, OthersWait
  <2>2. resent' = resent
    BY <1>1, <1>2
  <2> QED BY <1>1, <1>2, <2>1, <2>2, ResendsKept
<1>3. CASE call[h].kind = "resend"
  <2> DEFINE r == [code |-> call[h].mail.value, time |-> clock]
  <2>1. resent' = resent \cup {r} /\ r.time = clock
    BY <1>1, <1>3
  <2>2. OthersWait(h) /\ call'[h].pc = "cool" /\ call'[h].kind = "resend"
    BY <1>1, <1>3, GotoEffect DEF IInv, Basis, OthersWait, Pcs
  <2>3. clock \in Nat /\ cooldown \in Nat /\ failures \in Nat
    BY Constants DEF IInv, Basis, TypeOK
  <2> HIDE DEF r
  <2>4. /\ Cardinality(Sent') = Cardinality(Sent) + 1
        /\ Cardinality(Unsent') = Cardinality(Unsent) - 1
        /\ Cardinality(Sent) \in Nat /\ Cardinality(Unsent) \in Nat
    <3>1. Sent' = Sent \cup {h} /\ h \notin Sent /\ Unsent' = Unsent \ {h} /\ h \in Unsent
      BY <1>1, <1>3, <2>2 DEF Sent, Unsent, OthersWait
    <3> QED BY <3>1, Counts, FS_AddElement, FS_RemoveElement
  <2>5. ASSUME NEW t \in Nat PROVE WindowOK(t)'
    <3>1. /\ WindowOK(t) /\ IsFiniteSet(InWindow(t)) /\ Cardinality(InWindow(t)) \in Nat
      BY Windows DEF ResendsInv
    <3>2. /\ Cardinality(InWindow(t)') \in {Cardinality(InWindow(t)), Cardinality(InWindow(t)) + 1}
          /\ clock >= t + Cooldown => Cardinality(InWindow(t)') = Cardinality(InWindow(t))
      <4>1. CASE clock \in t..t + Cooldown - 1
        <5>1. InWindow(t)' = InWindow(t) \cup {r}
          BY <2>1, <4>1 DEF InWindow
        <5>2. Cardinality(InWindow(t) \cup {r})
                 \in {Cardinality(InWindow(t)), Cardinality(InWindow(t)) + 1}
          BY <3>1, FS_AddElement
        <5>3. ~(clock >= t + Cooldown)
          BY <2>3, <4>1, Constants
        <5> QED BY <5>1, <5>2, <5>3
      <4>2. CASE clock \notin t..t + Cooldown - 1
        <5>1. InWindow(t)' = InWindow(t)
          BY <2>1, <4>2 DEF InWindow
        <5> QED BY <5>1
      <4> QED BY <4>1, <4>2
    <3> QED BY <1>1, <2>3, <2>4, <3>1, <3>2, Constants DEF WindowOK
  <2>6. IsFiniteSet(resent') /\ \A q \in resent' : q.time \in Nat /\ q.time <= clock'
    <3>1. IsFiniteSet(resent \cup {r})
      BY FS_AddElement DEF ResendsInv
    <3> QED BY <1>1, <2>1, <2>3, <3>1 DEF ResendsInv
  <2> QED BY <2>5, <2>6 DEF ResendsInv
<1> QED BY <1>2, <1>3

\* From now on the window is the business of those who are on their way.
LEMMA CoolTraffic == ASSUME IInv, Traffic, NEW h \in Handlers, Cool(h) PROVE Traffic'
<1>1. /\ call[h].pc = "cool" /\ cooldown' = clock + Cooldown /\ Return(h)
      /\ UNCHANGED <<row, clock, mailed, latest, uses, resent, crossed, lost, failures>>
  BY AtEffect, ObserversKept DEF Cool
<1>2. OthersWait(h) /\ call'[h].pc = "idle"
  BY <1>1, ReturnEffect, NoCallType DEF IInv, Basis, OthersWait
<1>3. MailsInv'
  BY <1>1, <1>2, MailsKept DEF Traffic, IInv, Basis, Undisturbed, Proper, Mailing
<1>4. ASSUME NEW t \in Nat PROVE WindowOK(t)'
  <2>1. /\ WindowOK(t) /\ InWindow(t)' = InWindow(t) /\ Cardinality(InWindow(t)) \in Nat
        /\ t > clock => Cardinality(InWindow(t)) = 0
    BY <1>1, Windows DEF Traffic, ResendsInv, InWindow, IInv, Basis, TypeOK
  <2>2. clock \in Nat /\ cooldown \in Nat /\ failures \in Nat
    BY Constants DEF IInv, Basis, TypeOK
  <2>3. /\ Cardinality(Sent) \in Nat /\ Cardinality(Unsent) \in Nat
        /\ Cardinality(Sent) + Cardinality(Unsent) <= Cardinality(Handlers)
        /\ Cardinality(Sent') \in Nat /\ Unsent' = Unsent
    <3>1. Sent' = Sent \ {h} /\ Unsent' = Unsent
      BY <1>1, <1>2 DEF Sent, Unsent, OthersWait
    <3>2. Cardinality(Sent') \in Nat
      BY <3>1, Counts, FS_RemoveElement, FS_CardinalityType
    <3> QED BY <3>1, <3>2, Counts
  <2> QED BY <1>1, <2>1, <2>2, <2>3, Constants DEF WindowOK
<1>5. ResendsInv'
  BY <1>1, <1>4 DEF Traffic, ResendsInv
<1> QED BY <1>3, <1>5 DEF Traffic

\* A column is emptied by the request that used it, or by one that wiped a newer mail.
LEMMA MailsCleared ==
    ASSUME IInv, MailsInv, NEW h \in Handlers, Return(h), call[h].pc # "mail",
           NEW k \in Kinds, Column(k)' = NoMail,
           \A j \in Kinds \ {k} : Column(j)' = Column(j),
           row'.present, row.verified => row'.verified,
           UNCHANGED <<mailed, latest, lost>>, crossed \subseteq crossed',
           DOMAIN uses \subseteq DOMAIN uses',
           \/ k = "otp" /\ row'.verified
           \/ latest[k].value \in {0} \cup crossed' \cup DOMAIN uses'
    PROVE  MailsInv'
<1>1. OthersWait(h) /\ call'[h].pc = "idle"
  BY ReturnEffect, NoCallType DEF IInv, Basis, OthersWait
<1>2. KindsMatch' /\ ResetsMailed' /\ NothingYet'
  BY <1>1 DEF MailsInv, MailCalls, KindsMatch, ResetsMailed, NothingYet, OthersWait
<1>3. Fresh'
  <2> SUFFICES ASSUME NEW g \in Handlers, call'[g].pc \in Mailing
               PROVE  call'[g].made \notin mailed' \cup {row'.otp.value, row'.link.value}
    BY DEF Fresh
  <2>1. call'[g] = call[g] /\ call[g].made # 0
    BY <1>1 DEF OthersWait, Mailing, IInv, Basis, CallsOK, CallOK, Makers
  <2>2. call[g].made \notin mailed \cup {Column("otp").value, Column("link").value}
    BY <2>1 DEF MailsInv, MailCalls, Fresh, Column
  <2>3. row'.otp = Column("otp")' /\ row'.link = Column("link")' /\ {"otp", "link"} = Kinds
    BY DEF Column, Kinds
  <2> QED BY <2>1, <2>2, <2>3, NoCallType
<1>4. InFlight'
  <2> SUFFICES ASSUME NEW g \in Handlers, call'[g].pc = "mail"
               PROVE  /\ call'[g].mail.value = call'[g].made
                      /\ \A j \in Kinds : Column(j)'.value = call'[g].made =>
                            j = MailKind(g)' /\ Column(j)' = call'[g].mail
    BY DEF InFlight
  <2>1. call'[g] = call[g] /\ MailKind(g)' = MailKind(g) /\ call[g].mail.value # 0
    BY <1>1 DEF OthersWait, MailKind, IInv, Basis, CallsOK, CallOK
  <2> QED BY <2>1, NoCallType DEF MailsInv, MailCalls, InFlight
<1>5. ASSUME NEW j \in Kinds PROVE Delivered(j)' /\ OnItsWay(j)' /\ Cleared(j)'
  <2>1. Delivered(j) /\ OnItsWay(j) /\ Cleared(j)
    BY DEF MailsInv
  <2>2. CASE j = k
    <3>1. Column(j)'.value = 0 /\ 0 \notin mailed
      BY <2>2, NoCallType, RowFields DEF IInv, Basis, TypeOK
    <3> QED BY <2>2, <3>1 DEF Delivered, OnItsWay, Cleared
  <2>3. CASE j # k
    <3>1. Column(j)' = Column(j)
      BY <2>3
    <3>2. Delivered(j)' /\ Cleared(j)'
      BY <2>1, <3>1 DEF Delivered, Cleared
    <3>3. CASE Column(j).value \in {0} \cup mailed \cup lost
      <4>1. Column(j)'.value \in {0} \cup mailed' \cup lost'
        BY <3>1, <3>3
      <4> QED BY <3>2, <4>1 DEF OnItsWay
    <3>4. ASSUME NEW g \in Handlers, call[g].pc = "mail", call[g].mail = Column(j)
          PROVE  OnItsWay(j)'
      BY <1>1, <3>1, <3>4 DEF OnItsWay, OthersWait
    <3> QED BY <2>1, <3>2, <3>3, <3>4 DEF OnItsWay
  <2> QED BY <2>2, <2>3
<1> QED BY <1>2, <1>3, <1>4, <1>5 DEF MailsInv, MailCalls

LEMMA ConfirmTraffic == ASSUME IInv, Traffic, NEW h \in Handlers, Confirm(h) PROVE Traffic'
<1>1. /\ call[h].pc = "confirm" /\ row.present /\ Return(h)
      /\ row' = [row EXCEPT !.verified = TRUE, !.otp = NoMail]
      /\ UNCHANGED <<clock, cooldown, mailed, latest, uses, resent, crossed, lost, failures>>
  BY AtEffect, ObserversKept DEF Confirm, Write
<1>2. row'.otp = NoMail /\ row'.link = row.link /\ row'.present /\ row'.verified
  BY <1>1, RowFields DEF IInv, Basis, Rows
<1>3. /\ "otp" \in Kinds /\ Column("otp")' = NoMail
      /\ \A j \in Kinds \ {"otp"} : Column(j)' = Column(j)
  BY <1>2 DEF Column, Kinds
<1>4. MailsInv'
  BY <1>1, <1>2, <1>3, MailsCleared DEF Traffic
<1>5. OthersWait(h) /\ call'[h].pc = "idle"
  BY <1>1, ReturnEffect, NoCallType DEF IInv, Basis, OthersWait
<1>6. ResendsInv'
  BY <1>1, <1>5, ResendsKept DEF Traffic
<1> QED BY <1>4, <1>6 DEF Traffic

LEMMA SetPasswordTraffic ==
    ASSUME IInv, Traffic, NEW h \in Handlers, SetPassword(h) PROVE Traffic'
<1> DEFINE l == call[h].mail.value
<1>1. /\ call[h].pc = "reset" /\ row.present /\ Return(h)
      /\ row' = [row EXCEPT !.password = call[h].made, !.link = NoMail]
      /\ uses' = CountUse(l)
      /\ crossed' = IF row.link.value \in {0, l} THEN crossed
                    ELSE crossed \cup {row.link.value, latest["link"].value}
      /\ UNCHANGED <<clock, cooldown, mailed, latest, resent, lost, failures>>
  BY AtEffect DEF SetPassword, Write
<1>2. row'.link = NoMail /\ row'.otp = row.otp /\ row'.present /\ row'.verified = row.verified
  BY <1>1, RowFields DEF IInv, Basis, Rows
<1>3. /\ "link" \in Kinds /\ Column("link")' = NoMail /\ Column("link") = row.link
      /\ \A j \in Kinds \ {"link"} : Column(j)' = Column(j)
  BY <1>2 DEF Column, Kinds
<1>4. DOMAIN uses' = DOMAIN uses \cup {l}
  BY <1>1 DEF CountUse
<1>5. latest["link"].value \in {0} \cup crossed' \cup DOMAIN uses'
  <2>1. Delivered("link") /\ Cleared("link") /\ l \in mailed
    BY <1>1, <1>3 DEF Traffic, MailsInv, MailCalls, ResetsMailed
  <2>2. CASE row.link.value = 0
    BY <1>1, <1>3, <1>4, <2>1, <2>2 DEF Cleared
  <2>3. CASE row.link.value = l
    BY <1>1, <1>3, <1>4, <2>1, <2>3 DEF Delivered
  <2>4. CASE row.link.value \notin {0, l}
    BY <1>1, <2>4
  <2> QED BY <2>2, <2>3, <2>4
<1>6. MailsInv'
  <2>1. crossed \subseteq crossed' /\ DOMAIN uses \subseteq DOMAIN uses'
    BY <1>1, <1>4
  <2> QED BY <1>1, <1>2, <1>3, <1>5, <2>1, MailsCleared DEF Traffic
<1>7. OthersWait(h) /\ call'[h].pc = "idle"
  BY <1>1, ReturnEffect, NoCallType DEF IInv, Basis, OthersWait
<1>8. ResendsInv'
  BY <1>1, <1>7, ResendsKept DEF Traffic
<1> QED BY <1>6, <1>8 DEF Traffic

\* A request that fails loses its mail, and counts as the cooldown that it does not set.
LEMMA FailTraffic == ASSUME IInv, Traffic, NEW h \in Handlers, Fail(h) PROVE Traffic'
<1>1. /\ lost' = lost \cup Left(call[h]) /\ failures' = failures + 1 /\ Return(h)
      /\ UNCHANGED <<clock, row, cooldown, mailed, latest, uses, resent, crossed>>
  BY DEF Fail, client
<1>2. OthersWait(h) /\ call'[h].pc = "idle"
  BY <1>1, ReturnEffect, NoCallType DEF IInv, Basis, OthersWait
<1>3. MailsInv'
  <2>1. call[h].pc = "mail" => call[h].mail.value \in lost'
    BY <1>1 DEF Left
  <2> QED BY <1>1, <1>2, <2>1, MailsKept DEF Traffic, IInv, Basis, Undisturbed, Proper, Mailing
<1>4. ASSUME NEW t \in Nat PROVE WindowOK(t)'
  <2>1. /\ WindowOK(t) /\ InWindow(t)' = InWindow(t) /\ Cardinality(InWindow(t)) \in Nat
    BY <1>1, Windows DEF Traffic, ResendsInv, InWindow
  <2>2. clock \in Nat /\ cooldown \in Nat /\ failures \in Nat
    BY Constants DEF IInv, Basis, TypeOK
  <2>3. /\ Cardinality(Sent') \in {Cardinality(Sent), Cardinality(Sent) - 1}
        /\ Cardinality(Unsent') \in {Cardinality(Unsent), Cardinality(Unsent) - 1}
        /\ Cardinality(Sent) \in Nat /\ Cardinality(Unsent) \in Nat
    <3>1. Sent' = Sent \ {h} /\ Unsent' = Unsent \ {h}
      BY <1>2 DEF Sent, Unsent, OthersWait
    <3> QED BY <3>1, Counts, FS_RemoveElement
  <2> QED BY <1>1, <2>1, <2>2, <2>3, Constants DEF WindowOK
<1>5. ResendsInv'
  BY <1>1, <1>4 DEF Traffic, ResendsInv
<1> QED BY <1>3, <1>5 DEF Traffic

LEMMA CrashTraffic == ASSUME IInv, Traffic, Crash PROVE Traffic'
<1>1. /\ lost' = lost \cup UNION {Left(call[h]) : h \in Handlers}
      /\ call' = [h \in Handlers |-> NoCall] /\ failures' = failures + Cardinality(Busy)
      /\ UNCHANGED <<clock, row, cooldown, mailed, latest, uses, resent, crossed>>
  BY DEF Crash, client, Busy
<1>2. \A h \in Handlers : call'[h].pc = "idle"
  BY <1>1, NoCallType
<1>3. MailCalls'
  BY <1>1, <1>2 DEF Traffic, MailsInv, MailCalls, KindsMatch, Fresh, InFlight, ResetsMailed,
                    NothingYet, Mailing
<1>4. ASSUME NEW k \in Kinds PROVE Delivered(k)' /\ OnItsWay(k)' /\ Cleared(k)'
  <2>1. Delivered(k) /\ OnItsWay(k) /\ Cleared(k) /\ Column(k)' = Column(k)
    BY <1>1, SameColumns DEF Traffic, MailsInv
  <2>2. \A h \in Handlers : call[h].pc = "mail" => call[h].mail.value \in lost'
    BY <1>1 DEF Left
  <2>3. Column(k)'.value \in {0} \cup mailed' \cup lost'
    BY <1>1, <2>1, <2>2 DEF OnItsWay
  <2> QED BY <1>1, <2>1, <2>3 DEF Delivered, OnItsWay, Cleared
<1>5. ASSUME NEW t \in Nat PROVE WindowOK(t)'
  <2>1. /\ WindowOK(t) /\ InWindow(t)' = InWindow(t) /\ Cardinality(InWindow(t)) \in Nat
    BY <1>1, Windows DEF Traffic, ResendsInv, InWindow
  <2>2. clock \in Nat /\ cooldown \in Nat /\ failures \in Nat
    BY Constants DEF IInv, Basis, TypeOK
  <2>3. Cardinality(Sent') = 0 /\ Cardinality(Unsent') = 0
    <3>1. Sent' = {} /\ Unsent' = {}
      BY <1>2 DEF Sent, Unsent
    <3> QED BY <3>1, FS_EmptySet
  <2>4. Cardinality(Sent) <= Cardinality(Busy) /\ Cardinality(Sent) \in Nat
        /\ Cardinality(Busy) \in Nat /\ Cardinality(Unsent) \in Nat
    <3>1. Sent \subseteq Busy
      BY DEF Sent, Busy
    <3> QED BY <3>1, BusyFinite, Counts, FS_Subset
  <2> QED BY <1>1, <2>1, <2>2, <2>3, <2>4, Constants DEF WindowOK
<1>6. ResendsInv'
  BY <1>1, <1>5 DEF Traffic, ResendsInv
<1> QED BY <1>3, <1>4, <1>6 DEF Traffic, MailsInv

LEMMA InitTraffic == Init => Traffic
<1> SUFFICES ASSUME Init PROVE Traffic
  OBVIOUS
<1>1. /\ clock = 0 /\ cooldown = 0 /\ mailed = {} /\ resent = {} /\ failures = 0
      /\ latest = [k \in Kinds |-> NoMail] /\ \A h \in Handlers : call[h].pc = "idle"
  BY NoCallType DEF Init
<1>2. row.otp = NoMail /\ row.link = NoMail /\ (~row.present => row = NoRow)
  <2>1. CASE row = NoRow
    BY <2>1, RowTypes
  <2>2. CASE row = Registered
    BY <2>2, RowTypes DEF NoRow, Registered
  <2>3. CASE row = Established
    BY <2>3, RowTypes DEF NoRow, Registered, Established
  <2>4. CASE row = Secured
    BY <2>4, RowTypes DEF NoRow, Registered, Established, Secured
  <2> QED BY <2>1, <2>2, <2>3, <2>4 DEF Init
<1>3. MailCalls
  BY <1>1, <1>2 DEF MailCalls, KindsMatch, Fresh, InFlight, ResetsMailed, NothingYet, Mailing
<1>4. \A k \in Kinds : Delivered(k) /\ OnItsWay(k) /\ Cleared(k)
  BY <1>1, <1>2, NoCallType DEF Delivered, OnItsWay, Cleared, Column
<1>5. ResendsInv
  <2>1. ASSUME NEW t \in Nat PROVE WindowOK(t)
    <3>1. InWindow(t) = {}
      BY <1>1 DEF InWindow
    <3> QED BY <1>1, <3>1, FS_EmptySet, Counts, Constants DEF WindowOK
  <2> QED BY <1>1, <2>1, FS_EmptySet DEF ResendsInv
<1> QED BY <1>3, <1>4, <1>5 DEF Traffic, MailsInv

LEMMA NextTraffic == IInv /\ Traffic /\ [Next]_vars => Traffic'
<1> SUFFICES ASSUME IInv, Traffic, [Next]_vars PROVE Traffic'
  OBVIOUS
<1>1. ASSUME NEW h \in Handlers, Requested(h) PROVE Traffic'
  BY <1>1, QuietRequests, LoginTraffic, ResendTraffic DEF Requested
<1>2. ASSUME NEW h \in Handlers, Proceed(h) PROVE Traffic'
  <2>1. CASE Mail(h)
    BY <2>1, MailsDelivered, ResendsSent DEF Traffic
  <2> QED BY <1>2, <2>1, QuietSteps, CreateTraffic, WriteOtpTraffic, WriteLinkTraffic,
             CoolTraffic, ConfirmTraffic, SetPasswordTraffic, FailTraffic DEF Proceed
<1>3. ASSUME \/ Tick \/ UNCHANGED vars PROVE Traffic'
  BY <1>3, UnmovedTraffic DEF Tick, vars, client, observers, IInv, Basis
<1> QED BY <1>1, <1>2, <1>3, CrashTraffic DEF Next

LEMMA TrafficInvariance == Spec => []Traffic
<1>1. Init => IInv /\ Traffic
  BY InitIInv, InitTraffic
<1>2. IInv /\ Traffic /\ [Next]_vars => (IInv /\ Traffic)'
  BY NextIInv, NextTraffic
<1> QED BY <1>1, <1>2, PTL DEF Spec

-----------------------------------------------------------------------------
(* The theorems.                                                           *)

\* The row, the requests in progress and everything the owner holds keep their types,
\* and no code, link, cooldown or token lives longer than it was given.
THEOREM TypeCorrect == Spec => []TypeOK
<1>1. IInv => TypeOK
  BY DEF IInv, Basis
<1> QED BY <1>1, Invariance, PTL

\* Enabling the second factor never locks the owner out: the secret that logins ask for
\* is one the authenticator was given, unless another setup crossed the verification.
THEOREM FactorsUsable == Spec => []SecondFactorUsable
<1>1. IInv => SecondFactorUsable
  BY DEF IInv, Rest, FactorSafe, SecondFactorUsable
<1> QED BY <1>1, Invariance, PTL

\* One reset link sets at most one password per request that held it at the same time.
THEOREM LinksRunOut == Spec => []LinkUsesBounded
<1>1. IInv => LinkUsesBounded
  <2> SUFFICES ASSUME IInv, NEW l \in DOMAIN uses PROVE uses[l] <= Cardinality(Handlers)
    BY DEF LinkUsesBounded
  <2>1. /\ uses[l] \in Nat
        /\ uses[l] + Cardinality(Holders(l)) <= Cardinality(Handlers)
    BY DEF IInv, Rest, UsesCounted
  <2> QED BY <2>1, HoldersFinite, Constants
<1> QED BY <1>1, Invariance, PTL

\* After a change of credentials fewer sessions than there are requests are granted on
\* the old ones.
THEOREM StaleLoginsRunOut == Spec => []StaleLoginsBounded
<1>1. IInv => StaleLoginsBounded
  BY ObsoleteFinite, Constants DEF IInv, Rest, LoginsCounted, StaleLoginsBounded
<1> QED BY <1>1, Invariance, PTL

\* The avatar that the row names is stored, being replaced, or was lost to a failure.
THEOREM AvatarsStored == Spec => []AvatarStored
<1>1. IInv => AvatarStored
  BY DEF IInv, Rest
<1> QED BY <1>1, Invariance, PTL

\* The code or link that reached the owner last works until it is used, expires, or is
\* crossed by a request that replaces it, whatever happens to the calls that mail them.
THEOREM NewestMailsWork == Spec => []NewestMailWorks
<1>1. IInv /\ Traffic => NewestMailWorks
  <2> SUFFICES ASSUME IInv, Traffic, NEW k \in Kinds,
                      latest[k].value \notin {0} \cup crossed \cup DOMAIN uses,
                      k = "otp" => ~row.verified
               PROVE  \/ Column(k) = latest[k]
                      \/ Column(k).value \in lost
                      \/ \E h \in Handlers : call[h].pc = "mail" /\ call[h].mail = Column(k)
    BY DEF NewestMailWorks
  <2>1. Delivered(k) /\ OnItsWay(k) /\ Cleared(k)
    BY DEF Traffic, MailsInv
  <2> QED BY <2>1 DEF Delivered, OnItsWay, Cleared
<1> QED BY <1>1, Invariance, TrafficInvariance, PTL

\* In no window of the cooldown's length are more codes resent than requests can be in
\* progress, and one more for every request that failed before it set its cooldown.
THEOREM ResendsAreSpaced == Spec => []ResendsSpaced
<1>1. IInv /\ Traffic => ResendsSpaced
  <2> SUFFICES ASSUME IInv, Traffic, NEW t \in 0..MaxTime
               PROVE  Cardinality(InWindow(t)) <= Cardinality(Handlers) + failures
    BY DEF ResendsSpaced, InWindow
  <2>1. t \in Nat /\ failures \in Nat /\ clock \in Nat /\ cooldown \in Nat
    BY Constants DEF IInv, Basis, TypeOK
  <2>2. WindowOK(t) /\ Cardinality(InWindow(t)) \in Nat
    BY <2>1, Windows DEF Traffic, ResendsInv
  <2> QED BY <2>1, <2>2, Counts, Constants DEF WindowOK
<1> QED BY <1>1, Invariance, TrafficInvariance, PTL
=============================================================================

---------------------------- MODULE SessionLife ----------------------------
(***************************************************************************)
(* What the sessions promise about the tokens that name them.  A session is*)
(* opened once, for one user, and closed for good.  Its tokens are in force*)
(* only while it is open, and one that has been taken back, by whatever    *)
(* revocation, failed logout or lapse of time, never comes into force      *)
(* again.  Nothing is promised of the tokens of a session that a race of   *)
(* logins and revocations has spoiled.                                     *)
(*                                                                         *)
(* Sessions implements this specification.                                 *)
(***************************************************************************)
CONSTANTS Users, SessionIds, Tokens

VARIABLES
    state,     \* of each session
    owner,     \* the user of each session that was opened
    granted,   \* the tokens handed out
    inForce,   \* those that the session stands for
    spoiled    \* the sessions that are no longer promised anything

vars == <<state, owner, granted, inForce, spoiled>>

TokensOf(S) == {t \in Tokens : t.session \in S}
TakeBack(S) == inForce' = inForce \ TokensOf(S)

Init ==
    /\ state = [i \in SessionIds |-> "none"]
    /\ owner = [i \in SessionIds |-> {}]
    /\ granted = {} /\ inForce = {} /\ spoiled = {}

\* A login from a device that has no session.
Open(i, u) ==
    /\ state[i] = "none"
    /\ state' = [state EXCEPT ![i] = "open"]
    /\ owner' = [owner EXCEPT ![i] = {u}]
    /\ UNCHANGED <<granted, inForce, spoiled>>

\* A login hands out a new token.  It is of no use if the session was revoked since,
\* and one that would outlive its session spoils it.
Grant(t) ==
    /\ t \notin granted /\ state[t.session] # "none"
    /\ granted' = granted \cup {t}
    /\ \/ state[t.session] = "open" /\ t.session \notin spoiled
          /\ inForce' = inForce \cup {t} /\ UNCHANGED spoiled
       \/ UNCHANGED <<inForce, spoiled>>
       \/ spoiled' = spoiled \cup {t.session} /\ TakeBack({t.session})
    /\ UNCHANGED <<state, owner>>

\* A revocation blacklists the session, all its tokens at once.
Block(i) ==
    /\ TakeBack({i})
    /\ UNCHANGED <<state, owner, granted, spoiled>>

\* The sessions end; what is still in force there was missed by the revocation.
Close(S, missed) ==
    /\ \A i \in S : state[i] = "open"
    /\ \A t \in inForce : t.session \in S => t.session \in missed
    /\ state' = [i \in SessionIds |-> IF i \in S THEN "closed" ELSE state[i]]
    /\ spoiled' = spoiled \cup missed /\ TakeBack(missed)
    /\ UNCHANGED <<owner, granted>>

\* Races, and revocations that are given up half way.
Spoil(S) ==
    /\ spoiled' = spoiled \cup S /\ TakeBack(S)
    /\ UNCHANGED <<state, owner, granted>>

\* Time goes by.
Lapse ==
    /\ inForce' \in SUBSET inForce
    /\ UNCHANGED <<state, owner, granted, spoiled>>

Next ==
    \/ \E i \in SessionIds : Block(i) \/ \E u \in Users : Open(i, u)
    \/ \E t \in Tokens : Grant(t)
    \/ \E S \in SUBSET SessionIds : Spoil(S) \/ \E missed \in SUBSET S : Close(S, missed)
    \/ Lapse

Spec == Init /\ [][Next]_vars
=============================================================================

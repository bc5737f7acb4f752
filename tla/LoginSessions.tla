---------------------------- MODULE LoginSessions ----------------------------
(***************************************************************************)
(* The life of a browser login: a verification code is requested, used up, *)
(* and exchanged for a session, as the token is, which requests then       *)
(* present, which ages, is refreshed by use, and ends by logout, by age or *)
(* with the token                                                          *)
(* (src/auth/verification_code.rs, session.rs, handlers.rs).  Both stores  *)
(* are maps of which an entry is locked only while it is looked at.        *)
(*                                                                         *)
(* Ages are counted in steps of time.  The lifetime is a setting and may   *)
(* change; who looks at a session reads it first.                          *)
(***************************************************************************)
EXTENDS Naturals, FiniteSets

CONSTANTS
    Codes,         \* request ids, each created once
    Logins,        \* attempts to log in; a session has the name of its login
    Calls,         \* requests that present a session
    MaxAttempts,   \* MAX_ATTEMPTS
    RateLimit,     \* codes in one window
    Lifetimes,     \* of a session: what the setting can be
    Throttle,      \* an age below this one is not refreshed
    CodeLifetime, None

NumbersAssumption ==
    {MaxAttempts, RateLimit, Throttle, CodeLifetime} \cup Lifetimes \subseteq Nat

VARIABLES
    code,       \* Codes -> None or [age, attempts, consumed]
    rate,       \* codes created in the window
    spent,      \* codes created so far
    login,      \* Logins -> [pc, code]
    session,    \* Logins -> None or the age of the session
    ended,      \* sessions that were logged out, revoked, or found too old
    lifetime,   \* the current setting
    call        \* Calls -> [pc, of, lifetime]

codeVars    == <<code, rate, spent, login>>
sessionVars == <<session, ended, lifetime, call>>
vars == <<codeVars, sessionVars>>

MaxAge    == CHOOSE n \in Lifetimes : \A m \in Lifetimes : m <= n
Live(s)   == session[s] # None
Removed(s) == session' = [session EXCEPT ![s] = None] /\ ended' = ended \cup {s}

-----------------------------------------------------------------------------
(* CodeStore                                                               *)

RequestCode(c) ==
    /\ c \notin spent /\ rate < RateLimit
    /\ rate' = rate + 1 /\ spent' = spent \cup {c}
    /\ code' = [code EXCEPT ![c] = [age |-> 0, attempts |-> 0, consumed |-> FALSE]]
    /\ UNCHANGED <<login, sessionVars>>

NewWindow ==
    /\ rate > 0 /\ rate' = 0
    /\ UNCHANGED <<code, spent, login, sessionVars>>

Usable(c) == /\ code[c].age <= CodeLifetime /\ ~code[c].consumed
             /\ code[c].attempts < MaxAttempts

Consumed(c) == [code EXCEPT ![c].consumed = TRUE]

\* verify: the right code
VerifyRight(l, c) ==
    /\ login[l].pc = "new" /\ c \in spent
    /\ IF code[c] # None /\ Usable(c)
         THEN /\ code' = Consumed(c)
              /\ login' = [login EXCEPT ![l] = [pc |-> "verified", code |-> c]]
         ELSE /\ login' = [login EXCEPT ![l] = [pc |-> "refused", code |-> c]]
              /\ code' = IF code[c] = None THEN code
                         ELSE IF code[c].consumed /\ code[c].age <= CodeLifetime
                           THEN code ELSE [code EXCEPT ![c] = None]
    /\ UNCHANGED <<rate, spent, sessionVars>>

\* A wrong one is counted; the last one allowed takes the code away.
VerifyWrong(c) ==
    /\ c \in spent /\ code[c] # None
    /\ code' = IF code[c].consumed /\ code[c].age <= CodeLifetime THEN code
               ELSE IF Usable(c) /\ code[c].attempts + 1 < MaxAttempts
                 THEN [code EXCEPT ![c].attempts = @ + 1]
                 ELSE [code EXCEPT ![c] = None]
    /\ UNCHANGED <<rate, spent, login, sessionVars>>

PurgeCodes ==
    /\ code' = [c \in Codes |-> IF code[c] = None THEN None
                  ELSE IF code[c].consumed \/ code[c].age > CodeLifetime THEN None
                  ELSE code[c]]
    /\ code' # code
    /\ UNCHANGED <<rate, spent, login, sessionVars>>

AgeCodes ==
    /\ \E c \in Codes : code[c] # None /\ code[c].age <= CodeLifetime
    /\ code' = [c \in Codes |-> IF code[c] = None THEN None
                  ELSE IF code[c].age > CodeLifetime THEN code[c]
                  ELSE [code[c] EXCEPT !.age = @ + 1]]
    /\ UNCHANGED <<rate, spent, login, sessionVars>>

-----------------------------------------------------------------------------
(* login                                                                   *)

Answered(l, pc) ==
    /\ login[l].pc = "new"
    /\ login' = [login EXCEPT ![l] = [pc |-> pc, code |-> None]]
    /\ UNCHANGED <<code, rate, spent, sessionVars>>

\* No token is set, the address is locked out, the request is empty, or it is one of
\* the other method.
TurnAway(l) == Answered(l, "refused")

\* The token is the stored one, or it is not.
TokenLogin(l) == \E pc \in {"verified", "refused"} : Answered(l, pc)

-----------------------------------------------------------------------------
(* SessionStore                                                            *)

\* create_session_response
CreateSession(l) ==
    /\ login[l].pc = "verified"
    /\ login' = [login EXCEPT ![l].pc = "in"]
    /\ session' = [session EXCEPT ![l] = 0]
    /\ UNCHANGED <<code, rate, spent, ended, lifetime, call>>

\* validate: the first look
Look(k, s) ==
    /\ call[k].pc = "idle" /\ login[s].pc = "in"
    /\ call' = [call EXCEPT ![k] =
         [of |-> s, lifetime |-> lifetime,
          pc |-> IF ~Live(s) THEN "no"
                 ELSE IF session[s] > lifetime THEN "remove"
                 ELSE IF session[s] < Throttle THEN "yes"
                 ELSE "refresh"]]
    /\ UNCHANGED <<codeVars, session, ended, lifetime>>

RemoveOld(k) ==
    /\ call[k].pc = "remove"
    /\ Removed(call[k].of)
    /\ call' = [call EXCEPT ![k].pc = "no"]
    /\ UNCHANGED <<codeVars, lifetime>>

\* Mutant: the session is put in the map if it is not there.
RefreshInserts(k) ==
    /\ call[k].pc = "refresh"
    /\ call' = [call EXCEPT ![k].pc = "yes"]
    /\ session' = [session EXCEPT ![call[k].of] = 0]
    /\ UNCHANGED <<codeVars, ended, lifetime>>

\* ... and the second, under the lock of the entry
Refresh(k) ==
    /\ call[k].pc = "refresh"
    /\ LET s == call[k].of
       IN IF ~Live(s)
            THEN call' = [call EXCEPT ![k].pc = "no"] /\ UNCHANGED <<session, ended>>
          ELSE IF session[s] > call[k].lifetime
            THEN call' = [call EXCEPT ![k].pc = "remove"] /\ UNCHANGED <<session, ended>>
          ELSE /\ call' = [call EXCEPT ![k].pc = "yes"]
               /\ session' = [session EXCEPT ![s] = 0] /\ UNCHANGED ended
    /\ UNCHANGED <<codeVars, lifetime>>

\* logout, revoke_session
Revoke(s) ==
    /\ Live(s) /\ Removed(s)
    /\ UNCHANGED <<codeVars, lifetime, call>>

\* revoke_other_sessions: all but that of the caller, if it has one
RevokeOthers ==
    /\ \E keep \in Logins \cup {None} :
         LET Gone == {s \in Logins : Live(s) /\ s # keep}
         IN /\ Gone # {}
            /\ session' = [s \in Logins |-> IF s \in Gone THEN None ELSE session[s]]
            /\ ended' = ended \cup Gone
    /\ UNCHANGED <<codeVars, lifetime, call>>

\* The token is replaced, and every session with it.
UpdateToken ==
    /\ \E s \in Logins : Live(s)
    /\ session' = [s \in Logins |-> None]
    /\ ended' = ended \cup {s \in Logins : Live(s)}
    /\ UNCHANGED <<codeVars, lifetime, call>>

PurgeSessions ==
    /\ LET Gone == {s \in Logins : Live(s) /\ session[s] > lifetime}
       IN /\ Gone # {}
          /\ session' = [s \in Logins |-> IF s \in Gone THEN None ELSE session[s]]
          /\ ended' = ended \cup Gone
    /\ UNCHANGED <<codeVars, lifetime, call>>

\* put_settings_with_session_ttl
UpdateTtl ==
    /\ lifetime' \in Lifetimes /\ lifetime' # lifetime
    /\ UNCHANGED <<codeVars, session, ended, call>>

AgeSessions ==
    /\ \E s \in Logins : Live(s) /\ session[s] <= MaxAge
    /\ session' = [s \in Logins |->
                     IF Live(s) /\ session[s] <= MaxAge THEN session[s] + 1
                     ELSE session[s]]
    /\ UNCHANGED <<codeVars, ended, lifetime, call>>

-----------------------------------------------------------------------------
Init ==
    /\ code = [c \in Codes |-> None] /\ rate = 0 /\ spent = {}
    /\ login = [l \in Logins |-> [pc |-> "new", code |-> None]]
    /\ session = [l \in Logins |-> None] /\ ended = {}
    /\ lifetime = MaxAge
    /\ call = [k \in Calls |-> [pc |-> "idle", of |-> None, lifetime |-> 0]]

CodeStep ==
    \/ \E c \in Codes : \/ RequestCode(c) \/ VerifyWrong(c)
                        \/ \E l \in Logins : VerifyRight(l, c)
    \/ \E l \in Logins : TurnAway(l) \/ TokenLogin(l)
    \/ NewWindow \/ PurgeCodes \/ AgeCodes

SessionStep ==
    \/ \E s \in Logins : CreateSession(s) \/ Revoke(s) \/ \E k \in Calls : Look(k, s)
    \/ \E k \in Calls : RemoveOld(k) \/ Refresh(k)
    \/ RevokeOthers \/ UpdateToken \/ PurgeSessions \/ UpdateTtl \/ AgeSessions

Next == CodeStep \/ SessionStep

Spec == Init /\ [][Next]_vars

-----------------------------------------------------------------------------
(* Properties.                                                             *)

TypeOK ==
    /\ \A c \in Codes : code[c] = None \/ code[c].attempts < MaxAttempts
    /\ rate \in 0 .. RateLimit /\ spent \subseteq Codes
    /\ \A s \in Logins : Live(s) => session[s] \in 0 .. MaxAge + 1
    /\ lifetime \in Lifetimes

\* A code lets one login in; a session that has ended, however many requests are
\* between their two looks at it, is never there again and answers no request.
EndForGood ==
    /\ \A l, m \in Logins :
         /\ login[l].pc \in {"verified", "in"} /\ login[m].pc \in {"verified", "in"}
         /\ login[l].code = login[m].code /\ login[l].code # None
         => l = m
    /\ \A s \in ended : ~Live(s)

=============================================================================

---------------------------- MODULE ServiceProofs ----------------------------
(***************************************************************************)
(* Proofs about parts that MCServices puts beside each other, each for any *)
(* value of its constants: those that serve clients, terminals and plugins.*)
(***************************************************************************)
EXTENDS Integers, Sequences, FiniteSets, FiniteSetTheorems, SequenceTheorems, TLAPS

-----------------------------------------------------------------------------
(* Logins.                                                                 *)

CONSTANTS Codes, Logins, Calls, MaxAttempts, RateLimit, Lifetimes, Throttle, CodeLifetime, None
VARIABLES code, rate, spent, login, session, ended, lifetime, call

LS == INSTANCE LoginSessions

CodeEntry == [age : Nat, attempts : Nat, consumed : BOOLEAN]

LoginTypes ==
    /\ code \in [Codes -> CodeEntry \cup {None}] /\ spent \subseteq Codes
    /\ login \in [Logins -> [pc : {"new", "verified", "refused", "in"}, code : Codes \cup {None}]]
    /\ DOMAIN session = Logins
    /\ lifetime \in Lifetimes \cup {LS!MaxAge}
    /\ call \in [Calls -> [pc : {"idle", "no", "remove", "yes", "refresh"}, of : Logins \cup {None},
                           lifetime : Lifetimes \cup {LS!MaxAge, 0}]]

LetIn(l) == login[l].pc \in {"verified", "in"}

\* A code by which somebody was let in was created before and is used up, or gone.
CodeInv ==
    /\ \A l \in Logins : LetIn(l) /\ login[l].code # None =>
         /\ login[l].code \in spent
         /\ code[login[l].code] # None => code[login[l].code].consumed
    /\ \A l, m \in Logins :
         LetIn(l) /\ LetIn(m) /\ login[l].code = login[m].code /\ login[l].code # None => l = m

\* Whoever has a session, had one, or is about to change one, has logged in; the session
\* of a login is created once.
SessionInv ==
    /\ \A s \in Logins : LS!Live(s) => login[s].pc = "in"
    /\ \A s \in ended : s \in Logins /\ login[s].pc = "in" /\ ~LS!Live(s)
    /\ \A k \in Calls : call[k].pc \in {"remove", "refresh"} =>
                            call[k].of \in Logins /\ login[call[k].of].pc = "in"

LoginInv == LoginTypes /\ CodeInv /\ SessionInv

LEMMA LoginInit == LS!Init => LoginInv
<1>. SUFFICES ASSUME LS!Init PROVE LoginInv
  OBVIOUS
<1>1. LoginTypes
  BY DEF LS!Init, LoginTypes
<1>2. CodeInv /\ SessionInv
  BY DEF LS!Init, CodeInv, SessionInv, LetIn, LS!Live
<1>. QED
  BY <1>1, <1>2 DEF LoginInv

\* A step of the codes lets nobody in but by a code that is still usable.
LEMMA CodeStepKeeps ==
    ASSUME LoginInv, LS!CodeStep
    PROVE  LoginInv'
<1>0. LoginTypes /\ CodeInv /\ SessionInv
  BY DEF LoginInv
<1>1. UNCHANGED <<session, ended, lifetime, call>>
  BY DEF LS!CodeStep, LS!RequestCode, LS!VerifyWrong, LS!VerifyRight, LS!TurnAway, LS!TokenLogin, LS!Answered,
         LS!NewWindow, LS!PurgeCodes, LS!AgeCodes, LS!sessionVars
<1>2. \A s : LS!Live(s)' <=> LS!Live(s)
  BY <1>1 DEF LS!Live
<1>3. ASSUME UNCHANGED <<login, spent>>, code' \in [Codes -> CodeEntry \cup {None}],
             \A c \in spent : code'[c] = None \/ (code[c] # None /\ (code[c].consumed => code'[c].consumed))
      PROVE  LoginInv'
  <2>1. LoginTypes'
    BY <1>0, <1>1, <1>3 DEF LoginTypes
  <2>2. CodeInv'
    BY <1>0, <1>3 DEF CodeInv, LetIn
  <2>3. SessionInv'
    BY <1>0, <1>1, <1>2, <1>3 DEF SessionInv
  <2>. QED
    BY <2>1, <2>2, <2>3 DEF LoginInv
<1>4. ASSUME NEW c \in Codes, LS!RequestCode(c)
      PROVE  LoginInv'
  <2>1. /\ c \notin spent /\ spent' = spent \cup {c} /\ login' = login
        /\ code' = [code EXCEPT ![c] = [age |-> 0, attempts |-> 0, consumed |-> FALSE]]
    BY <1>4 DEF LS!RequestCode
  <2>2. LoginTypes'
    BY <1>0, <1>1, <2>1 DEF LoginTypes, CodeEntry
  <2>3. CodeInv'
    BY <1>0, <2>1 DEF CodeInv, LetIn, LoginTypes
  <2>4. SessionInv'
    BY <1>0, <1>1, <1>2, <2>1 DEF SessionInv
  <2>. QED
    BY <2>2, <2>3, <2>4 DEF LoginInv
<1>5. ASSUME NEW c \in Codes, LS!VerifyWrong(c)
      PROVE  LoginInv'
  <2>1. code[c] \in CodeEntry \cup {None} /\ code[c] # None
    BY <1>0, <1>5 DEF LS!VerifyWrong, LoginTypes
  <2>2. code' = code \/ code' = [code EXCEPT ![c] = None] \/ code' = [code EXCEPT ![c].attempts = @ + 1]
    BY <1>5 DEF LS!VerifyWrong
  <2>3. UNCHANGED <<login, spent>>
    BY <1>5 DEF LS!VerifyWrong
  <2>. QED
    BY <1>0, <1>3, <2>1, <2>2, <2>3 DEF LoginTypes, CodeEntry
<1>6. ASSUME NEW c \in Codes, NEW l \in Logins, LS!VerifyRight(l, c)
      PROVE  LoginInv'
  <2>1. login[l].pc = "new" /\ c \in spent /\ spent' = spent
    BY <1>6 DEF LS!VerifyRight
  <2>2. \A m \in Logins : login'[m] = IF m = l THEN login'[l] ELSE login[m]
    BY <1>0, <1>6 DEF LS!VerifyRight, LoginTypes
  <2>3. SessionInv'
    BY <1>0, <1>1, <1>2, <2>1, <2>2 DEF SessionInv
  <2>4. CASE code[c] # None /\ LS!Usable(c)
    <3>1. /\ code' = [code EXCEPT ![c].consumed = TRUE]
          /\ login' = [login EXCEPT ![l] = [pc |-> "verified", code |-> c]]
          /\ ~code[c].consumed /\ code[c] \in CodeEntry
      BY <1>0, <1>6, <2>4 DEF LS!VerifyRight, LS!Usable, LS!Consumed, LoginTypes
    <3>2. LoginTypes'
      BY <1>0, <1>1, <2>1, <3>1 DEF LoginTypes, CodeEntry
    <3>3. \A m \in Logins : LetIn(m) => login[m].code # c \/ c = None
      BY <1>0, <2>4, <3>1 DEF CodeInv
    <3>4. code'[c].consumed /\ \A d \in Codes : d # c => code'[d] = code[d]
      BY <1>0, <3>1 DEF LoginTypes, CodeEntry
    <3>5. /\ login'[l] = [pc |-> "verified", code |-> c]
          /\ \A m \in Logins : m # l => login'[m] = login[m]
      BY <1>0, <3>1 DEF LoginTypes
    <3>6. CodeInv'
      BY <1>0, <2>1, <3>3, <3>4, <3>5 DEF CodeInv, LetIn, LoginTypes
    <3>. QED
      BY <2>3, <3>2, <3>6 DEF LoginInv
  <2>5. CASE ~(code[c] # None /\ LS!Usable(c))
    <3>1. /\ login' = [login EXCEPT ![l] = [pc |-> "refused", code |-> c]]
          /\ code' = code \/ code' = [code EXCEPT ![c] = None]
      BY <1>6, <2>5 DEF LS!VerifyRight
    <3>2. LoginTypes'
      BY <1>0, <1>1, <2>1, <3>1 DEF LoginTypes
    <3>3. CodeInv'
      BY <1>0, <2>1, <2>2, <3>1 DEF CodeInv, LetIn, LoginTypes
    <3>. QED
      BY <2>3, <3>2, <3>3 DEF LoginInv
  <2>. QED
    BY <2>4, <2>5
<1>7. ASSUME NEW l \in Logins, LS!TurnAway(l) \/ LS!TokenLogin(l)
      PROVE  LoginInv'
  <2>1. PICK pc_ \in {"verified", "refused"} : login' = [login EXCEPT ![l] = [pc |-> pc_, code |-> None]]
    BY <1>7 DEF LS!TurnAway, LS!TokenLogin, LS!Answered
  <2>2. login[l].pc = "new" /\ UNCHANGED <<code, spent>>
    BY <1>7 DEF LS!TurnAway, LS!TokenLogin, LS!Answered
  <2>3. LoginTypes'
    BY <1>0, <1>1, <2>1, <2>2 DEF LoginTypes
  <2>4. CodeInv'
    BY <1>0, <2>1, <2>2 DEF CodeInv, LetIn, LoginTypes
  <2>5. SessionInv'
    BY <1>0, <1>1, <1>2, <2>1, <2>2 DEF SessionInv, LoginTypes
  <2>. QED
    BY <2>3, <2>4, <2>5 DEF LoginInv
<1>8. ASSUME LS!NewWindow PROVE LoginInv'
  <2>1. UNCHANGED <<code, spent, login>>
    BY <1>8 DEF LS!NewWindow
  <2>. QED
    BY <1>0, <1>3, <2>1 DEF LoginTypes, CodeInv, SessionInv, LetIn, LoginInv
<1>9. ASSUME LS!PurgeCodes \/ LS!AgeCodes PROVE LoginInv'
  <2>1. UNCHANGED <<spent, login>>
    BY <1>9 DEF LS!PurgeCodes, LS!AgeCodes
  <2>2. \A c \in Codes : code[c] \in CodeEntry \cup {None}
    BY <1>0 DEF LoginTypes
  <2>3. /\ code' = [c \in Codes |-> code'[c]]
        /\ \A c \in Codes : \/ code'[c] = None
                            \/ code[c] # None /\ code'[c] \in {code[c], [code[c] EXCEPT !.age = @ + 1]}
    BY <1>9 DEF LS!PurgeCodes, LS!AgeCodes
  <2>4. \A c \in Codes : \/ code'[c] = None
                         \/ /\ code[c] # None /\ code'[c] \in CodeEntry
                            /\ code[c].consumed => code'[c].consumed
    BY <2>2, <2>3 DEF CodeEntry
  <2>5. code' \in [Codes -> CodeEntry \cup {None}] /\ spent \subseteq Codes
    BY <1>0, <2>3, <2>4 DEF LoginTypes
  <2>. QED
    BY <1>3, <2>1, <2>4, <2>5
<1>. QED
  BY <1>4, <1>5, <1>6, <1>7, <1>8, <1>9 DEF LS!CodeStep

\* A step of the sessions: one that ends is not put back, whatever is being looked at.
LEMMA SessionStepKeeps ==
    ASSUME LoginInv, LS!SessionStep
    PROVE  LoginInv'
<1>0. LoginTypes /\ CodeInv /\ SessionInv
  BY DEF LoginInv
<1>1. ASSUME NEW l \in Logins, LS!CreateSession(l)
      PROVE  LoginInv'
  <2>1. /\ login[l].pc = "verified" /\ UNCHANGED <<code, spent, ended, lifetime, call>>
        /\ login' = [login EXCEPT ![l].pc = "in"] /\ session' = [session EXCEPT ![l] = 0]
    BY <1>1 DEF LS!CreateSession
  <2>2. LoginTypes'
    BY <1>0, <2>1 DEF LoginTypes
  <2>3. \A m \in Logins : login'[m].code = login[m].code /\ (login'[m].pc \in {"verified", "in"} <=> LetIn(m))
    BY <1>0, <2>1 DEF LoginTypes, LetIn
  <2>4. CodeInv'
    BY <1>0, <2>1, <2>3 DEF CodeInv, LetIn
  <2>5. SessionInv'
    BY <1>0, <2>1 DEF SessionInv, LoginTypes, LS!Live
  <2>. QED
    BY <2>2, <2>4, <2>5 DEF LoginInv
<1>2. ASSUME UNCHANGED <<code, spent, login>>, lifetime' \in Lifetimes \cup {LS!MaxAge}, DOMAIN session' = Logins,
             call' \in [Calls -> [pc : {"idle", "no", "remove", "yes", "refresh"}, of : Logins \cup {None},
                                  lifetime : Lifetimes \cup {LS!MaxAge, 0}]],
             \A s \in Logins : session[s] = None => session'[s] = None,
             ended \subseteq ended',
             \A s \in ended' \ ended : s \in Logins /\ session'[s] = None /\ login[s].pc = "in",
             \A k \in Calls : call'[k].pc \in {"remove", "refresh"} =>
                                  call'[k].of \in Logins /\ login[call'[k].of].pc = "in"
      PROVE  LoginInv'
  <2>1. LoginTypes'
    BY <1>0, <1>2 DEF LoginTypes
  <2>2. CodeInv'
    BY <1>0, <1>2 DEF CodeInv, LetIn
  <2>3. SessionInv'
    BY <1>0, <1>2 DEF SessionInv, LS!Live
  <2>. QED
    BY <2>1, <2>2, <2>3 DEF LoginInv
<1>3. ASSUME NEW s \in Logins, LS!Revoke(s) PROVE LoginInv'
  BY <1>0, <1>2, <1>3 DEF LS!Revoke, LS!Removed, LS!Live, LS!codeVars, LoginTypes, SessionInv
<1>4. ASSUME NEW s \in Logins, NEW k \in Calls, LS!Look(k, s) PROVE LoginInv'
  <2>1. /\ login[s].pc = "in" /\ UNCHANGED <<code, spent, login, session, ended, lifetime>>
        /\ \E p \in {"no", "remove", "yes", "refresh"} :
              call' = [call EXCEPT ![k] = [of |-> s, lifetime |-> lifetime, pc |-> p]]
    BY <1>4 DEF LS!Look, LS!codeVars
  <2>. QED
    BY <1>0, <1>2, <2>1 DEF LoginTypes, SessionInv
<1>5. ASSUME NEW k \in Calls, LS!RemoveOld(k) PROVE LoginInv'
  <2>1. /\ call[k].pc = "remove" /\ UNCHANGED <<code, spent, login, lifetime>>
        /\ call' = [call EXCEPT ![k].pc = "no"]
        /\ session' = [session EXCEPT ![call[k].of] = None] /\ ended' = ended \cup {call[k].of}
    BY <1>5 DEF LS!RemoveOld, LS!Removed, LS!codeVars
  <2>. QED
    BY <1>0, <1>2, <2>1 DEF LoginTypes, SessionInv
<1>6. ASSUME NEW k \in Calls, LS!Refresh(k) PROVE LoginInv'
  <2>1. /\ call[k].pc = "refresh" /\ UNCHANGED <<code, spent, login, ended, lifetime>>
        /\ \E p \in {"no", "remove", "yes"} : call' = [call EXCEPT ![k].pc = p]
        /\ \/ session' = session
           \/ session[call[k].of] # None /\ session' = [session EXCEPT ![call[k].of] = 0]
    BY <1>6 DEF LS!Refresh, LS!codeVars, LS!Live
  <2>. QED
    BY <1>0, <1>2, <2>1 DEF LoginTypes, SessionInv
<1>7. ASSUME LS!RevokeOthers \/ LS!UpdateToken \/ LS!PurgeSessions PROVE LoginInv'
  <2>1. /\ UNCHANGED <<code, spent, login, lifetime, call>>
        /\ \E Gone \in SUBSET {s \in Logins : LS!Live(s)} :
             /\ session' = [s \in Logins |-> IF s \in Gone THEN None ELSE session[s]]
             /\ ended' = ended \cup Gone
    <3>1. CASE LS!RevokeOthers
      BY <3>1 DEF LS!RevokeOthers, LS!codeVars
    <3>2. CASE LS!UpdateToken
      <4>1. [s \in Logins |-> None]
              = [s \in Logins |-> IF s \in {x \in Logins : LS!Live(x)} THEN None ELSE session[s]]
        BY DEF LS!Live
      <4>. QED
        BY <3>2, <4>1 DEF LS!UpdateToken, LS!codeVars
    <3>3. CASE LS!PurgeSessions
      BY <3>3 DEF LS!PurgeSessions, LS!codeVars
    <3>. QED
      BY <1>7, <3>1, <3>2, <3>3
  <2>. QED
    BY <1>0, <1>2, <2>1 DEF LoginTypes, SessionInv
<1>8. ASSUME LS!UpdateTtl \/ LS!AgeSessions PROVE LoginInv'
  <2>1. /\ UNCHANGED <<code, spent, login, ended, call>> /\ lifetime' \in Lifetimes \cup {lifetime}
        /\ session' \in {session, [s \in Logins |-> IF LS!Live(s) /\ session[s] <= LS!MaxAge THEN session[s] + 1
                                                     ELSE session[s]]}
    BY <1>8 DEF LS!UpdateTtl, LS!AgeSessions, LS!codeVars
  <2>2. DOMAIN session' = Logins /\ \A s \in Logins : session[s] = None => session'[s] = None
    BY <1>0, <2>1 DEF LoginTypes, LS!Live
  <2>. QED
    BY <1>0, <1>2, <2>1, <2>2 DEF LoginTypes, SessionInv
<1>. QED
  BY <1>1, <1>3, <1>4, <1>5, <1>6, <1>7, <1>8 DEF LS!SessionStep

\* A code lets one login in, and a session that has ended (logout, revocation, age, a new
\* token) is never there again, however many requests are between the two looks of validate.
THEOREM LoginsEndForGood == LS!Spec => []LS!EndForGood
<1>1. LoginInv /\ [LS!Next]_LS!vars => LoginInv'
  <2>1. ASSUME LoginInv, UNCHANGED LS!vars PROVE LoginInv'
    BY <2>1 DEF LS!vars, LS!codeVars, LS!sessionVars, LoginInv, LoginTypes, CodeInv, SessionInv, LetIn, LS!Live
  <2>. QED
    BY <2>1, CodeStepKeeps, SessionStepKeeps DEF LS!Next
<1>2. LoginInv => LS!EndForGood
  BY DEF LoginInv, CodeInv, SessionInv, LetIn, LS!EndForGood
<1>. QED
  BY LoginInit, <1>1, <1>2, PTL DEF LS!Spec

-----------------------------------------------------------------------------
(* The runs of the agent API.                                              *)

CONSTANTS HttpRuns, SocketRuns, Closers, Workers, MaxConcurrentRuns
VARIABLES pc, slots, closer, lost

AR == INSTANCE AgentRuns

Active   == {"slotted", "polling", "answered"}
Stages   == Active \cup {"new", "done", "refused", "dropped"}
ActiveRuns == {r \in HttpRuns : pc[r] \in Active}

RunTypes ==
    /\ pc \in [AR!Runs -> Stages]
    /\ slots \in 0 .. MaxConcurrentRuns /\ lost \in Nat

RunInv == RunTypes /\ slots = lost + Cardinality(ActiveRuns)

\* What a step of one run does to the slots: the set of active runs changes by that run.
LEMMA ActiveChange ==
    ASSUME IsFiniteSet(HttpRuns), RunTypes, NEW r \in AR!Runs,
           NEW next \in Stages,
           pc' = [pc EXCEPT ![r] = next]
    PROVE  /\ r \notin HttpRuns => Cardinality(ActiveRuns)' = Cardinality(ActiveRuns)
           /\ (pc[r] \in Active <=> next \in Active) => Cardinality(ActiveRuns)' = Cardinality(ActiveRuns)
           /\ r \in HttpRuns /\ pc[r] \notin Active /\ next \in Active
                => Cardinality(ActiveRuns)' = Cardinality(ActiveRuns) + 1
           /\ r \in HttpRuns /\ pc[r] \in Active /\ next \notin Active
                => Cardinality(ActiveRuns)' = Cardinality(ActiveRuns) - 1
           /\ Cardinality(ActiveRuns) \in Nat /\ Cardinality(ActiveRuns)' \in Nat
<1>1. IsFiniteSet(ActiveRuns)
  <2>1. ActiveRuns \in SUBSET HttpRuns
    BY DEF ActiveRuns
  <2>. QED
    BY <2>1, FS_Subset
<1>2. Cardinality(ActiveRuns) \in Nat
  BY <1>1, FS_CardinalityType
<1>8. Cardinality(ActiveRuns)' \in Nat
  <2>1. IsFiniteSet(ActiveRuns')
    <3>1. ActiveRuns' \in SUBSET HttpRuns
      BY DEF ActiveRuns
    <3>. QED
      BY <3>1, FS_Subset
  <2>2. Cardinality(ActiveRuns') \in Nat
    BY <2>1, FS_CardinalityType
  <2>. QED
    BY <2>2
<1>3. \A q \in AR!Runs : pc'[q] = IF q = r THEN next ELSE pc[q]
  BY DEF RunTypes
<1>4. HttpRuns \subseteq AR!Runs
  BY DEF AR!Runs
<1>5. ASSUME r \notin HttpRuns \/ (pc[r] \in Active <=> next \in Active)
      PROVE  Cardinality(ActiveRuns)' = Cardinality(ActiveRuns)
  <2>1. ActiveRuns' = ActiveRuns
    BY <1>3, <1>4, <1>5 DEF ActiveRuns
  <2>. QED
    BY <2>1, Zenon
<1>6. ASSUME r \in HttpRuns, pc[r] \notin Active, next \in Active
      PROVE  Cardinality(ActiveRuns)' = Cardinality(ActiveRuns) + 1
  <2>1. ActiveRuns' = ActiveRuns \cup {r} /\ r \notin ActiveRuns
    BY <1>3, <1>4, <1>6 DEF ActiveRuns
  <2>2. Cardinality(ActiveRuns \cup {r}) = Cardinality(ActiveRuns) + 1
    BY <1>1, <2>1, FS_AddElement, Zenon
  <2>. QED
    BY <2>1, <2>2, Zenon
<1>7. ASSUME r \in HttpRuns, pc[r] \in Active, next \notin Active
      PROVE  Cardinality(ActiveRuns)' = Cardinality(ActiveRuns) - 1
  <2>1. ActiveRuns' = ActiveRuns \ {r} /\ r \in ActiveRuns
    BY <1>3, <1>4, <1>7 DEF ActiveRuns
  <2>2. Cardinality(ActiveRuns \ {r}) = Cardinality(ActiveRuns) - 1
    BY <1>1, <2>1, FS_RemoveElement, Zenon
  <2>. QED
    BY <2>1, <2>2, Zenon
<1>. QED
  BY <1>2, <1>5, <1>6, <1>7, <1>8

LEMMA RunStepKeeps ==
    ASSUME IsFiniteSet(HttpRuns), AR!CountsAssumption, RunInv, [AR!Next]_AR!vars
    PROVE  RunInv'
<1>0. RunTypes /\ slots = lost + Cardinality(ActiveRuns) /\ MaxConcurrentRuns \in Nat
  BY DEF RunInv, AR!CountsAssumption
<1>1. ASSUME UNCHANGED <<pc, slots, lost>> PROVE RunInv'
  BY <1>0, <1>1 DEF RunInv, RunTypes, ActiveRuns
<1>3. ASSUME NEW r \in AR!Runs, AR!Start(r) PROVE RunInv'
  <2>1. CASE r \in HttpRuns /\ slots < MaxConcurrentRuns
    <3>1. /\ pc[r] = "new" /\ pc' = [pc EXCEPT ![r] = "slotted"] /\ slots' = slots + 1 /\ lost' = lost
      BY <1>3, <2>1 DEF AR!Start, AR!TakeSlot
    <3>a. "slotted" \in Stages /\ "slotted" \in Active /\ pc[r] \notin Active
      BY <3>1 DEF Stages, Active
    <3>2. Cardinality(ActiveRuns)' = Cardinality(ActiveRuns) + 1 /\ Cardinality(ActiveRuns) \in Nat
      BY <1>0, <2>1, <3>1, <3>a, ActiveChange, Zenon
    <3>3. RunTypes'
      BY <1>0, <2>1, <3>1, <3>2, <3>a DEF RunTypes, Stages
    <3>4. slots' = lost' + Cardinality(ActiveRuns)'
      BY <1>0, <2>1, <3>1, <3>2, <3>a DEF RunTypes
    <3>. QED
      BY <3>3, <3>4 DEF RunInv
  <2>2. CASE r \in HttpRuns /\ ~(slots < MaxConcurrentRuns)
    <3>1. /\ pc[r] = "new" /\ pc' = [pc EXCEPT ![r] = "refused"] /\ slots' = slots /\ lost' = lost
      BY <1>3, <2>2 DEF AR!Start, AR!TakeSlot
    <3>a. "refused" \in Stages /\ "refused" \notin Active /\ pc[r] \notin Active
      BY <3>1 DEF Stages, Active
    <3>2. Cardinality(ActiveRuns)' = Cardinality(ActiveRuns) /\ Cardinality(ActiveRuns) \in Nat
      BY <1>0, <3>1, <3>a, ActiveChange, Zenon
    <3>3. RunTypes'
      BY <1>0, <3>1, <3>2, <3>a DEF RunTypes, Stages
    <3>4. slots' = lost' + Cardinality(ActiveRuns)'
      BY <1>0, <3>1, <3>2, <3>a DEF RunTypes
    <3>. QED
      BY <3>3, <3>4 DEF RunInv
  <2>3. CASE r \notin HttpRuns
    <3>1. /\ pc[r] = "new" /\ pc' = [pc EXCEPT ![r] = "slotted"] /\ slots' = slots /\ lost' = lost
      BY <1>3, <2>3 DEF AR!Start
    <3>a. "slotted" \in Stages /\ "slotted" \in Active /\ pc[r] \notin Active
      BY <3>1 DEF Stages, Active
    <3>2. Cardinality(ActiveRuns)' = Cardinality(ActiveRuns) /\ Cardinality(ActiveRuns) \in Nat
      BY <1>0, <2>3, <3>1, <3>a, ActiveChange, Zenon
    <3>3. RunTypes'
      BY <1>0, <3>1, <3>2, <3>a DEF RunTypes, Stages
    <3>4. slots' = lost' + Cardinality(ActiveRuns)'
      BY <1>0, <3>1, <3>2, <3>a DEF RunTypes
    <3>. QED
      BY <3>3, <3>4 DEF RunInv
  <2>. QED
    BY <2>1, <2>2, <2>3
<1>4. ASSUME NEW r \in AR!Runs, AR!Execute(r) \/ AR!Poll(r) PROVE RunInv'
  <2>1. PICK next \in {"polling", "answered"} : pc' = [pc EXCEPT ![r] = next]
    BY <1>4 DEF AR!Execute, AR!Poll
  <2>2. pc[r] \in Active /\ slots' = slots /\ lost' = lost
    BY <1>4 DEF AR!Execute, AR!Poll, Active
  <2>3. next \in Active /\ next \in Stages
    BY DEF Stages, Active
  <2>4. Cardinality(ActiveRuns)' = Cardinality(ActiveRuns) /\ Cardinality(ActiveRuns) \in Nat
    BY <1>0, <2>1, <2>2, <2>3, ActiveChange, Zenon
  <2>5. RunTypes'
    BY <1>0, <2>1, <2>2, <2>3, <2>4 DEF RunTypes, Stages
  <2>6. slots' = lost' + Cardinality(ActiveRuns)'
    BY <1>0, <2>1, <2>2, <2>3, <2>4 DEF RunTypes
  <2>. QED
    BY <2>5, <2>6 DEF RunInv
<1>5. ASSUME NEW r \in AR!Runs, AR!Release(r) PROVE RunInv'
  <2>1. /\ pc[r] = "answered" /\ pc' = [pc EXCEPT ![r] = "done"] /\ lost' = lost
        /\ slots' = IF r \in HttpRuns /\ slots > 0 THEN slots - 1 ELSE slots
    BY <1>5 DEF AR!Release
  <2>2. CASE r \in HttpRuns
    <3>a. "done" \in Stages /\ "done" \notin Active /\ pc[r] \in Active
      BY <2>1 DEF Stages, Active
    <3>1. /\ Cardinality(ActiveRuns)' = Cardinality(ActiveRuns) - 1 /\ Cardinality(ActiveRuns) \in Nat
          /\ Cardinality(ActiveRuns)' \in Nat
      BY <1>0, <2>1, <2>2, <3>a, ActiveChange, Zenon
    <3>2. RunTypes'
      BY <1>0, <2>1, <2>2, <3>1, <3>a DEF RunTypes, Stages
    <3>3. slots' = lost' + Cardinality(ActiveRuns)'
      BY <1>0, <2>1, <2>2, <3>1, <3>a DEF RunTypes
    <3>. QED
      BY <3>2, <3>3 DEF RunInv
  <2>3. CASE r \notin HttpRuns
    <3>a. "done" \in Stages /\ "done" \notin Active /\ pc[r] \in Active
      BY <2>1 DEF Stages, Active
    <3>1. Cardinality(ActiveRuns)' = Cardinality(ActiveRuns) /\ Cardinality(ActiveRuns) \in Nat
      BY <1>0, <2>1, <2>3, <3>a, ActiveChange, Zenon
    <3>2. RunTypes'
      BY <1>0, <2>1, <2>3, <3>1, <3>a DEF RunTypes, Stages
    <3>3. slots' = lost' + Cardinality(ActiveRuns)'
      BY <1>0, <2>1, <2>3, <3>1, <3>a DEF RunTypes
    <3>. QED
      BY <3>2, <3>3 DEF RunInv
  <2>. QED
    BY <2>2, <2>3
<1>6. ASSUME NEW r \in AR!Runs, AR!Drop(r) PROVE RunInv'
  <2>1. /\ r \in HttpRuns /\ pc[r] \in Active /\ pc' = [pc EXCEPT ![r] = "dropped"]
        /\ slots' = slots /\ lost' = lost + 1
    BY <1>6 DEF AR!Drop, Active
  <2>a. "dropped" \in Stages /\ "dropped" \notin Active /\ pc[r] \in Active
    BY <2>1 DEF Stages, Active
  <2>2. Cardinality(ActiveRuns)' = Cardinality(ActiveRuns) - 1 /\ Cardinality(ActiveRuns) \in Nat
    BY <1>0, <2>1, <2>a, ActiveChange, Zenon
  <2>3. RunTypes'
    BY <1>0, <2>1, <2>2, <2>a DEF RunTypes, Stages
  <2>4. slots' = lost' + Cardinality(ActiveRuns)'
    BY <1>0, <2>1, <2>2, <2>a DEF RunTypes
  <2>. QED
    BY <2>3, <2>4 DEF RunInv
<1>7. ASSUME NEW c \in Closers, AR!Lock(c) \/ AR!Change(c) \/ AR!Acquire(c) PROVE RunInv'
  BY <1>1, <1>7 DEF AR!Lock, AR!Change, AR!Acquire
<1>8. ASSUME UNCHANGED AR!vars PROVE RunInv'
  BY <1>1, <1>8 DEF AR!vars
<1>. QED
  BY <1>3, <1>4, <1>5, <1>6, <1>7, <1>8 DEF AR!Next

\* The limiter counts every run over HTTP that is on and each whose caller hung up: a slot
\* is never given back twice, and never more runs are on than MAX_CONCURRENT_RUNS.
THEOREM RunsAreLimited ==
    ASSUME IsFiniteSet(HttpRuns), AR!CountsAssumption
    PROVE  AR!Spec => [](AR!SlotsAreRunsAndLosses /\ Cardinality(ActiveRuns) <= MaxConcurrentRuns)
<1>1. AR!Init => RunInv
  <2>. SUFFICES ASSUME AR!Init PROVE RunInv
    OBVIOUS
  <2>1. HttpRuns \subseteq AR!Runs
    BY DEF AR!Runs
  <2>2. ActiveRuns = {}
    BY <2>1 DEF AR!Init, ActiveRuns, Active
  <2>3. Cardinality(ActiveRuns) = 0
    BY <2>2, FS_EmptySet
  <2>. QED
    BY <2>3 DEF AR!Init, AR!CountsAssumption, RunInv, RunTypes, Stages
<1>2. RunInv /\ [AR!Next]_AR!vars => RunInv'
  BY RunStepKeeps
<1>3. RunInv => AR!SlotsAreRunsAndLosses /\ Cardinality(ActiveRuns) <= MaxConcurrentRuns
  <2>1. ActiveRuns = {r \in HttpRuns : pc[r] \in {"slotted", "polling", "answered"}}
    BY DEF ActiveRuns, Active
  <2>2. IsFiniteSet(ActiveRuns)
    <3>1. ActiveRuns \in SUBSET HttpRuns
      BY DEF ActiveRuns
    <3>. QED
      BY <3>1, FS_Subset
  <2>3. Cardinality(ActiveRuns) \in Nat
    BY <2>2, FS_CardinalityType
  <2>4. AR!Cardinality(ActiveRuns) = Cardinality(ActiveRuns)
    BY Zenon DEF AR!Cardinality, Cardinality
  <2>. QED
    BY <2>1, <2>3, <2>4 DEF RunInv, RunTypes, AR!SlotsAreRunsAndLosses, AR!CountsAssumption
<1>. QED
  BY <1>1, <1>2, <1>3, PTL DEF AR!Spec

-----------------------------------------------------------------------------
(* The requests and the streams of MCP.                                    *)

CONSTANTS Requests, Savers, Streams, Endpoint
VARIABLES enabled, kind, notes, at, guards, queue, clients, sent, gone, log, from

MQ == INSTANCE McpRequests

\* The calls of the three handlers are calls of their own.
CallsAreApart ==
    Requests \cap Savers = {} /\ Requests \cap Streams = {} /\ Savers \cap Streams = {}

HasGuard == {"handling", "again", "running", "working"}

\* A request that is handled keeps its guard, and as long as there is a guard MCP is on.
GuardInv ==
    /\ at \in [MQ!Calls -> {"new", "waiting", "handling", "again", "running",
                            "working", "joining", "over"}]
    /\ guards = {r \in Requests : at[r] \in HasGuard}
    /\ guards # {} => enabled

\* A stream gets each answer from the moment it joins the list, and only one it has not got.
StreamInv ==
    /\ log \in Seq(Requests) /\ clients \subseteq Streams
    /\ DOMAIN sent = Streams /\ DOMAIN from = Streams
    /\ \A s \in Streams : at[s] = "joining" => sent[s] = <<Endpoint>>
    /\ \A s \in clients : at[s] = "over" /\ from[s] \in 0 .. Len(log)
    /\ \A s \in clients \ gone : sent[s] = <<Endpoint>> \o SubSeq(log, from[s] + 1, Len(log))

LEMMA GuardKept ==
    ASSUME CallsAreApart, GuardInv, [MQ!Next]_MQ!vars
    PROVE  GuardInv'
<1>0. /\ Requests \subseteq MQ!Calls /\ Savers \subseteq MQ!Calls /\ Streams \subseteq MQ!Calls
      /\ \A r \in Requests : r \notin Savers /\ r \notin Streams
  BY DEF MQ!Calls, CallsAreApart
<1>1. ASSUME NEW p \in MQ!Calls,
             NEW stage \in {"waiting", "handling", "again", "running", "working", "joining", "over"},
             at' = [at EXCEPT ![p] = stage], guards' = guards, enabled' = enabled,
             p \in Requests => (at[p] \in HasGuard <=> stage \in HasGuard)
      PROVE  GuardInv'
  <2>1. /\ at' \in [MQ!Calls -> {"new", "waiting", "handling", "again", "running",
                                 "working", "joining", "over"}]
        /\ \A q \in MQ!Calls : at'[q] = IF q = p THEN stage ELSE at[q]
    BY <1>1 DEF GuardInv
  <2>2. {r \in Requests : at'[r] \in HasGuard} = {r \in Requests : at[r] \in HasGuard}
    BY <1>0, <1>1, <2>1
  <2>. QED
    BY <1>1, <2>1, <2>2 DEF GuardInv
<1>2. ASSUME NEW p \in MQ!Calls, MQ!Ask(p, "waiting"), at[p] = "new" PROVE GuardInv'
  BY <1>1, <1>2 DEF MQ!Ask, HasGuard
<1>3. ASSUME NEW r \in Requests, MQ!LetIn(r) PROVE GuardInv'
  <2>1. /\ at[r] = "waiting" /\ enabled' = enabled
        /\ at' = [at EXCEPT ![r] = IF enabled THEN "handling" ELSE "over"]
        /\ guards' = guards \cup (IF enabled THEN {r} ELSE {})
    BY <1>3 DEF MQ!LetIn
  <2>2. CASE enabled
    BY <1>0, <2>1, <2>2 DEF GuardInv, HasGuard
  <2>3. CASE ~enabled
    BY <1>0, <2>1, <2>3 DEF GuardInv, HasGuard
  <2>. QED
    BY <2>2, <2>3
<1>4. ASSUME NEW r \in Requests, MQ!TurnDown(r) \/ MQ!CreateTab(r) \/ MQ!SplitPane(r) \/ MQ!ReadAgain(r)
                                  \/ MQ!TypeCommand(r) \/ MQ!CommandOver(r) \/ MQ!OtherTool(r)
      PROVE  GuardInv'
  <2>1. PICK stage \in {"again", "running", "working"} : at' = [at EXCEPT ![r] = stage]
    BY <1>4 DEF MQ!TurnDown, MQ!CreateTab, MQ!SplitPane, MQ!ReadAgain, MQ!TypeCommand, MQ!CommandOver,
                MQ!OtherTool, MQ!Goes, MQ!Ask
  <2>2. at[r] \in HasGuard /\ guards' = guards /\ enabled' = enabled
    BY <1>4 DEF MQ!TurnDown, MQ!CreateTab, MQ!SplitPane, MQ!ReadAgain, MQ!TypeCommand, MQ!CommandOver,
                MQ!OtherTool, MQ!Goes, MQ!Ask, MQ!lock, HasGuard
  <2>3. stage \in HasGuard
    BY DEF HasGuard
  <2>. QED
    BY <1>0, <1>1, <2>1, <2>2, <2>3
<1>5. ASSUME NEW r \in Requests, MQ!Answer(r) PROVE GuardInv'
  <2>1. at' = [at EXCEPT ![r] = "over"] /\ guards' = guards \ {r} /\ enabled' = enabled
    BY <1>5 DEF MQ!Answer
  <2>. QED
    BY <1>0, <2>1 DEF GuardInv, HasGuard
<1>6. ASSUME NEW s \in Streams, MQ!Open(s) PROVE GuardInv'
  <2>1. PICK stage \in {"joining", "over"} : at' = [at EXCEPT ![s] = stage]
    BY <1>6 DEF MQ!Open
  <2>2. guards' = guards /\ enabled' = enabled
    BY <1>6 DEF MQ!Open
  <2>. QED
    BY <1>0, <1>1, <2>1, <2>2 DEF CallsAreApart
<1>7. ASSUME NEW s \in Streams, MQ!Join(s) PROVE GuardInv'
  <2>1. at' = [at EXCEPT ![s] = "over"] /\ guards' = guards /\ enabled' = enabled
    BY <1>7 DEF MQ!Join, MQ!lock
  <2>. QED
    BY <1>0, <1>1, <2>1 DEF CallsAreApart
<1>8. ASSUME NEW w \in Savers, MQ!Put(w) PROVE GuardInv'
  <2>1. at' = [at EXCEPT ![w] = "over"] /\ guards' = guards /\ guards = {}
    BY <1>8 DEF MQ!Put, MQ!lock, MQ!MayWrite
  <2>2. {r \in Requests : at'[r] \in HasGuard} = {r \in Requests : at[r] \in HasGuard}
    BY <1>0, <2>1 DEF GuardInv
  <2>. QED
    BY <1>0, <2>1, <2>2 DEF GuardInv
<1>9. ASSUME UNCHANGED <<at, guards, enabled>> PROVE GuardInv'
  BY <1>9 DEF GuardInv
<1>10. ASSUME NEW r \in Requests, MQ!Post(r) \/ MQ!Step(r) PROVE GuardInv'
  BY <1>0, <1>2, <1>3, <1>4, <1>5, <1>10 DEF MQ!Post, MQ!Step
<1>11. ASSUME NEW s \in Streams, MQ!Listen(s) \/ MQ!Open(s) \/ MQ!Join(s) \/ MQ!HangUp(s) PROVE GuardInv'
  BY <1>0, <1>2, <1>6, <1>7, <1>9, <1>11 DEF MQ!Listen, MQ!HangUp, MQ!lock
<1>12. ASSUME NEW w \in Savers, MQ!Save(w) \/ MQ!Put(w) PROVE GuardInv'
  BY <1>0, <1>2, <1>8, <1>12 DEF MQ!Save
<1>. QED
  BY <1>9, <1>10, <1>11, <1>12 DEF MQ!Next, MQ!vars, MQ!lock

LEMMA NothingSince ==
    ASSUME NEW S, NEW sq \in Seq(S), NEW a
    PROVE  <<a>> \o SubSeq(sq, Len(sq) + 1, Len(sq)) = <<a>>
<1>1. SubSeq(sq, Len(sq) + 1, Len(sq)) = <<>>
  BY SubSeqEmpty
<1>2. <<a>> \in Seq({a})
  OBVIOUS
<1>3. <<a>> \o <<>> = <<a>>
  BY <1>2, ConcatEmptySeq, Zenon
<1>. QED
  BY <1>1, <1>3, Zenon

LEMMA SubSeqAppend ==
    ASSUME NEW S, NEW sq \in Seq(S), NEW x \in S, NEW k \in 0 .. Len(sq)
    PROVE  SubSeq(Append(sq, x), k + 1, Len(Append(sq, x))) = Append(SubSeq(sq, k + 1, Len(sq)), x)
<1>. DEFINE since == SubSeq(sq, k + 1, Len(sq))
            more  == Append(sq, x)
            after == SubSeq(more, k + 1, Len(more))
<1>1. /\ more \in Seq(S) /\ Len(more) = Len(sq) + 1 /\ Len(sq) \in Nat
      /\ \A i \in 1 .. Len(more) : more[i] = IF i <= Len(sq) THEN sq[i] ELSE x
  OBVIOUS
<1>2. /\ since \in Seq(S)
      /\ Len(since) = IF k + 1 <= Len(sq) THEN Len(sq) - (k + 1) + 1 ELSE 0
      /\ \A i \in 1 .. Len(sq) - (k + 1) + 1 : since[i] = sq[k + 1 + i - 1]
  BY SubSeqProperties
<1>. HIDE DEF more, since
<1>3. /\ after \in Seq(S)
      /\ Len(after) = IF k + 1 <= Len(more) THEN Len(more) - (k + 1) + 1 ELSE 0
      /\ \A i \in 1 .. Len(more) - (k + 1) + 1 : after[i] = more[k + 1 + i - 1]
  BY <1>1, SubSeqProperties
<1>. HIDE DEF after
<1>4. Append(since, x) \in Seq(S) /\ Len(Append(since, x)) = Len(after)
  BY <1>1, <1>2, <1>3
<1>5. ASSUME NEW i \in 1 .. Len(after) PROVE after[i] = Append(since, x)[i]
  <2>1. Len(after) = Len(sq) - k + 1 /\ Len(since) = Len(sq) - k
    BY <1>1, <1>2, <1>3
  <2>2. after[i] = IF i = Len(since) + 1 THEN x ELSE sq[k + i]
    <3>1. i \in 1 .. Len(sq) - k + 1
      BY <2>1
    <3>2. after[i] = more[k + 1 + i - 1] /\ k + 1 + i - 1 = k + i
      BY <1>1, <1>3, <3>1
    <3>3. k + i \in 1 .. Len(more)
      BY <1>1, <3>1
    <3>. QED
      BY <1>1, <2>1, <3>1, <3>2, <3>3
  <2>3. Append(since, x)[i] = IF i = Len(since) + 1 THEN x ELSE since[i]
    <3>1. i \in 1 .. Len(since) + 1
      BY <1>1, <2>1
    <3>2. \A j \in 1 .. Len(since) + 1 : Append(since, x)[j] = IF j = Len(since) + 1 THEN x ELSE since[j]
      BY <1>2
    <3>. QED
      BY <3>1, <3>2
  <2>4. i # Len(since) + 1 => since[i] = sq[k + i]
    <3>1. ASSUME i # Len(since) + 1 PROVE since[i] = sq[k + i]
      <4>1. i \in 1 .. Len(sq) - (k + 1) + 1
        BY <1>1, <2>1, <3>1
      <4>2. since[i] = sq[k + 1 + i - 1]
        BY <1>2, <4>1
      <4>3. k + 1 + i - 1 = k + i
        BY <4>1
      <4>. QED
        BY <4>2, <4>3
    <3>. QED
      BY <3>1
  <2>. QED
    BY <2>2, <2>3, <2>4
<1>6. after = Append(since, x)
  BY <1>3, <1>4, <1>5, SeqEqual
<1>. QED
  BY <1>6 DEF after, more, since

LEMMA ConcatAppend ==
    ASSUME NEW T, NEW first \in Seq(T), NEW since \in Seq(T), NEW x \in T
    PROVE  first \o Append(since, x) = Append(first \o since, x)
<1>2. <<x>> \in Seq(T)
  OBVIOUS
<1>4. Append(since, x) = since \o <<x>>
  BY <1>2, AppendIsConcat, Zenon
<1>5. first \o since \in Seq(T)
  BY <1>2, ConcatProperties, Zenon
<1>6. Append(first \o since, x) = (first \o since) \o <<x>>
  BY <1>5, AppendIsConcat, Zenon
<1>7. (first \o since) \o <<x>> = first \o (since \o <<x>>)
  BY <1>2, ConcatAssociative
<1>. QED
  BY <1>4, <1>6, <1>7, Zenon

LEMMA StreamKept ==
    ASSUME CallsAreApart, GuardInv, StreamInv, [MQ!Next]_MQ!vars
    PROVE  StreamInv'
<1>0. /\ Requests \subseteq MQ!Calls /\ Savers \subseteq MQ!Calls /\ Streams \subseteq MQ!Calls
      /\ \A r \in Streams : r \notin Savers /\ r \notin Requests
      /\ DOMAIN at = MQ!Calls
  BY DEF MQ!Calls, CallsAreApart, GuardInv
<1>1. ASSUME UNCHANGED <<clients, sent, gone, log, from>>, NEW p \in MQ!Calls, NEW stage,
             at' = [at EXCEPT ![p] = stage],
             p \in Streams => at[p] # "over" /\ stage # "joining"
      PROVE  StreamInv'
  BY <1>0, <1>1 DEF StreamInv
<1>2. ASSUME UNCHANGED <<clients, sent, gone, log, from, at>> PROVE StreamInv'
  BY <1>2 DEF StreamInv
<1>3. ASSUME NEW p \in MQ!Calls, MQ!Ask(p, "waiting"), at[p] = "new" PROVE StreamInv'
  BY <1>1, <1>3 DEF MQ!Ask, MQ!sse
<1>4. ASSUME NEW r \in Requests, MQ!LetIn(r) \/ MQ!TurnDown(r) \/ MQ!CreateTab(r) \/ MQ!SplitPane(r)
                                  \/ MQ!ReadAgain(r) \/ MQ!TypeCommand(r) \/ MQ!CommandOver(r) \/ MQ!OtherTool(r)
      PROVE  StreamInv'
  <2>1. \E stage : at' = [at EXCEPT ![r] = stage]
    BY <1>4 DEF MQ!LetIn, MQ!TurnDown, MQ!CreateTab, MQ!SplitPane, MQ!ReadAgain, MQ!TypeCommand, MQ!CommandOver,
                MQ!OtherTool, MQ!Goes, MQ!Ask
  <2>2. UNCHANGED <<clients, sent, gone, log, from>>
    BY <1>4 DEF MQ!LetIn, MQ!TurnDown, MQ!CreateTab, MQ!SplitPane, MQ!ReadAgain, MQ!TypeCommand, MQ!CommandOver,
                MQ!OtherTool, MQ!Goes, MQ!Ask, MQ!sse
  <2>. QED
    BY <1>0, <1>1, <2>1, <2>2
<1>5. ASSUME NEW r \in Requests, MQ!Answer(r) PROVE StreamInv'
  <2>1. at' = [at EXCEPT ![r] = "over"]
    BY <1>5 DEF MQ!Answer
  <2>2. CASE r \in notes
    <3>1. UNCHANGED <<clients, sent, gone, log, from>>
      BY <1>5, <2>2 DEF MQ!Answer, MQ!sse
    <3>. QED
      BY <1>0, <1>1, <2>1, <3>1
  <2>3. CASE r \notin notes
    <3>1. /\ log' = Append(log, r) /\ clients' = clients \ gone /\ UNCHANGED <<gone, from>>
          /\ sent' = [s \in Streams |-> IF s \in clients \ gone THEN Append(sent[s], r) ELSE sent[s]]
      BY <1>5, <2>3 DEF MQ!Answer
    <3>2. \A s \in Streams : at'[s] = at[s]
      BY <1>0, <2>1
    <3>3. log \in Seq(Requests) /\ log' \in Seq(Requests)
      BY <3>1 DEF StreamInv
    <3>4. /\ clients' \subseteq Streams /\ DOMAIN sent' = Streams /\ DOMAIN from' = Streams
          /\ clients' \subseteq clients
      BY <3>1 DEF StreamInv
    <3>5. ASSUME NEW s \in Streams, at'[s] = "joining" PROVE sent'[s] = <<Endpoint>>
      <4>1. at[s] = "joining" /\ s \notin clients
        BY <3>2, <3>5 DEF StreamInv
      <4>. QED
        BY <3>1, <4>1 DEF StreamInv
    <3>6. ASSUME NEW s \in clients' PROVE at'[s] = "over" /\ from'[s] \in 0 .. Len(log')
      <4>1. s \in clients /\ s \in Streams
        BY <3>4
      <4>2. at[s] = "over" /\ from[s] \in 0 .. Len(log)
        BY <4>1 DEF StreamInv
      <4>3. from[s] \in 0 .. Len(Append(log, r))
        BY <3>3, <4>2
      <4>. QED
        BY <3>1, <3>2, <4>1, <4>2, <4>3
    <3>7. ASSUME NEW s \in clients' \ gone' PROVE sent'[s] = <<Endpoint>> \o SubSeq(log', from'[s] + 1, Len(log'))
      <4>1. s \in clients /\ s \in Streams /\ s \notin gone
        BY <3>1, <3>4, <3>7
      <4>2. sent[s] = <<Endpoint>> \o SubSeq(log, from[s] + 1, Len(log))
        BY <4>1 DEF StreamInv
      <4>. DEFINE start == from[s]
      <4>5. start \in 0 .. Len(log)
        BY <4>1 DEF StreamInv
      <4>6. log \in Seq(Requests)
        BY <3>3
      <4>7. <<Endpoint>> \in Seq({Endpoint})
        OBVIOUS
      <4>. DEFINE first == <<Endpoint>>
      <4>. HIDE DEF start, first
      <4>8. SubSeq(Append(log, r), start + 1, Len(Append(log, r))) = Append(SubSeq(log, start + 1, Len(log)), r)
        BY <4>5, <4>6, SubSeqAppend, Zenon
      <4>. DEFINE T == Requests \cup {Endpoint}
      <4>9. first \in Seq(T) /\ SubSeq(log, start + 1, Len(log)) \in Seq(T) /\ r \in T
        <5>1. log \in Seq(T) /\ first \in Seq(T)
          BY <4>6, <4>7 DEF first
        <5>2. \A i \in start + 1 .. Len(log) : log[i] \in T
          BY <4>5, <4>6
        <5>3. SubSeq(log, start + 1, Len(log)) \in Seq(T)
          BY <4>5, <4>6, <5>2, SubSeqProperties
        <5>. QED
          BY <5>1, <5>3
      <4>. DEFINE since == SubSeq(log, start + 1, Len(log))
      <4>10. since \in Seq(T)
        BY <4>9
      <4>11. first \in Seq(T)
        BY <4>9
      <4>12. r \in T
        BY <4>9
      <4>. HIDE DEF T, since
      <4>3. first \o Append(since, r) = Append(first \o since, r)
        BY <4>10, <4>11, <4>12, ConcatAppend
      <4>4. sent'[s] = Append(sent[s], r)
        BY <3>1, <4>1
      <4>. QED
        BY <3>1, <4>2, <4>3, <4>4, <4>8, Zenon DEF start, first, since
    <3>. QED
      BY <3>3, <3>4, <3>5, <3>6, <3>7, Zenon DEF StreamInv
  <2>. QED
    BY <2>2, <2>3
<1>6. ASSUME NEW s \in Streams, MQ!Open(s) PROVE StreamInv'
  <2>1. PICK stage \in {"joining", "over"} :
          /\ at' = [at EXCEPT ![s] = stage]
          /\ sent' = [sent EXCEPT ![s] = IF stage = "joining" THEN <<Endpoint>> ELSE sent[s]]
    BY <1>6 DEF MQ!Open
  <2>2. at[s] = "waiting" /\ UNCHANGED <<clients, gone, log, from>>
    BY <1>6 DEF MQ!Open
  <2>3. s \notin clients
    BY <2>2 DEF StreamInv
  <2>4. \A t \in Streams : t # s => at'[t] = at[t] /\ sent'[t] = sent[t]
    BY <1>0, <2>1 DEF StreamInv
  <2>5. DOMAIN sent' = Streams /\ (at'[s] = "joining" => sent'[s] = <<Endpoint>>)
    BY <1>0, <2>1 DEF StreamInv
  <2>. QED
    BY <2>2, <2>3, <2>4, <2>5 DEF StreamInv
<1>7. ASSUME NEW s \in Streams, MQ!Join(s) PROVE StreamInv'
  <2>1. /\ at[s] = "joining" /\ at' = [at EXCEPT ![s] = "over"] /\ clients' = clients \cup {s}
        /\ from' = [from EXCEPT ![s] = Len(log)] /\ UNCHANGED <<sent, gone, log>>
    BY <1>7 DEF MQ!Join
  <2>2. s \notin clients
    BY <2>1 DEF StreamInv
  <2>3. from'[s] = Len(log) /\ at'[s] = "over" /\ Len(log) \in 0 .. Len(log)
    BY <1>0, <2>1 DEF StreamInv
  <2>4. sent[s] = <<Endpoint>> \o SubSeq(log, Len(log) + 1, Len(log))
    <3>1. sent[s] = <<Endpoint>> /\ log \in Seq(Requests)
      BY <2>1 DEF StreamInv
    <3>. QED
      BY <3>1, NothingSince, Zenon
  <2>5. \A t \in Streams : t # s => at'[t] = at[t] /\ from'[t] = from[t]
    BY <1>0, <2>1 DEF StreamInv
  <2>6. /\ log' \in Seq(Requests) /\ clients' \subseteq Streams
        /\ DOMAIN sent' = Streams /\ DOMAIN from' = Streams
        /\ \A t \in Streams : at'[t] = "joining" => sent'[t] = <<Endpoint>>
    BY <1>0, <2>1, <2>3, <2>5 DEF StreamInv
  <2>7. \A t \in clients' : at'[t] = "over" /\ from'[t] \in 0 .. Len(log')
    BY <2>1, <2>3, <2>5 DEF StreamInv
  <2>8. ASSUME NEW t \in clients' \ gone' PROVE sent'[t] = <<Endpoint>> \o SubSeq(log', from'[t] + 1, Len(log'))
    <3>1. CASE t = s
      BY <2>1, <2>3, <2>4, <3>1, Zenon
    <3>2. CASE t # s
      <4>1. t \in clients \ gone /\ t \in Streams
        BY <2>1, <2>8, <3>2 DEF StreamInv
      <4>2. sent[t] = <<Endpoint>> \o SubSeq(log, from[t] + 1, Len(log))
        BY <4>1 DEF StreamInv
      <4>. QED
        BY <2>1, <2>5, <3>2, <4>1, <4>2, Zenon
    <3>. QED
      BY <3>1, <3>2
  <2>. QED
    BY <2>6, <2>7, <2>8, Zenon DEF StreamInv
<1>8. ASSUME NEW s \in Streams, MQ!HangUp(s) PROVE StreamInv'
  <2>1. gone' = gone \cup {s} /\ UNCHANGED <<at, clients, sent, log, from>>
    BY <1>8 DEF MQ!HangUp
  <2>. QED
    BY <2>1 DEF StreamInv
<1>9. ASSUME NEW w \in Savers, MQ!Put(w) PROVE StreamInv'
  <2>1. at' = [at EXCEPT ![w] = "over"] /\ UNCHANGED <<clients, sent, gone, log, from>>
    BY <1>9 DEF MQ!Put, MQ!sse
  <2>. QED
    BY <1>0, <1>1, <2>1
<1>10. ASSUME NEW r \in Requests, MQ!Post(r) \/ MQ!Step(r) PROVE StreamInv'
  BY <1>0, <1>3, <1>4, <1>5, <1>10 DEF MQ!Post, MQ!Step
<1>11. ASSUME NEW s \in Streams, MQ!Listen(s) \/ MQ!Open(s) \/ MQ!Join(s) \/ MQ!HangUp(s) PROVE StreamInv'
  BY <1>0, <1>3, <1>6, <1>7, <1>8, <1>11 DEF MQ!Listen
<1>12. ASSUME NEW w \in Savers, MQ!Save(w) \/ MQ!Put(w) PROVE StreamInv'
  BY <1>0, <1>3, <1>9, <1>12 DEF MQ!Save
<1>13. ASSUME UNCHANGED MQ!vars PROVE StreamInv'
  BY <1>2, <1>13 DEF MQ!vars, MQ!sse
<1>. QED
  BY <1>10, <1>11, <1>12, <1>13 DEF MQ!Next

LEMMA McpInit == MQ!Init => GuardInv /\ StreamInv
<1>. SUFFICES ASSUME MQ!Init PROVE GuardInv /\ StreamInv
  OBVIOUS
<1>1. Requests \subseteq MQ!Calls /\ Streams \subseteq MQ!Calls
  BY DEF MQ!Calls
<1>2. GuardInv
  BY <1>1 DEF MQ!Init, GuardInv, HasGuard
<1>3. StreamInv
  BY <1>1 DEF MQ!Init, StreamInv
<1>. QED
  BY <1>2, <1>3

\* No tool runs after a change of the settings has turned MCP off: mcp_message_handler keeps
\* its guard of the settings until the answer is there, and the change waits for it.
THEOREM ToolsRunWhileOn ==
    ASSUME CallsAreApart
    PROVE  MQ!Spec => []MQ!HandledWhileEnabled
<1>1. GuardInv /\ [MQ!Next]_MQ!vars => GuardInv'
  BY GuardKept
<1>2. GuardInv => MQ!HandledWhileEnabled
  BY DEF GuardInv, HasGuard, MQ!HandledWhileEnabled
<1>. QED
  BY McpInit, <1>1, <1>2, PTL DEF MQ!Spec

\* A client of the event stream has the endpoint and then every answer since it joined, each
\* once and in the order of the others, whoever joins or hangs up in between.
THEOREM StreamsMissNothing ==
    ASSUME CallsAreApart
    PROVE  MQ!Spec => []MQ!StreamsHaveAnswers
<1>1. GuardInv /\ StreamInv /\ [MQ!Next]_MQ!vars => (GuardInv /\ StreamInv)'
  BY GuardKept, StreamKept
<1>2. StreamInv => MQ!StreamsHaveAnswers
  BY DEF StreamInv, MQ!StreamsHaveAnswers
<1>. QED
  BY McpInit, <1>1, <1>2, PTL DEF MQ!Spec

-----------------------------------------------------------------------------
(* One connection of the sync websocket.                                   *)

CONSTANTS Capacity, MaxChanges
VARIABLES version, cast, listed, phase, rx, bridge, fwd, out, writer, frame, pinging, missed,
          pong, shutdown, client, snap, got

SY == INSTANCE SyncConnection

Kinds  == {"change", "snapshot", "sample", "ping", "close", "none"}
Frames == [kind : Kinds, n : Nat]

\* What a frame tells the client, what the client knows already, and what it will know
\* when it has got the frame being sent and those before place k of a queue.
Tells(f, m)      == (f.kind = "change" /\ f.n = m) \/ (f.kind = "snapshot" /\ m <= f.n)
Known(m)         == m <= snap \/ Tells(frame, m) \/ \E j \in DOMAIN got : got[j] = m
Before(q, k, m)  == \E j \in DOMAIN q : j < k /\ Tells(q[j], m)
InQueue(q, m)    == \E j \in DOMAIN q : Tells(q[j], m)

SyncTypes ==
    /\ version \in Nat /\ cast \in Nat /\ cast <= version
    /\ rx \in Seq(Frames) /\ out \in Seq(Frames) /\ frame \in Frames
    /\ snap \in Nat /\ got \in Seq(Nat)

OneSnapshot(q) == \A i, j \in DOMAIN q : q[i].kind = "snapshot" /\ q[j].kind = "snapshot" => i = j

\* A queue of broadcasts carries changes that were made and no snapshot; the only snapshot
\* comes before every change.
SyncPhases ==
    /\ \A i \in DOMAIN rx : rx[i].kind # "snapshot" /\ (rx[i].kind = "change" => rx[i].n <= cast)
    /\ phase \in {"fresh", "registered"} =>
         snap = 0 /\ out = <<>> /\ frame = SY!NoFrame /\ got = <<>> /\ ~fwd
         /\ writer # "sending"
    /\ phase = "fresh" => rx = <<>> /\ ~listed
    /\ phase = "registered" => listed /\ bridge
    /\ frame.kind = "snapshot" => snap = 0 /\ \A i \in DOMAIN out : out[i].kind # "snapshot"
    /\ \A i \in DOMAIN out : out[i].kind = "snapshot" => snap = 0
    /\ OneSnapshot(out)
    /\ writer # "sending" => frame = SY!NoFrame
    /\ writer = "off" => out = <<>>

Ordered(q) ==
    \A i \in DOMAIN q : q[i].kind = "change" => \A m \in 1 .. q[i].n - 1 : Known(m) \/ Before(q, i, m)

\* Before each change the client is told every earlier one, and as long as broadcasts are
\* forwarded, every change that was broadcast.
OutInOrder ==
    /\ frame.kind = "change" => \A m \in 1 .. frame.n - 1 : Known(m)
    /\ Ordered(out)

RxInOrder ==
    fwd /\ writer # "off" =>
        /\ listed /\ bridge
        /\ \A i \in DOMAIN rx : rx[i].kind = "change" =>
             \A m \in 1 .. rx[i].n - 1 : Known(m) \/ InQueue(out, m) \/ Before(rx, i, m)
        /\ \A m \in 1 .. cast : Known(m) \/ InQueue(out, m) \/ InQueue(rx, m)

SyncInv == SyncTypes /\ SyncPhases /\ OutInOrder /\ RxInOrder /\ SY!NoGaps

LEMMA NoFrameTells == SY!NoFrame \in Frames /\ SY!NoFrame.kind = "none" /\ \A m : ~Tells(SY!NoFrame, m)
  BY DEF SY!NoFrame, SY!Frame, Frames, Kinds, Tells

LEMMA FrameNumbers == \A q \in Seq(Frames) : \A i \in DOMAIN q : q[i] \in Frames /\ q[i].n \in Nat
<1>1. \A f \in Frames : f.n \in Nat
  BY DEF Frames
<1>2. \A q \in Seq(Frames) : \A i \in DOMAIN q : q[i] \in Frames
  OBVIOUS
<1>. QED
  BY <1>1, <1>2

LEMMA TailFacts ==
    ASSUME NEW q \in Seq(Frames), q # <<>>
    PROVE  /\ Head(q) \in Frames /\ Tail(q) \in Seq(Frames) /\ 1 \in DOMAIN q /\ q[1] = Head(q)
           /\ \A i \in DOMAIN Tail(q) : i \in Nat /\ i + 1 \in DOMAIN q /\ Tail(q)[i] = q[i + 1]
           /\ \A j \in DOMAIN q : j \in Nat /\ (j = 1 \/ (j - 1 \in DOMAIN Tail(q) /\ Tail(q)[j - 1] = q[j]))
  OBVIOUS

\* What the head of a queue tells, and what its tail tells before a place.
LEMMA TailTells ==
    ASSUME NEW q \in Seq(Frames), q # <<>>, NEW m
    PROVE  /\ InQueue(q, m) => Tells(Head(q), m) \/ InQueue(Tail(q), m)
           /\ \A i \in DOMAIN Tail(q) :
                Before(q, i + 1, m) => Tells(Head(q), m) \/ Before(Tail(q), i, m)
<1>1. InQueue(q, m) => Tells(Head(q), m) \/ InQueue(Tail(q), m)
  BY TailFacts DEF InQueue
<1>2. ASSUME NEW i \in DOMAIN Tail(q), Before(q, i + 1, m)
      PROVE  Tells(Head(q), m) \/ Before(Tail(q), i, m)
  <2>1. PICK j \in DOMAIN q : j < i + 1 /\ Tells(q[j], m)
    BY <1>2 DEF Before
  <2>2. CASE j = 1
    BY <2>1, <2>2, TailFacts
  <2>3. CASE j # 1
    <3>1. j \in Nat /\ i \in Nat /\ j - 1 \in DOMAIN Tail(q) /\ Tail(q)[j - 1] = q[j]
      BY <2>3, TailFacts
    <3>2. j - 1 < i
      BY <2>1, <3>1
    <3>. QED
      BY <2>1, <3>1, <3>2 DEF Before
  <2>. QED
    BY <2>2, <2>3
<1>. QED
  BY <1>1, <1>2

LEMMA AppendFacts ==
    ASSUME NEW q \in Seq(Frames), NEW f \in Frames
    PROVE  /\ Append(q, f) \in Seq(Frames)
           /\ \A i \in DOMAIN q : i \in DOMAIN Append(q, f) /\ Append(q, f)[i] = q[i]
           /\ \A i \in DOMAIN Append(q, f) : i \in DOMAIN q \/ (i = Len(q) + 1 /\ Append(q, f)[i] = f)
           /\ Len(q) + 1 \in DOMAIN Append(q, f) /\ Append(q, f)[Len(q) + 1] = f
           /\ \A i \in DOMAIN q : i \in Nat /\ i < Len(q) + 1
  OBVIOUS

LEMMA AppendTells ==
    ASSUME NEW q \in Seq(Frames), NEW f \in Frames, NEW m
    PROVE  /\ InQueue(q, m) => InQueue(Append(q, f), m)
           /\ Tells(f, m) => InQueue(Append(q, f), m)
           /\ \A i \in DOMAIN q : Before(q, i, m) => Before(Append(q, f), i, m)
           /\ InQueue(q, m) => Before(Append(q, f), Len(q) + 1, m)
<1>1. InQueue(q, m) => InQueue(Append(q, f), m)
  BY AppendFacts DEF InQueue
<1>2. Tells(f, m) => InQueue(Append(q, f), m)
  BY AppendFacts DEF InQueue
<1>3. \A i \in DOMAIN q : Before(q, i, m) => Before(Append(q, f), i, m)
  BY AppendFacts DEF Before
<1>4. InQueue(q, m) => Before(Append(q, f), Len(q) + 1, m)
  BY AppendFacts DEF InQueue, Before
<1>. QED
  BY <1>1, <1>2, <1>3, <1>4

LEMMA SyncInit == SY!Init => SyncInv
<1>. SUFFICES ASSUME SY!Init PROVE SyncInv
  OBVIOUS
<1>1. /\ version = 0 /\ cast = 0 /\ phase = "fresh" /\ rx = <<>> /\ ~fwd /\ ~listed /\ out = <<>> /\ writer = "idle"
      /\ frame = SY!NoFrame /\ snap = 0 /\ got = <<>>
  BY DEF SY!Init
<1>2. SyncTypes
  BY <1>1, NoFrameTells DEF SyncTypes
<1>3. SyncPhases
  BY <1>1, NoFrameTells DEF SyncPhases, OneSnapshot
<1>4. OutInOrder /\ RxInOrder /\ SY!NoGaps
  BY <1>1, NoFrameTells DEF OutInOrder, Ordered, RxInOrder, SY!NoGaps
<1>. QED
  BY <1>2, <1>3, <1>4 DEF SyncInv

\* Steps that leave the queues, the writer and the client's knowledge alone.
LEMMA QuietKeeps ==
    ASSUME SyncInv, version' \in Nat, cast' <= version',
           UNCHANGED <<cast, rx, bridge, fwd, listed, out, writer, frame, snap, got>>,
           phase' = phase
    PROVE  SyncInv'
<1>1. SyncTypes'
  BY DEF SyncInv, SyncTypes
<1>2. SyncPhases'
  BY DEF SyncInv, SyncPhases, OneSnapshot
<1>3. \A m : Known(m)' <=> Known(m)
  BY DEF Known
<1>4. OutInOrder'
  BY <1>3 DEF SyncInv, OutInOrder, Ordered
<1>5. RxInOrder'
  BY <1>3 DEF SyncInv, RxInOrder
<1>6. SY!NoGaps'
  BY DEF SyncInv, SY!NoGaps
<1>. QED
  BY <1>1, <1>2, <1>4, <1>5, <1>6 DEF SyncInv

\* A broadcast: one more frame for the connection, unless nobody takes it any more.
LEMMA DeliverKeeps ==
    ASSUME SyncInv, NEW f \in Frames, f.kind # "snapshot",
           f.kind = "change" => f.n = cast' /\ cast' = cast + 1,
           f.kind # "change" => cast' = cast /\ listed,
           cast' <= version, SY!Deliver(f),
           UNCHANGED <<version, phase, bridge, fwd, out, writer, frame, snap, got>>
    PROVE  SyncInv'
<1>0. SyncTypes /\ SyncPhases /\ OutInOrder /\ RxInOrder /\ SY!NoGaps
  BY DEF SyncInv
<1>1. /\ rx' = IF listed /\ bridge THEN Append(rx, f) ELSE rx
      /\ listed' = (listed /\ bridge)
  BY DEF SY!Deliver
<1>2. \A m : Known(m)' <=> Known(m)
  BY DEF Known
<1>3. cast' \in Nat /\ cast <= cast'
  BY <1>0 DEF SyncTypes
<1>4. OutInOrder' /\ SY!NoGaps'
  <2>1. OutInOrder'
    BY <1>0, <1>2 DEF OutInOrder, Ordered
  <2>. QED
    BY <1>0, <2>1 DEF SY!NoGaps
<1>5. CASE ~(listed /\ bridge)
  <2>1. rx' = rx
    BY <1>1, <1>5
  <2>2. SyncTypes'
    BY <1>0, <1>3, <2>1 DEF SyncTypes
  <2>3. SyncPhases'
    <3>1. \A i \in DOMAIN rx : rx[i].kind = "change" => rx[i].n <= cast'
      <4>1. \A i \in DOMAIN rx : rx[i].n \in Nat
        BY <1>0, FrameNumbers DEF SyncTypes
      <4>. QED
        BY <1>0, <1>3, <4>1 DEF SyncPhases, SyncTypes
    <3>2. phase # "registered" /\ ~listed'
      BY <1>0, <1>1, <1>5 DEF SyncPhases
    <3>. QED
      BY <1>0, <2>1, <3>1, <3>2 DEF SyncPhases
  <2>4. RxInOrder'
    BY <1>0, <1>5 DEF RxInOrder
  <2>. QED
    BY <1>4, <2>2, <2>3, <2>4 DEF SyncInv
<1>6. CASE listed /\ bridge
  <2>1. rx' = Append(rx, f) /\ rx \in Seq(Frames) /\ listed'
    BY <1>0, <1>1, <1>6 DEF SyncTypes
  <2>2. SyncTypes'
    <3>1. rx' \in Seq(Frames)
      BY <2>1, AppendFacts
    <3>. QED
      BY <1>0, <1>3, <3>1 DEF SyncTypes
  <2>3. SyncPhases'
    <3>1. ASSUME NEW i \in DOMAIN rx'
          PROVE  rx'[i].kind # "snapshot" /\ (rx'[i].kind = "change" => rx'[i].n <= cast')
      <4>1. CASE i \in DOMAIN rx
        <5>1. rx'[i] = rx[i] /\ rx[i].n \in Nat
          BY <2>1, <4>1, AppendFacts, FrameNumbers
        <5>. QED
          BY <1>0, <1>3, <4>1, <5>1 DEF SyncPhases, SyncTypes
      <4>2. CASE i \notin DOMAIN rx
        <5>1. rx'[i] = f
          BY <2>1, <3>1, <4>2, AppendFacts
        <5>. QED
          BY <1>3, <5>1
      <4>. QED
        BY <4>1, <4>2
    <3>2. phase # "fresh"
      BY <1>0, <1>6 DEF SyncPhases
    <3>. QED
      BY <1>0, <2>1, <3>1, <3>2 DEF SyncPhases
  <2>4. RxInOrder'
    <3>. SUFFICES ASSUME fwd, writer # "off" PROVE RxInOrder'
      BY DEF RxInOrder
    <3>1. \A m : InQueue(rx, m) => InQueue(rx', m)
      BY <2>1, AppendTells
    <3>2. ASSUME NEW i \in DOMAIN rx', rx'[i].kind = "change", NEW m \in 1 .. rx'[i].n - 1
          PROVE  Known(m) \/ InQueue(out, m) \/ Before(rx', i, m)
      <4>1. CASE i \in DOMAIN rx
        <5>1. rx'[i] = rx[i]
          BY <2>1, <4>1, AppendFacts
        <5>2. Known(m) \/ InQueue(out, m) \/ Before(rx, i, m)
          BY <1>0, <3>2, <4>1, <5>1 DEF RxInOrder
        <5>. QED
          BY <2>1, <4>1, <5>2, AppendTells
      <4>2. CASE i \notin DOMAIN rx
        <5>1. rx'[i] = f /\ i = Len(rx) + 1
          BY <2>1, <3>2, <4>2, AppendFacts
        <5>2. m \in 1 .. cast
          BY <1>0, <3>2, <5>1 DEF SyncTypes
        <5>3. Known(m) \/ InQueue(out, m) \/ InQueue(rx, m)
          BY <1>0, <5>2 DEF RxInOrder
        <5>. QED
          BY <2>1, <5>1, <5>3, AppendTells
      <4>. QED
        BY <4>1, <4>2
    <3>3. ASSUME NEW m \in 1 .. cast' PROVE Known(m) \/ InQueue(out, m) \/ InQueue(rx', m)
      <4>1. CASE m \in 1 .. cast
        BY <1>0, <3>1, <4>1 DEF RxInOrder
      <4>2. CASE m \notin 1 .. cast
        <5>1. f.kind = "change" /\ m = f.n
          BY <1>0, <1>3, <3>3, <4>2 DEF SyncTypes
        <5>2. Tells(f, m)
          BY <5>1 DEF Tells
        <5>. QED
          BY <2>1, <5>2, AppendTells
      <4>. QED
        BY <4>1, <4>2
    <3>. QED
      BY <1>2, <1>6, <2>1, <3>2, <3>3 DEF RxInOrder
  <2>. QED
    BY <1>4, <2>2, <2>3, <2>4 DEF SyncInv
<1>. QED
  BY <1>5, <1>6

LEMMA PushKeepsOrder ==
    ASSUME NEW q \in Seq(Frames), NEW f \in Frames, Ordered(q),
           f.kind = "change" => \A m \in 1 .. f.n - 1 : Known(m) \/ InQueue(q, m)
    PROVE  Ordered(Append(q, f))
<1>. SUFFICES ASSUME NEW i \in DOMAIN Append(q, f), Append(q, f)[i].kind = "change",
                     NEW m \in 1 .. Append(q, f)[i].n - 1
              PROVE  Known(m) \/ Before(Append(q, f), i, m)
  BY DEF Ordered
<1>1. CASE i \in DOMAIN q
  <2>1. Append(q, f)[i] = q[i]
    BY <1>1, AppendFacts
  <2>2. Known(m) \/ Before(q, i, m)
    BY <1>1, <2>1 DEF Ordered
  <2>. QED
    BY <1>1, <2>2, AppendTells
<1>2. CASE i \notin DOMAIN q
  <2>1. Append(q, f)[i] = f /\ i = Len(q) + 1
    BY <1>2, AppendFacts
  <2>2. Known(m) \/ InQueue(q, m)
    BY <2>1
  <2>. QED
    BY <2>1, <2>2, AppendTells
<1>. QED
  BY <1>1, <1>2

LEMMA PushKeepsSnapshot ==
    ASSUME NEW q \in Seq(Frames), NEW f \in Frames, f.kind # "snapshot", OneSnapshot(q)
    PROVE  /\ OneSnapshot(Append(q, f))
           /\ \A i \in DOMAIN Append(q, f) : Append(q, f)[i].kind = "snapshot" => i \in DOMAIN q /\ q[i].kind = "snapshot"
<1>1. \A i \in DOMAIN Append(q, f) : Append(q, f)[i].kind = "snapshot" => i \in DOMAIN q /\ q[i].kind = "snapshot"
  BY AppendFacts
<1>. QED
  BY <1>1 DEF OneSnapshot

\* What one frame more in the queue of outgoing frames leaves true.
LEMMA PushOut ==
    ASSUME SyncInv, NEW f \in Frames, f.kind # "snapshot", out' = Append(out, f), writer # "off",
           f.kind = "change" => \A m \in 1 .. f.n - 1 : Known(m) \/ InQueue(out, m),
           UNCHANGED <<frame, snap, got>>
    PROVE  /\ out' \in Seq(Frames) /\ OutInOrder' /\ SY!NoGaps'
           /\ \A i \in DOMAIN out' : out'[i].kind = "snapshot" => i \in DOMAIN out /\ out[i].kind = "snapshot"
           /\ OneSnapshot(out')
           /\ \A m : Known(m)' <=> Known(m)
           /\ \A m : InQueue(out, m) => InQueue(out', m)
           /\ \A m : Tells(f, m) => InQueue(out', m)
<1>0. SyncTypes /\ SyncPhases /\ OutInOrder /\ RxInOrder /\ SY!NoGaps /\ out \in Seq(Frames)
  BY DEF SyncInv, SyncTypes
<1>1. \A m : Known(m)' <=> Known(m)
  BY DEF Known
<1>2. out' \in Seq(Frames)
  BY <1>0, AppendFacts
<1>3. Ordered(out)
  BY <1>0 DEF OutInOrder
<1>4. Ordered(Append(out, f))
  BY <1>0, <1>3, PushKeepsOrder
<1>5. OutInOrder'
  <2>1. (frame.kind = "change" => \A m \in 1 .. frame.n - 1 : Known(m))'
    BY <1>0, <1>1 DEF OutInOrder
  <2>2. Ordered(out)'
    BY <1>1, <1>4 DEF Ordered
  <2>. QED
    BY <2>1, <2>2 DEF OutInOrder
<1>6. SY!NoGaps'
  BY <1>0 DEF SY!NoGaps
<1>7. OneSnapshot(out)
  BY <1>0 DEF SyncPhases
<1>8. /\ OneSnapshot(out')
      /\ \A i \in DOMAIN out' : out'[i].kind = "snapshot" => i \in DOMAIN out /\ out[i].kind = "snapshot"
  BY <1>0, <1>7, PushKeepsSnapshot
<1>9. \A m : (InQueue(out, m) => InQueue(out', m)) /\ (Tells(f, m) => InQueue(out', m))
  BY <1>0, AppendTells
<1>. QED
  BY <1>1, <1>2, <1>5, <1>6, <1>8, <1>9

LEMMA ForwardKeeps == SyncInv /\ SY!Forward => SyncInv'
<1>. SUFFICES ASSUME SyncInv, SY!Forward PROVE SyncInv'
  OBVIOUS
<1>0. SyncTypes /\ SyncPhases /\ OutInOrder /\ RxInOrder /\ SY!NoGaps
  BY DEF SyncInv
<1>1. /\ fwd /\ rx # <<>> /\ rx' = Tail(rx) /\ rx \in Seq(Frames) /\ phase \notin {"fresh", "registered"}
      /\ UNCHANGED <<version, cast, listed, phase, bridge, writer, frame, snap, got>>
  BY <1>0 DEF SY!Forward, SyncTypes, SyncPhases
<1>2. /\ Head(rx) \in Frames /\ rx' \in Seq(Frames)
      /\ \A i \in DOMAIN rx' : i \in Nat /\ i + 1 \in DOMAIN rx /\ rx'[i] = rx[i + 1]
      /\ 1 \in DOMAIN rx /\ rx[1] = Head(rx)
  BY <1>1, TailFacts
<1>3. \A i \in DOMAIN rx' : rx'[i].kind # "snapshot" /\ (rx'[i].kind = "change" => rx'[i].n <= cast)
  BY <1>0, <1>2 DEF SyncPhases
<1>4. CASE SY!Fits
  <2>1. out' = Append(out, Head(rx)) /\ fwd' /\ writer # "off"
    BY <1>4 DEF SY!Forward, SY!Fits, SY!Open
  <2>2. Head(rx).kind # "snapshot"
    BY <1>0, <1>2 DEF SyncPhases
  <2>3. ASSUME Head(rx).kind = "change", NEW m \in 1 .. Head(rx).n - 1 PROVE Known(m) \/ InQueue(out, m)
    <3>1. Known(m) \/ InQueue(out, m) \/ Before(rx, 1, m)
      BY <1>0, <1>1, <1>2, <2>1, <2>3 DEF RxInOrder
    <3>2. ~Before(rx, 1, m)
      BY <1>1, TailFacts DEF Before
    <3>. QED
      BY <3>1, <3>2
  <2>4. /\ out' \in Seq(Frames) /\ OutInOrder' /\ SY!NoGaps' /\ OneSnapshot(out')
        /\ \A i \in DOMAIN out' : out'[i].kind = "snapshot" => i \in DOMAIN out /\ out[i].kind = "snapshot"
        /\ \A m : Known(m)' <=> Known(m)
        /\ \A m : InQueue(out, m) => InQueue(out', m)
        /\ \A m : Tells(Head(rx), m) => InQueue(out', m)
    BY <1>1, <1>2, <2>1, <2>2, <2>3, PushOut
  <2>5. SyncTypes'
    BY <1>0, <1>1, <1>2, <2>4 DEF SyncTypes
  <2>6. SyncPhases'
    <3>1. out' # <<>> /\ (frame.kind = "snapshot" => snap = 0 /\ \A i \in DOMAIN out' : out'[i].kind # "snapshot")
      BY <1>0, <2>1, <2>4, AppendFacts DEF SyncPhases, SyncTypes
    <3>2. \A i \in DOMAIN out' : out'[i].kind = "snapshot" => snap = 0
      BY <1>0, <2>4 DEF SyncPhases
    <3>. QED
      BY <1>0, <1>1, <1>3, <2>1, <2>4, <3>1, <3>2 DEF SyncPhases
  <2>7. RxInOrder'
    <3>1. ASSUME NEW i \in DOMAIN rx', rx'[i].kind = "change", NEW m \in 1 .. rx'[i].n - 1
          PROVE  Known(m) \/ InQueue(out', m) \/ Before(rx', i, m)
      <4>1. Known(m) \/ InQueue(out, m) \/ Before(rx, i + 1, m)
        BY <1>0, <1>1, <1>2, <2>1, <3>1 DEF RxInOrder
      <4>2. Before(rx, i + 1, m) => Tells(Head(rx), m) \/ Before(rx', i, m)
        BY <1>1, <3>1, TailTells
      <4>. QED
        BY <2>4, <4>1, <4>2
    <3>2. ASSUME NEW m \in 1 .. cast PROVE Known(m) \/ InQueue(out', m) \/ InQueue(rx', m)
      <4>1. Known(m) \/ InQueue(out, m) \/ InQueue(rx, m)
        BY <1>0, <1>1, <2>1 DEF RxInOrder
      <4>2. InQueue(rx, m) => Tells(Head(rx), m) \/ InQueue(rx', m)
        BY <1>1, TailTells
      <4>. QED
        BY <2>4, <4>1, <4>2
    <3>3. listed /\ bridge
      BY <1>0, <1>1, <2>1 DEF RxInOrder
    <3>. QED
      BY <1>1, <2>4, <3>1, <3>2, <3>3 DEF RxInOrder
  <2>. QED
    BY <2>4, <2>5, <2>6, <2>7 DEF SyncInv
<1>5. CASE ~SY!Fits
  <2>1. out' = out /\ ~fwd'
    BY <1>5 DEF SY!Forward
  <2>2. SyncTypes'
    BY <1>0, <1>1, <1>2, <2>1 DEF SyncTypes
  <2>3. SyncPhases'
    BY <1>0, <1>1, <1>3, <2>1 DEF SyncPhases
  <2>4. OutInOrder' /\ RxInOrder' /\ SY!NoGaps'
    <3>1. \A m : Known(m)' <=> Known(m)
      BY <1>1 DEF Known
    <3>2. OutInOrder'
      BY <1>0, <1>1, <2>1, <3>1 DEF OutInOrder, Ordered
    <3>3. RxInOrder' /\ SY!NoGaps'
      BY <1>0, <1>1, <2>1 DEF RxInOrder, SY!NoGaps
    <3>. QED
      BY <3>2, <3>3
  <2>. QED
    BY <2>2, <2>3, <2>4 DEF SyncInv
<1>. QED
  BY <1>4, <1>5

\* The writer is off: what waits for it is dropped and nothing comes after.
LEMMA OffKeeps ==
    ASSUME SyncInv, writer' = "off", out' = <<>>, frame' = SY!NoFrame, phase' \notin {"fresh", "registered"},
           UNCHANGED <<version, cast, snap, rx>>, got' \in Seq(Nat), SY!NoGaps'
    PROVE  SyncInv'
<1>0. SyncTypes /\ SyncPhases
  BY DEF SyncInv
<1>1. SyncTypes'
  BY <1>0, NoFrameTells DEF SyncTypes
<1>2. SyncPhases'
  BY <1>0, NoFrameTells DEF SyncPhases, OneSnapshot
<1>3. OutInOrder' /\ RxInOrder'
  BY NoFrameTells DEF OutInOrder, Ordered, RxInOrder
<1>. QED
  BY <1>1, <1>2, <1>3 DEF SyncInv

LEMMA PingKeeps == SyncInv /\ SY!PingTick => SyncInv'
<1>. SUFFICES ASSUME SyncInv, SY!PingTick PROVE SyncInv'
  OBVIOUS
<1>0. SyncTypes /\ SyncPhases /\ OutInOrder /\ RxInOrder /\ SY!NoGaps /\ out \in Seq(Frames)
  BY DEF SyncInv, SyncTypes
<1>1. UNCHANGED <<version, cast, listed, phase, rx, bridge, fwd, writer, frame, snap, got>> /\ phase = "open"
  BY DEF SY!PingTick
<1>2. /\ SY!Ping \in Frames /\ SY!CloseFrame \in Frames
      /\ SY!Ping.kind = "ping" /\ SY!CloseFrame.kind = "close"
  BY DEF SY!Ping, SY!CloseFrame, SY!Frame, Frames, Kinds
<1>3. CASE out' = out
  BY <1>0, <1>1, <1>3, QuietKeeps DEF SyncTypes
<1>4. CASE out' # out
  <2>1. /\ writer # "off"
        /\ \/ out' = Append(out, SY!Ping)
           \/ out' = Append(Append(out, SY!Ping), SY!CloseFrame)
    <3>1. /\ writer # "off"
          /\ out' = Append(out, SY!Ping) \/ out' = out \o <<SY!Ping, SY!CloseFrame>>
      BY <1>4 DEF SY!PingTick, SY!Fits, SY!Open
    <3>2. out \o <<SY!Ping, SY!CloseFrame>> = Append(Append(out, SY!Ping), SY!CloseFrame)
      BY <1>0, <1>2
    <3>. QED
      BY <3>1, <3>2
  <2>. DEFINE once  == Append(out, SY!Ping)
              twice == Append(once, SY!CloseFrame)
  <2>2. Ordered(out) /\ OneSnapshot(out)
    BY <1>0 DEF OutInOrder, SyncPhases
  <2>3. once \in Seq(Frames) /\ Ordered(once) /\ OneSnapshot(once)
        /\ \A i \in DOMAIN once : once[i].kind = "snapshot" => i \in DOMAIN out /\ out[i].kind = "snapshot"
    BY <1>0, <1>2, <2>2, AppendFacts, PushKeepsOrder, PushKeepsSnapshot
  <2>4. \A m : InQueue(out, m) => InQueue(once, m)
    BY <1>0, <1>2, AppendTells
  <2>. HIDE DEF once
  <2>5. twice \in Seq(Frames) /\ Ordered(twice) /\ OneSnapshot(twice)
        /\ \A i \in DOMAIN twice : twice[i].kind = "snapshot" => i \in DOMAIN once /\ once[i].kind = "snapshot"
    BY <1>2, <2>3, AppendFacts, PushKeepsOrder, PushKeepsSnapshot
  <2>6. \A m : InQueue(once, m) => InQueue(twice, m)
    BY <1>2, <2>3, AppendTells
  <2>. HIDE DEF twice
  <2>7. out' = once \/ out' = twice
    BY <2>1 DEF once, twice
  <2>8. /\ out' \in Seq(Frames) /\ Ordered(out') /\ OneSnapshot(out')
        /\ \A i \in DOMAIN out' : out'[i].kind = "snapshot" => i \in DOMAIN out /\ out[i].kind = "snapshot"
        /\ \A m : InQueue(out, m) => InQueue(out', m)
    BY <2>3, <2>4, <2>5, <2>6, <2>7
  <2>9. \A m : Known(m)' <=> Known(m)
    BY <1>1 DEF Known
  <2>10. SyncTypes'
    BY <1>0, <1>1, <2>8 DEF SyncTypes
  <2>11. SyncPhases'
    BY <1>0, <1>1, <2>1, <2>8 DEF SyncPhases
  <2>12. OutInOrder'
    <3>1. (frame.kind = "change" => \A m \in 1 .. frame.n - 1 : Known(m))'
      BY <1>0, <1>1, <2>9 DEF OutInOrder
    <3>2. Ordered(out)'
      BY <2>8, <2>9 DEF Ordered
    <3>. QED
      BY <3>1, <3>2 DEF OutInOrder
  <2>13. RxInOrder'
    BY <1>0, <1>1, <2>8, <2>9 DEF RxInOrder
  <2>14. SY!NoGaps'
    BY <1>0, <1>1 DEF SY!NoGaps
  <2>. QED
    BY <2>10, <2>11, <2>12, <2>13, <2>14 DEF SyncInv
<1>. QED
  BY <1>3, <1>4

\* The registration comes before the snapshot, and the snapshot before the forwarding: what
\* was broadcast before the registration is in the snapshot.
LEMMA ConnectionKeeps ==
    ASSUME SyncInv, SY!Register \/ SY!Snapshot \/ SY!GiveUp \/ SY!Unbridge \/ SY!Leave
    PROVE  SyncInv'
<1>0. SyncTypes /\ SyncPhases /\ OutInOrder /\ RxInOrder /\ SY!NoGaps
  BY DEF SyncInv
<1>1. UNCHANGED <<version, cast, snap, got>>
  BY DEF SY!Register, SY!Snapshot, SY!GiveUp, SY!Unbridge, SY!Leave
<1>2. SY!NoGaps'
  BY <1>0, <1>1 DEF SY!NoGaps
<1>3. CASE SY!Register
  <2>1. /\ phase = "fresh" /\ phase' = "registered" /\ listed' /\ bridge'
        /\ UNCHANGED <<rx, fwd, out, writer, frame>>
    BY <1>3 DEF SY!Register
  <2>2. snap = 0 /\ out = <<>> /\ frame = SY!NoFrame /\ got = <<>> /\ ~fwd /\ rx = <<>>
    BY <1>0, <2>1 DEF SyncPhases
  <2>3. SyncTypes'
    BY <1>0, <1>1, <2>1 DEF SyncTypes
  <2>4. SyncPhases'
    BY <1>0, <1>1, <2>1, <2>2, NoFrameTells DEF SyncPhases, OneSnapshot
  <2>5. OutInOrder' /\ RxInOrder'
    BY <2>1, <2>2, NoFrameTells DEF OutInOrder, Ordered, RxInOrder
  <2>. QED
    BY <1>2, <2>3, <2>4, <2>5 DEF SyncInv
<1>4. CASE SY!Snapshot
  <2>. DEFINE shot == SY!Frame("snapshot", version)
  <2>1. /\ phase = "registered" /\ writer # "off" /\ phase' = "open" /\ fwd' /\ out' = Append(out, shot)
        /\ UNCHANGED <<listed, rx, bridge, writer, frame>>
    BY <1>4 DEF SY!Snapshot, SY!Fits, SY!Open
  <2>2. snap = 0 /\ out = <<>> /\ frame = SY!NoFrame /\ got = <<>> /\ listed /\ bridge
    BY <1>0, <2>1 DEF SyncPhases
  <2>3. shot \in Frames /\ shot.kind = "snapshot" /\ shot.n = version
    BY <1>0 DEF SY!Frame, Frames, Kinds, SyncTypes
  <2>. HIDE DEF shot
  <2>4. out' = <<shot>> /\ out' \in Seq(Frames) /\ DOMAIN out' = {1} /\ out'[1] = shot
    BY <2>1, <2>2, <2>3
  <2>5. SyncTypes'
    BY <1>0, <1>1, <2>1, <2>4 DEF SyncTypes
  <2>6. SyncPhases'
    BY <1>0, <1>1, <2>1, <2>2, <2>4, NoFrameTells DEF SyncPhases, OneSnapshot
  <2>7. OutInOrder'
    BY <2>1, <2>2, <2>3, <2>4, NoFrameTells DEF OutInOrder, Ordered
  <2>8. \A m \in 1 .. version : InQueue(out', m)
    BY <2>3, <2>4 DEF InQueue, Tells
  <2>9. RxInOrder'
    <3>1. ASSUME NEW i \in DOMAIN rx, rx[i].kind = "change", NEW m \in 1 .. rx[i].n - 1 PROVE InQueue(out', m)
      <4>1. rx[i].n <= cast /\ cast <= version /\ rx[i].n \in Nat /\ cast \in Nat /\ version \in Nat
        BY <1>0, <3>1, FrameNumbers DEF SyncPhases, SyncTypes
      <4>2. m \in 1 .. version
        BY <4>1
      <4>. QED
        BY <2>8, <4>2
    <3>2. \A m \in 1 .. cast : InQueue(out', m)
      BY <1>0, <2>8 DEF SyncTypes
    <3>. QED
      BY <1>1, <2>1, <2>2, <3>1, <3>2 DEF RxInOrder
  <2>. QED
    BY <1>2, <2>5, <2>6, <2>7, <2>9 DEF SyncInv
<1>5. CASE SY!GiveUp \/ SY!Unbridge
  <2>1. /\ rx' = <<>> /\ UNCHANGED <<listed, fwd, out, writer, frame>> /\ ~fwd
        /\ phase' \notin {"fresh", "registered"}
    BY <1>0, <1>5 DEF SY!GiveUp, SY!Unbridge, SyncPhases
  <2>2. SyncTypes'
    BY <1>0, <1>1, <2>1 DEF SyncTypes
  <2>3. SyncPhases'
    BY <1>0, <1>1, <2>1 DEF SyncPhases
  <2>4. \A m : Known(m)' <=> Known(m)
    BY <1>1, <2>1 DEF Known
  <2>5. OutInOrder' /\ RxInOrder'
    BY <1>0, <2>1, <2>4 DEF OutInOrder, Ordered, RxInOrder
  <2>. QED
    BY <1>2, <2>2, <2>3, <2>5 DEF SyncInv
<1>6. CASE SY!Leave
  <2>1. writer' = "off" /\ out' = <<>> /\ frame' = SY!NoFrame /\ phase' = "ended" /\ rx' = rx
    BY <1>6 DEF SY!Leave, SY!Aborted
  <2>2. got' \in Seq(Nat)
    BY <1>0, <1>1 DEF SyncTypes
  <2>. QED
    BY <1>1, <1>2, <2>1, <2>2, OffKeeps
<1>. QED
  BY <1>3, <1>4, <1>5, <1>6

LEMMA TakeKeeps == SyncInv /\ SY!TakeFrame => SyncInv'
<1>. SUFFICES ASSUME SyncInv, SY!TakeFrame PROVE SyncInv'
  OBVIOUS
<1>0. SyncTypes /\ SyncPhases /\ OutInOrder /\ RxInOrder /\ SY!NoGaps
  BY DEF SyncInv
<1>1. /\ writer = "idle" /\ out # <<>> /\ writer' = "sending" /\ frame' = Head(out) /\ out' = Tail(out)
      /\ out \in Seq(Frames) /\ frame = SY!NoFrame /\ phase \notin {"fresh", "registered"}
      /\ UNCHANGED <<version, cast, listed, phase, rx, bridge, fwd, snap, got>>
  BY <1>0 DEF SY!TakeFrame, SyncTypes, SyncPhases
<1>2. /\ frame' \in Frames /\ out' \in Seq(Frames)
      /\ \A i \in DOMAIN out' : i \in Nat /\ i + 1 \in DOMAIN out /\ out'[i] = out[i + 1]
      /\ 1 \in DOMAIN out /\ out[1] = frame'
  BY <1>1, TailFacts
<1>3. \A m : (Known(m) \/ Tells(frame', m) => Known(m)')
  BY <1>1, NoFrameTells DEF Known
<1>4. SyncTypes'
  BY <1>0, <1>1, <1>2 DEF SyncTypes
<1>5. SyncPhases'
  <2>1. \A i, j \in DOMAIN out' : out'[i].kind = "snapshot" /\ out'[j].kind = "snapshot" => i = j
    BY <1>0, <1>2 DEF SyncPhases, OneSnapshot
  <2>2. ASSUME frame'.kind = "snapshot"
        PROVE  snap = 0 /\ \A i \in DOMAIN out' : out'[i].kind # "snapshot"
    <3>1. ASSUME NEW i \in DOMAIN out', out'[i].kind = "snapshot" PROVE FALSE
      <4>1. i + 1 = 1
        BY <1>0, <1>2, <2>2, <3>1 DEF SyncPhases, OneSnapshot
      <4>2. i \in 1 .. Len(out')
        BY <1>2, <3>1
      <4>. QED
        BY <4>1, <4>2
    <3>. QED
      BY <1>0, <1>2, <2>2, <3>1 DEF SyncPhases
  <2>3. \A i \in DOMAIN out' : out'[i].kind = "snapshot" => snap = 0
    BY <1>0, <1>2 DEF SyncPhases
  <2>. QED
    BY <1>0, <1>1, <2>1, <2>2, <2>3 DEF SyncPhases, OneSnapshot
<1>6. OutInOrder'
  <2>1. ASSUME frame'.kind = "change", NEW m \in 1 .. frame'.n - 1 PROVE Known(m)'
    <3>1. Known(m) \/ Before(out, 1, m)
      BY <1>0, <1>2, <2>1 DEF OutInOrder, Ordered
    <3>2. ~Before(out, 1, m)
      BY <1>1, TailFacts DEF Before
    <3>. QED
      BY <1>3, <3>1, <3>2
  <2>2. ASSUME NEW i \in DOMAIN out', out'[i].kind = "change", NEW m \in 1 .. out'[i].n - 1
        PROVE  Known(m)' \/ Before(out', i, m)
    <3>1. Known(m) \/ Before(out, i + 1, m)
      BY <1>0, <1>2, <2>2 DEF OutInOrder, Ordered
    <3>2. Before(out, i + 1, m) => Tells(frame', m) \/ Before(out', i, m)
      BY <1>1, <2>2, TailTells
    <3>. QED
      BY <1>3, <3>1, <3>2
  <2>. QED
    BY <2>1, <2>2 DEF OutInOrder, Ordered
<1>7. RxInOrder'
  <2>1. \A m : Known(m) \/ InQueue(out, m) => Known(m)' \/ InQueue(out', m)
    BY <1>1, <1>3, TailTells
  <2>. QED
    BY <1>0, <1>1, <2>1 DEF RxInOrder
<1>8. SY!NoGaps'
  BY <1>0, <1>1 DEF SY!NoGaps
<1>. QED
  BY <1>4, <1>5, <1>6, <1>7, <1>8 DEF SyncInv

LEMMA SentKeeps == SyncInv /\ (SY!Sent \/ SY!SendFails) => SyncInv'
<1>. SUFFICES ASSUME SyncInv, SY!Sent \/ SY!SendFails PROVE SyncInv'
  OBVIOUS
<1>0. SyncTypes /\ SyncPhases /\ OutInOrder /\ RxInOrder /\ SY!NoGaps
  BY DEF SyncInv
<1>1. /\ writer = "sending" /\ UNCHANGED <<version, cast, listed, phase, rx, bridge, fwd>> /\ frame' = SY!NoFrame
      /\ frame \in Frames /\ frame.n \in Nat /\ got \in Seq(Nat) /\ snap \in Nat
  BY <1>0 DEF SY!Sent, SY!SendFails, SyncTypes, Frames
<1>2. CASE SY!SendFails
  <2>1. writer' = "off" /\ out' = <<>> /\ UNCHANGED <<snap, got>>
    BY <1>2 DEF SY!SendFails
  <2>2. SY!NoGaps' /\ got' \in Seq(Nat)
    BY <1>0, <1>1, <2>1 DEF SY!NoGaps
  <2>3. phase' \notin {"fresh", "registered"} /\ snap' = snap
    BY <1>0, <1>1, <2>1 DEF SyncPhases
  <2>. QED
    BY <1>1, <2>1, <2>2, <2>3, OffKeeps
<1>3. CASE SY!Sent
  <2>1. /\ writer' = IF frame.kind = "close" THEN "off" ELSE "idle"
        /\ out' = IF frame.kind = "close" THEN <<>> ELSE out
        /\ snap' = IF frame.kind = "snapshot" THEN frame.n ELSE snap
        /\ got' = IF frame.kind = "change" THEN Append(got, frame.n) ELSE got
    BY <1>3 DEF SY!Sent
  <2>2. frame.kind = "snapshot" => snap = 0
    BY <1>0 DEF SyncPhases
  <2>3. snap' \in Nat /\ snap <= snap' /\ (frame.kind = "snapshot" => snap' = frame.n)
    BY <1>1, <2>1, <2>2
  <2>4. /\ got' \in Seq(Nat)
        /\ \A j \in DOMAIN got : j \in DOMAIN got' /\ got'[j] = got[j]
        /\ \A j \in DOMAIN got' : j \in DOMAIN got \/ (frame.kind = "change" /\ j = Len(got) + 1 /\ got'[j] = frame.n)
        /\ frame.kind = "change" => Len(got) + 1 \in DOMAIN got' /\ got'[Len(got) + 1] = frame.n
    <3>1. CASE frame.kind = "change"
      BY <1>1, <2>1, <3>1
    <3>2. CASE frame.kind # "change"
      BY <1>1, <2>1, <3>2
    <3>. QED
      BY <3>1, <3>2
  <2>5. ASSUME NEW m \in Nat, Known(m) PROVE Known(m)'
    <3>1. CASE m <= snap
      BY <1>1, <2>3, <3>1 DEF Known
    <3>2. CASE frame.kind = "change" /\ frame.n = m
      BY <2>4, <3>2 DEF Known
    <3>3. CASE frame.kind = "snapshot" /\ m <= frame.n
      BY <2>3, <3>3 DEF Known
    <3>4. CASE \E j \in DOMAIN got : got[j] = m
      BY <2>4, <3>4 DEF Known
    <3>. QED
      BY <2>5, <3>1, <3>2, <3>3, <3>4 DEF Known, Tells
  <2>6. SY!NoGaps'
    <3>. SUFFICES ASSUME NEW i \in DOMAIN got', NEW m \in 1 .. got'[i] - 1
                  PROVE  m <= snap' \/ \E j \in 1 .. i - 1 : got'[j] = m
      BY DEF SY!NoGaps
    <3>0. m \in Nat /\ m \in Int
      OBVIOUS
    <3>1. CASE i \in DOMAIN got
      <4>1. m \in 1 .. got[i] - 1 /\ i \in 1 .. Len(got)
        BY <1>1, <2>4, <3>1
      <4>2. m <= snap \/ \E j \in 1 .. i - 1 : got[j] = m
        BY <1>0, <3>1, <4>1 DEF SY!NoGaps
      <4>3. \A j \in 1 .. i - 1 : got'[j] = got[j]
        <5>1. DOMAIN got = 1 .. Len(got) /\ Len(got) \in Nat
          BY <1>1
        <5>2. 1 .. i - 1 \subseteq DOMAIN got
          BY <4>1, <5>1
        <5>. QED
          BY <2>4, <5>2
      <4>. QED
        BY <1>1, <2>3, <3>0, <4>2, <4>3
    <3>2. CASE i \notin DOMAIN got
      <4>1. frame.kind = "change" /\ i = Len(got) + 1 /\ got'[i] = frame.n
        BY <2>4, <3>2
      <4>2. Known(m) /\ ~Tells(frame, m)
        <5>1. m \in 1 .. frame.n - 1
          BY <4>1
        <5>. QED
          BY <1>0, <1>1, <4>1, <5>1 DEF OutInOrder, Tells
      <4>3. m <= snap \/ \E j \in DOMAIN got : got[j] = m
        BY <4>2 DEF Known
      <4>4. \A j \in DOMAIN got : j \in 1 .. i - 1 /\ got'[j] = got[j]
        BY <1>1, <2>4, <4>1
      <4>. QED
        BY <1>1, <2>3, <3>0, <4>3, <4>4
    <3>. QED
      BY <3>1, <3>2
  <2>7. CASE frame.kind = "close"
    <3>1. writer' = "off" /\ out' = <<>> /\ snap' = snap /\ phase' \notin {"fresh", "registered"}
      BY <1>0, <1>1, <2>1, <2>7 DEF SyncPhases
    <3>. QED
      BY <1>1, <2>4, <2>6, <3>1, OffKeeps
  <2>8. CASE frame.kind # "close"
    <3>1. writer' = "idle" /\ out' = out /\ phase \notin {"fresh", "registered"}
      BY <1>0, <1>1, <2>1, <2>8 DEF SyncPhases
    <3>2. SyncTypes'
      BY <1>0, <1>1, <2>3, <2>4, <3>1, NoFrameTells DEF SyncTypes
    <3>3. SyncPhases'
      <4>1. \A i \in DOMAIN out : out[i].kind = "snapshot" => snap' = 0
        BY <1>0, <2>1 DEF SyncPhases
      <4>. QED
        BY <1>0, <1>1, <3>1, <4>1, NoFrameTells DEF SyncPhases
    <3>4. OutInOrder'
      <4>1. ASSUME NEW i \in DOMAIN out, out[i].kind = "change", NEW m \in 1 .. out[i].n - 1
            PROVE  Known(m)' \/ Before(out, i, m)
        <5>1. m \in Nat
          OBVIOUS
        <5>. QED
          BY <1>0, <2>5, <4>1, <5>1 DEF OutInOrder, Ordered
      <4>. QED
        BY <1>1, <3>1, <4>1, NoFrameTells DEF OutInOrder, Ordered
    <3>5. RxInOrder'
      <4>1. ASSUME fwd, NEW i \in DOMAIN rx, rx[i].kind = "change", NEW m \in 1 .. rx[i].n - 1
            PROVE  Known(m)' \/ InQueue(out, m) \/ Before(rx, i, m)
        <5>1. m \in Nat
          OBVIOUS
        <5>. QED
          BY <1>0, <1>1, <2>5, <4>1, <5>1 DEF RxInOrder
      <4>2. ASSUME fwd, NEW m \in 1 .. cast PROVE Known(m)' \/ InQueue(out, m) \/ InQueue(rx, m)
        <5>1. m \in Nat
          OBVIOUS
        <5>. QED
          BY <1>0, <1>1, <2>5, <4>2, <5>1 DEF RxInOrder
      <4>3. fwd => listed /\ bridge
        BY <1>0, <1>1 DEF RxInOrder
      <4>. QED
        BY <1>1, <3>1, <4>1, <4>2, <4>3 DEF RxInOrder
    <3>. QED
      BY <2>6, <3>2, <3>3, <3>4, <3>5 DEF SyncInv
  <2>. QED
    BY <2>7, <2>8
<1>. QED
  BY <1>2, <1>3

\* Whatever interleaves with a connection's registration and its two queues: a client that
\* receives a change has every earlier one, by its snapshot or as a message of its own.
THEOREM ChangesWithoutGaps == SY!Spec => []SY!NoGaps
<1>1. SyncInv /\ [SY!Next]_SY!vars => SyncInv'
  <2>. SUFFICES ASSUME SyncInv, [SY!Next]_SY!vars PROVE SyncInv'
    OBVIOUS
  <2>0. SyncTypes /\ SyncPhases
    BY DEF SyncInv
  <2>1. ASSUME SY!Modify \/ SY!ReceivePong \/ SY!Stall \/ UNCHANGED SY!vars PROVE SyncInv'
    <3>1. /\ UNCHANGED <<cast, rx, bridge, fwd, listed, out, writer, frame, snap, got, phase>>
          /\ version' \in {version, version + 1}
      BY <2>1 DEF SY!Modify, SY!ReceivePong, SY!Stall, SY!vars
    <3>2. version' \in Nat /\ cast' <= version'
      BY <2>0, <3>1 DEF SyncTypes
    <3>. QED
      BY <3>1, <3>2, QuietKeeps
  <2>2. ASSUME SY!BroadcastChange PROVE SyncInv'
    <3>1. /\ cast < version /\ cast' = cast + 1 /\ SY!Deliver(SY!Change(cast + 1))
          /\ UNCHANGED <<version, phase, bridge, fwd, out, writer, frame, snap, got>>
      BY <2>2 DEF SY!BroadcastChange
    <3>2. /\ SY!Change(cast + 1) \in Frames /\ SY!Change(cast + 1).kind = "change"
          /\ SY!Change(cast + 1).n = cast + 1 /\ cast' <= version
      BY <2>0, <3>1 DEF SY!Change, SY!Frame, Frames, Kinds, SyncTypes
    <3>. QED
      BY <3>1, <3>2, DeliverKeeps
  <2>3. ASSUME SY!BroadcastSample PROVE SyncInv'
    <3>1. /\ listed /\ cast' = cast /\ SY!Deliver(SY!Sample)
          /\ UNCHANGED <<version, phase, bridge, fwd, out, writer, frame, snap, got>>
      BY <2>3 DEF SY!BroadcastSample
    <3>2. SY!Sample \in Frames /\ SY!Sample.kind = "sample" /\ cast' <= version
      BY <2>0, <3>1 DEF SY!Sample, SY!Frame, Frames, Kinds, SyncTypes
    <3>. QED
      BY <3>1, <3>2, DeliverKeeps
  <2>. QED
    BY <2>1, <2>2, <2>3, ForwardKeeps, PingKeeps, ConnectionKeeps, TakeKeeps, SentKeeps DEF SY!Next, SY!Step
<1>2. SyncInv => SY!NoGaps
  BY DEF SyncInv
<1>. QED
  BY SyncInit, <1>1, <1>2, PTL DEF SY!Spec

-----------------------------------------------------------------------------
(* The page of the desktop.                                                *)

CONSTANTS MaxSpawns, MaxInputs
VARIABLES spawns, last, tauri, forward, told, hook, close, heard, typed, tx, inbox, batch,
          written

DA == INSTANCE DesktopAttach

\* The forwarder of the last call that came through has its client, and the session its id,
\* except while a later call supersedes it; a call in progress has no forwarder yet.
AttachInv ==
    /\ pc \in {"idle", "found", "current", "hooked", "alone", "added", "told"}
    /\ spawns \in 0 .. MaxSpawns /\ last \in 0 .. spawns
    /\ forward \in [DA!Ids -> {"none", "on", "removing", "ended"}]
    /\ pc \in {"found", "current", "hooked", "alone", "added"} => last < spawns
    /\ \A i \in DA!Ids : last < i => forward[i] = "none"
    /\ pc = "added" => spawns \in clients
    /\ pc \notin {"alone", "added"} /\ last # 0 /\ forward[last] = "on" => tauri = last /\ last \in clients

LEMMA AttachStep ==
    ASSUME MaxSpawns \in Nat, AttachInv, [DA!Next]_(DA!vars)
    PROVE  AttachInv'
<1>0. DA!Ids' = DA!Ids /\ spawns \in Nat /\ last \in Nat
  BY DEF DA!Ids, AttachInv
<1>1. CASE DA!Find \/ DA!Revalidate \/ DA!Hook \/ DA!Supersede
  BY <1>0, <1>1 DEF DA!Find, DA!Revalidate, DA!Hook, DA!Supersede, AttachInv
<1>2. CASE DA!AddClient
  <2>1. spawns \in DA!Ids
    BY <1>0, <1>2 DEF DA!AddClient, AttachInv, DA!Ids
  <2>. QED
    BY <1>0, <1>2, <2>1 DEF DA!AddClient, AttachInv
<1>3. CASE DA!StartThread
  <2>1. /\ pc = "added" /\ pc' = "told" /\ last' = spawns /\ spawns' = spawns
        /\ \/ forward' = [forward EXCEPT ![spawns] = "on"] /\ tauri' = spawns /\ clients' = clients
           \/ forward' = [forward EXCEPT ![spawns] = "ended"]
    BY <1>3 DEF DA!StartThread
  <2>2. spawns \in DA!Ids /\ last < spawns /\ spawns \in clients
    BY <1>0, <2>1 DEF AttachInv, DA!Ids
  <2>3. \A i \in DA!Ids : spawns < i => last < i /\ i # spawns
    BY <1>0, <2>2 DEF DA!Ids
  <2>4. \A i \in DA!Ids : last' < i => forward'[i] = "none"
    BY <1>0, <2>1, <2>2, <2>3 DEF AttachInv
  <2>5. forward' \in [DA!Ids -> {"none", "on", "removing", "ended"}]
    BY <2>1 DEF AttachInv
  <2>6. forward'[last'] = "on" => tauri' = last' /\ last' \in clients'
    BY <2>1, <2>2 DEF AttachInv
  <2>7. spawns' \in 0 .. MaxSpawns /\ last' \in 0 .. spawns'
    BY <1>0, <2>1 DEF AttachInv
  <2>. QED
    BY <1>0, <2>1, <2>4, <2>5, <2>6, <2>7 DEF AttachInv
<1>4. ASSUME pc' = pc \/ (pc = "told" /\ pc' = "idle"), UNCHANGED <<spawns, last, tauri, clients, forward>>
      PROVE  AttachInv'
  BY <1>0, <1>4 DEF AttachInv
<1>5. CASE DA!StartWriter \/ DA!Write \/ DA!Claim \/ DA!Note \/ DA!CallBack
  BY <1>4, <1>5 DEF DA!StartWriter, DA!Write, DA!Claim, DA!Note, DA!CallBack, DA!attachVars
<1>6. ASSUME NEW i \in DA!Ids, DA!Take(i) \/ DA!WriteOut(i) \/ DA!NoMore(i)
      PROVE  AttachInv'
  BY <1>4, <1>6 DEF DA!Take, DA!WriteOut, DA!NoMore, DA!Leave, DA!attachVars
<1>7. ASSUME NEW i \in DA!Ids, DA!Stop(i) \/ DA!Forget(i)
      PROVE  AttachInv'
  <2>1. /\ forward[i] \in {"on", "removing"} /\ UNCHANGED <<pc, spawns, last>>
        /\ \/ forward' = [forward EXCEPT ![i] = "removing"] \/ forward' = [forward EXCEPT ![i] = "ended"]
        /\ clients \ {i} \subseteq clients' /\ (tauri # i => tauri' = tauri)
    BY <1>7 DEF DA!Stop, DA!Forget
  <2>2. forward' \in [DA!Ids -> {"none", "on", "removing", "ended"}] /\ forward'[i] # "on"
    BY <2>1 DEF AttachInv
  <2>3. \A j \in DA!Ids : j # i => forward'[j] = forward[j]
    BY <2>1 DEF AttachInv
  <2>4. ~(last < i)
    BY <2>1 DEF AttachInv
  <2>5. \A j \in DA!Ids : last < j => forward'[j] = "none"
    BY <2>3, <2>4 DEF AttachInv
  <2>6. pc = "added" => spawns # i
    BY <1>0, <2>4 DEF AttachInv
  <2>7. last # 0 => last \in DA!Ids
    BY <1>0 DEF AttachInv, DA!Ids
  <2>8. pc' \notin {"alone", "added"} /\ last' # 0 /\ forward'[last'] = "on" => tauri' = last' /\ last' \in clients'
    BY <2>1, <2>2, <2>3, <2>7 DEF AttachInv
  <2>. QED
    BY <1>0, <2>1, <2>2, <2>5, <2>6, <2>8 DEF AttachInv
<1>8. CASE UNCHANGED DA!vars
  BY <1>4, <1>8 DEF DA!vars, DA!attachVars
<1>. QED
  BY <1>1, <1>2, <1>3, <1>5, <1>6, <1>7, <1>8 DEF DA!Next

\* Between two calls of pty_spawn, the page resizes and asks for snapshots under the id of its
\* own forwarder, although those of earlier calls end at any time (src-tauri/src/main.rs).
THEOREM ThePageHasItsClient ==
    ASSUME MaxSpawns \in Nat
    PROVE  DA!Spec => []DA!PageHasItsClient
<1>1. DA!Init => AttachInv
  BY DEF DA!Init, AttachInv
<1>2. AttachInv => DA!PageHasItsClient
  BY DEF AttachInv, DA!PageHasItsClient
<1>. QED
  BY <1>1, <1>2, AttachStep, PTL DEF DA!Spec

-----------------------------------------------------------------------------
(* Questions on the way to an SSH terminal.                                *)

CONSTANTS Attempts, Conns, MaxRounds
VARIABLES round, given, pending, prompts, answers, conn, poller, asked, tab, seen

SC == INSTANCE SshConnect

SshTypes ==
    /\ at \in [Attempts -> SC!Steps] /\ round \in [Attempts -> Nat] /\ given \in [Attempts -> Nat]
    /\ prompts \in [Attempts -> Seq(Nat)] /\ answers \in [Attempts -> Seq(Nat)]
    /\ asked \in [Conns -> SUBSET (Attempts \X Nat)]
    /\ DOMAIN session = Attempts /\ tab \subseteq Attempts

\* No prompt and no answer is on its way, and no user sees a prompt of the attempt.
Silent(a) == prompts[a] = <<>> /\ answers[a] = <<>> /\ \A c \in Conns : \A k \in Nat : <<a, k>> \notin asked[c]

\* The prompt sent last is on its way, before one user, or answered, or lost; nothing else is.
Waiting(a) ==
    /\ prompts[a] \in {<<>>, <<round[a]>>} /\ answers[a] \in {<<>>, <<round[a]>>}
    /\ \A c \in Conns : \A k \in Nat : <<a, k>> \in asked[c] => k = round[a]
    /\ prompts[a] # <<>> => answers[a] = <<>> /\ \A c \in Conns : <<a, round[a]>> \notin asked[c]
    /\ answers[a] # <<>> => \A c \in Conns : <<a, round[a]>> \notin asked[c]
    /\ \A c, d \in Conns : <<a, round[a]>> \in asked[c] /\ <<a, round[a]>> \in asked[d] => c = d

\* A server is answered before it asks again.
AskedInv ==
    \A a \in Attempts :
      /\ at[a] \in {"new", "dial", "auth", "fallback", "asking"} => Silent(a) /\ given[a] = round[a]
      /\ at[a] = "waiting" => Waiting(a)

SshInv == SshTypes /\ AskedInv /\ SC!ListedMeansLive

LEMMA SshInit ==
    ASSUME SC!Init
    PROVE  SshInv
<1>1. SshTypes
  BY DEF SC!Init, SshTypes, SC!Steps
<1>2. AskedInv
  BY DEF SC!Init, AskedInv, Silent
<1>3. SC!ListedMeansLive
  BY DEF SC!Init, SC!ListedMeansLive
<1>. QED
  BY <1>1, <1>2, <1>3 DEF SshInv

\* The one element of a sequence.
LEMMA OneElement ==
    ASSUME NEW k \in Nat
    PROVE  /\ <<k>> \in Seq(Nat) /\ <<k>> # <<>> /\ Head(<<k>>) = k /\ Tail(<<k>>) = <<>>
           /\ Append(<<>>, k) = <<k>> /\ <<>> \in Seq(Nat)
OBVIOUS

\* What concerns an attempt is untouched by the steps of others.
LEMMA OtherAttempts ==
    ASSUME SshTypes', NEW a \in Attempts,
           \A b \in Attempts \ {a} :
             /\ at'[b] = at[b] /\ round'[b] = round[b] /\ given'[b] = given[b]
             /\ prompts'[b] = prompts[b] /\ answers'[b] = answers[b]
             /\ \A c \in Conns : \A k \in Nat : <<b, k>> \in asked'[c] => <<b, k>> \in asked[c],
           AskedInv, SC!ListedMeansLive',
           at'[a] \in {"new", "dial", "auth", "fallback", "asking"} => Silent(a)' /\ given'[a] = round'[a],
           at'[a] = "waiting" => Waiting(a)'
    PROVE  SshInv'
<1>1. ASSUME NEW b \in Attempts \ {a}
      PROVE  /\ at'[b] \in {"new", "dial", "auth", "fallback", "asking"} => Silent(b)' /\ given'[b] = round'[b]
             /\ at'[b] = "waiting" => Waiting(b)'
  <2>1. Silent(b) => Silent(b)'
    BY <1>1 DEF Silent
  <2>2. round[b] \in Nat => (Waiting(b) => Waiting(b)')
    BY <1>1 DEF Waiting
  <2>3. round[b] \in Nat
    BY <1>1 DEF SshTypes
  <2>. QED
    BY <1>1, <2>1, <2>2, <2>3 DEF AskedInv
<1>2. AskedInv'
  BY <1>1 DEF AskedInv
<1>. QED
  BY <1>2 DEF SshInv

\* A step of the attempt that asks and answers nothing.
LEMMA SshGoes ==
    ASSUME SshInv, NEW a \in Attempts, NEW s \in SC!Steps, SC!Goes(a, s),
           UNCHANGED <<round, given, prompts, answers, asked>>, DOMAIN session' = Attempts, tab' \subseteq Attempts, SC!ListedMeansLive',
           s \notin {"new", "waiting"},
           s \in {"dial", "auth", "fallback", "asking"} => at[a] \in {"new", "dial", "auth", "fallback"}
    PROVE  SshInv'
<1>1. SshTypes /\ AskedInv /\ (Silent(a)' <=> Silent(a))
  BY DEF SshInv, Silent
<1>2. /\ SshTypes' /\ \A b \in Attempts \ {a} : at'[b] = at[b]
      /\ at'[a] = s
  BY <1>1 DEF SC!Goes, SshTypes
<1>3. s \in {"new", "dial", "auth", "fallback", "asking"} => Silent(a)' /\ given'[a] = round'[a]
  BY <1>1 DEF AskedInv
<1>. QED
  BY <1>1, <1>2, <1>3, OtherAttempts

LEMMA SshStep ==
    ASSUME SshInv, [SC!Next]_(SC!vars)
    PROVE  SshInv'
<1>0. SshTypes /\ AskedInv /\ SC!ListedMeansLive
  BY DEF SshInv
<1>1. ASSUME NEW a \in Attempts, SC!Reserve(a) \/ SC!Dial(a) \/ SC!Authenticate(a) \/ SC!Register(a)
      PROVE  SshInv'
  <2>1. at[a] \in {"new", "dial", "auth", "fallback"} /\ UNCHANGED <<round, given, prompts, answers, asked, session, tab>>
    BY <1>1 DEF SC!Reserve, SC!Dial, SC!Authenticate, SC!Register, SC!entry, SC!desk, SC!pane
  <2>2. \E s \in {"dial", "auth", "channel", "fallback", "asking"} : SC!Goes(a, s)
    BY <1>1 DEF SC!Reserve, SC!Dial, SC!Authenticate, SC!Register
  <2>3. DOMAIN session' = Attempts /\ tab' \subseteq Attempts /\ SC!ListedMeansLive'
    BY <1>0, <2>1 DEF SshTypes, SC!ListedMeansLive
  <2>. QED
    BY <2>1, <2>2, <2>3, SshGoes DEF SC!Steps
<1>2. ASSUME NEW a \in Attempts,
             SC!Decide(a) \/ SC!Open(a) \/ SC!Fail(a) \/ SC!Publish(a) \/ SC!InsertTab(a) \/ SC!Announce(a) \/ SC!Recheck(a)
      PROVE  SshInv'
  <2>1. UNCHANGED <<round, given, prompts, answers, asked>>
    BY <1>2 DEF SC!Decide, SC!Open, SC!Fail, SC!Publish, SC!InsertTab, SC!Announce, SC!Recheck, SC!entry, SC!desk
  <2>2. \E s \in {"channel", "failed", "built", "published", "listed", "told", "done"} : SC!Goes(a, s)
    BY <1>2 DEF SC!Decide, SC!Open, SC!Fail, SC!Publish, SC!InsertTab, SC!Announce, SC!Recheck
  <2>3. DOMAIN session' = Attempts /\ tab' \subseteq Attempts /\ SC!ListedMeansLive'
    <3>1. \/ session' = [session EXCEPT ![a] = "live"] /\ tab' = tab
          \/ session[a] = "live" /\ session' = session /\ tab' = tab \cup {a}
          \/ session' = session /\ tab' \subseteq tab
      BY <1>2 DEF SC!Decide, SC!Open, SC!Fail, SC!Publish, SC!InsertTab, SC!Announce, SC!Recheck, SC!pane
    <3>. QED
      BY <1>0, <3>1 DEF SshTypes, SC!ListedMeansLive
  <2>. QED
    BY <2>1, <2>2, <2>3, SshGoes DEF SC!Steps
<1>3. ASSUME NEW a \in Attempts, SC!Ask(a)
      PROVE  SshInv'
  <2>1. /\ at[a] = "asking" /\ at' = [at EXCEPT ![a] = "waiting"] /\ round' = [round EXCEPT ![a] = round[a] + 1]
        /\ prompts' = [prompts EXCEPT ![a] = Append(prompts[a], round'[a])]
        /\ UNCHANGED <<given, answers, asked, session, tab>>
    BY <1>3 DEF SC!Ask, SC!Goes, SC!desk, SC!pane
  <2>2. Silent(a) /\ round[a] \in Nat
    BY <1>0, <2>1 DEF AskedInv, SshTypes
  <2>3. round'[a] = round[a] + 1 /\ round'[a] \in Nat /\ at'[a] = "waiting"
    BY <1>0, <2>1, <2>2 DEF SshTypes
  <2>4. prompts'[a] = <<round'[a]>> /\ answers'[a] = <<>>
    BY <1>0, <2>1, <2>2, <2>3, OneElement DEF Silent, SshTypes
  <2>5. SshTypes'
    <3>1. prompts' \in [Attempts -> Seq(Nat)]
      BY <1>0, <2>1, <2>3, <2>4, OneElement DEF SshTypes
    <3>2. at' \in [Attempts -> SC!Steps] /\ round' \in [Attempts -> Nat]
      BY <1>0, <2>1, <2>2 DEF SshTypes, SC!Steps
    <3>. QED
      BY <1>0, <2>1, <3>1, <3>2 DEF SshTypes
  <2>6. Waiting(a)'
    BY <2>1, <2>2, <2>3, <2>4, OneElement DEF Waiting, Silent
  <2>7. \A b \in Attempts \ {a} : at'[b] = at[b] /\ round'[b] = round[b] /\ prompts'[b] = prompts[b]
    BY <1>0, <2>1 DEF SshTypes
  <2>8. SC!ListedMeansLive'
    BY <1>0, <2>1 DEF SC!ListedMeansLive
  <2>. QED
    BY <1>0, <2>1, <2>3, <2>5, <2>6, <2>7, <2>8, OtherAttempts
<1>4. ASSUME NEW a \in Attempts, SC!Take(a)
      PROVE  SshInv'
  <2>1. /\ at[a] = "waiting" /\ answers[a] # <<>> /\ at' = [at EXCEPT ![a] = "asking"]
        /\ given' = [given EXCEPT ![a] = Head(answers[a])] /\ answers' = [answers EXCEPT ![a] = Tail(answers[a])]
        /\ UNCHANGED <<round, prompts, asked, session, tab>>
    BY <1>4 DEF SC!Take, SC!Goes, SC!desk, SC!pane
  <2>2. Waiting(a) /\ round[a] \in Nat
    BY <1>0, <2>1 DEF AskedInv, SshTypes
  <2>3. answers[a] = <<round[a]>> /\ prompts[a] = <<>>
    BY <2>1, <2>2 DEF Waiting
  <2>4. given'[a] = round[a] /\ answers'[a] = <<>> /\ at'[a] = "asking"
    BY <1>0, <2>1, <2>2, <2>3, OneElement DEF SshTypes
  <2>5. SshTypes'
    <3>1. answers' \in [Attempts -> Seq(Nat)]
      BY <1>0, <2>1, <2>4, OneElement DEF SshTypes
    <3>2. given' \in [Attempts -> Nat] /\ at' \in [Attempts -> SC!Steps]
      BY <1>0, <2>1, <2>2, <2>4 DEF SshTypes, SC!Steps
    <3>. QED
      BY <1>0, <2>1, <3>1, <3>2 DEF SshTypes
  <2>6. Silent(a)' /\ given'[a] = round'[a]
    BY <2>1, <2>2, <2>3, <2>4 DEF Silent, Waiting
  <2>7. \A b \in Attempts \ {a} : at'[b] = at[b] /\ given'[b] = given[b] /\ answers'[b] = answers[b]
    BY <1>0, <2>1 DEF SshTypes
  <2>8. SC!ListedMeansLive'
    BY <1>0, <2>1 DEF SC!ListedMeansLive
  <2>. QED
    BY <1>0, <2>1, <2>4, <2>5, <2>6, <2>7, <2>8, OtherAttempts
<1>5. ASSUME UNCHANGED <<at, round, given, prompts, answers, asked>>, DOMAIN session' = Attempts, tab' \subseteq Attempts, SC!ListedMeansLive'
      PROVE  SshInv'
  <2>1. SshTypes'
    BY <1>0, <1>5 DEF SshTypes
  <2>2. \A a \in Attempts : (Silent(a)' <=> Silent(a)) /\ (Waiting(a)' <=> Waiting(a))
    BY <1>5 DEF Silent, Waiting
  <2>. QED
    BY <1>0, <1>5, <2>1, <2>2 DEF SshInv, AskedInv
<1>6. ASSUME NEW a \in Attempts, SC!Close(a) \/ SC!TellClosed(a)
      PROVE  SshInv'
  <2>1. UNCHANGED <<at, round, given, prompts, answers, asked>> /\ DOMAIN session' = Attempts /\ tab' \subseteq Attempts
    BY <1>0, <1>6 DEF SC!Close, SC!TellClosed, SC!entry, SC!desk, SshTypes
  <2>2. SC!ListedMeansLive'
    <3>1. \E x : session' = [session EXCEPT ![a] = x] /\ tab' \subseteq tab /\ a \notin tab'
      BY <1>0, <1>6 DEF SC!Close, SC!TellClosed, SC!ListedMeansLive
    <3>. QED
      BY <1>0, <3>1 DEF SC!ListedMeansLive, SshTypes
  <2>. QED
    BY <1>5, <2>1, <2>2
<1>7. ASSUME NEW c \in Conns, SC!Connect(c) \/ \E a \in Attempts : SC!Notice(c, a) \/ SC!StopPoller(c, a)
      PROVE  SshInv'
  <2>1. UNCHANGED <<at, round, given, prompts, answers, asked, session, tab>>
    BY <1>7 DEF SC!Connect, SC!Notice, SC!StopPoller, SC!entry, SC!pane
  <2>. QED
    BY <1>0, <1>5, <2>1 DEF SshTypes, SC!ListedMeansLive
<1>8. ASSUME NEW c \in Conns, SC!Disconnect(c)
      PROVE  SshInv'
  <2>1. UNCHANGED <<at, round, given, prompts, answers, session, tab>> /\ asked' = [asked EXCEPT ![c] = {}]
    BY <1>8 DEF SC!Disconnect, SC!entry, SC!pane
  <2>2. SshTypes' /\ \A d \in Conns : asked'[d] \subseteq asked[d]
    BY <1>0, <2>1 DEF SshTypes
  <2>3. \A a \in Attempts : (Silent(a) => Silent(a)') /\ (Waiting(a) => Waiting(a)')
    <3>1. ASSUME NEW a \in Attempts
          PROVE  (Silent(a) => Silent(a)') /\ (Waiting(a) => Waiting(a)')
      <4>1. Silent(a) => Silent(a)'
        BY <2>1, <2>2 DEF Silent
      <4>2. Waiting(a) => Waiting(a)'
        BY <2>1, <2>2 DEF Waiting
      <4>. QED
        BY <4>1, <4>2
    <3>. QED
      BY <3>1
  <2>. QED
    BY <1>0, <2>1, <2>2, <2>3 DEF SshInv, AskedInv, SC!ListedMeansLive
<1>9. ASSUME NEW c \in Conns, NEW a \in Attempts, SC!Forward(c, a)
      PROVE  SshInv'
  <2>1. /\ prompts[a] # <<>> /\ prompts' = [prompts EXCEPT ![a] = Tail(prompts[a])]
        /\ asked' = [asked EXCEPT ![c] = asked[c] \cup {<<a, Head(prompts[a])>>}] \/ asked' = asked
        /\ UNCHANGED <<at, round, given, answers, session, tab>>
    BY <1>9 DEF SC!Forward, SC!pane
  <2>2. prompts[a] \in Seq(Nat) /\ round[a] \in Nat
    BY <1>0 DEF SshTypes
  <2>3. Head(prompts[a]) \in Nat /\ Tail(prompts[a]) \in Seq(Nat)
    BY <2>1, <2>2
  <2>4. /\ SshTypes' /\ prompts'[a] = Tail(prompts[a]) /\ \A b \in Attempts \ {a} : prompts'[b] = prompts[b]
        /\ \A d \in Conns : asked'[d] = asked[d] \/ (d = c /\ asked'[c] = asked[c] \cup {<<a, Head(prompts[a])>>})
    <3>1. asked[c] \cup {<<a, Head(prompts[a])>>} \in SUBSET (Attempts \X Nat)
      BY <1>0, <2>3 DEF SshTypes
    <3>2. asked' \in [Conns -> SUBSET (Attempts \X Nat)]
      BY <1>0, <2>1, <3>1 DEF SshTypes
    <3>3. prompts' \in [Attempts -> Seq(Nat)]
      BY <1>0, <2>1, <2>3 DEF SshTypes
    <3>. QED
      BY <1>0, <2>1, <3>2, <3>3 DEF SshTypes
  <2>5. at[a] \notin {"new", "dial", "auth", "fallback", "asking"}
    BY <1>0, <2>1 DEF AskedInv, Silent
  <2>6. ASSUME at[a] = "waiting" PROVE Waiting(a)'
    <3>1. Waiting(a)
      BY <1>0, <2>6 DEF AskedInv
    <3>2. /\ prompts[a] = <<round[a]>> /\ answers[a] = <<>>
          /\ \A d \in Conns : \A k \in Nat : <<a, k>> \notin asked[d]
      BY <2>1, <3>1 DEF Waiting
    <3>3. Head(prompts[a]) = round[a] /\ prompts'[a] = <<>>
      BY <2>2, <2>4, <3>2, OneElement
    <3>4. \A d \in Conns : \A k \in Nat : <<a, k>> \in asked'[d] => k = round[a] /\ d = c
      BY <2>4, <3>2, <3>3
    <3>. QED
      BY <2>1, <2>2, <3>2, <3>3, <3>4 DEF Waiting
  <2>7. \A b \in Attempts \ {a} : \A d \in Conns : \A k \in Nat : <<b, k>> \in asked'[d] => <<b, k>> \in asked[d]
    BY <2>4
  <2>8. SC!ListedMeansLive'
    BY <1>0, <2>1 DEF SC!ListedMeansLive
  <2>. QED
    BY <1>0, <2>1, <2>4, <2>5, <2>6, <2>7, <2>8, OtherAttempts
<1>10. ASSUME NEW c \in Conns, NEW a \in Attempts, NEW k \in 1 .. MaxRounds, SC!Respond(c, a, k)
      PROVE  SshInv'
  <2>1. /\ <<a, k>> \in asked[c] /\ asked' = [asked EXCEPT ![c] = asked[c] \ {<<a, k>>}]
        /\ answers' = [answers EXCEPT ![a] = Append(answers[a], k)] \/ answers' = answers
        /\ UNCHANGED <<at, round, given, prompts, session, tab>>
    BY <1>10 DEF SC!Respond, SC!pane
  <2>2. k \in Nat /\ answers[a] \in Seq(Nat) /\ round[a] \in Nat
    BY <1>0 DEF SshTypes
  <2>3. Append(answers[a], k) \in Seq(Nat)
    BY <2>2
  <2>4. /\ SshTypes' /\ (answers'[a] = Append(answers[a], k) \/ answers'[a] = answers[a])
        /\ \A b \in Attempts \ {a} : answers'[b] = answers[b]
        /\ \A d \in Conns : asked'[d] = IF d = c THEN asked[c] \ {<<a, k>>} ELSE asked[d]
    BY <1>0, <2>1, <2>3 DEF SshTypes
  <2>5. at[a] \notin {"new", "dial", "auth", "fallback", "asking"}
    BY <1>0, <2>1, <2>2 DEF AskedInv, Silent
  <2>6. ASSUME at[a] = "waiting" PROVE Waiting(a)'
    <3>1. Waiting(a)
      BY <1>0, <2>6 DEF AskedInv
    <3>2. k = round[a]
      BY <2>1, <2>2, <3>1 DEF Waiting
    <3>3. prompts[a] = <<>> /\ answers[a] = <<>> /\ \A d \in Conns : <<a, round[a]>> \in asked[d] => d = c
      BY <2>1, <2>2, <3>1, <3>2 DEF Waiting
    <3>4. answers'[a] \in {<<>>, <<round[a]>>}
      BY <2>2, <2>4, <3>2, <3>3, OneElement
    <3>5. \A d \in Conns : \A i \in Nat : <<a, i>> \notin asked'[d]
      BY <2>1, <2>2, <2>4, <3>1, <3>2, <3>3 DEF Waiting
    <3>. QED
      BY <2>1, <2>2, <3>3, <3>4, <3>5 DEF Waiting
  <2>7. \A b \in Attempts \ {a} : \A d \in Conns : \A i \in Nat : <<b, i>> \in asked'[d] => <<b, i>> \in asked[d]
    BY <2>4
  <2>8. SC!ListedMeansLive'
    BY <1>0, <2>1 DEF SC!ListedMeansLive
  <2>. QED
    BY <1>0, <2>1, <2>4, <2>5, <2>6, <2>7, <2>8, OtherAttempts
<1>11. CASE UNCHANGED SC!vars
  BY <1>0, <1>5, <1>11 DEF SC!vars, SC!entry, SC!desk, SC!pane, SshTypes, SC!ListedMeansLive
<1>. QED
  BY <1>1, <1>2, <1>3, <1>4, <1>6, <1>7, <1>8, <1>9, <1>10, <1>11 DEF SC!Next

\* What an SSH server gets is the answer to the prompt it sent last, whatever connections poll,
\* lose prompts or answer late; and a session that ends while its tab is made leaves no tab
\* (src/ssh/mod.rs, src/tabs/ssh.rs).
THEOREM QuestionsAreAnswered == SC!Spec => [](SC!AnswersFit /\ SC!ListedMeansLive)
<1>1. SshInv => SC!AnswersFit /\ SC!ListedMeansLive
  BY DEF SshInv, AskedInv, SC!AnswersFit
<1>. QED
  BY <1>1, SshInit, SshStep, PTL DEF SC!Spec

-----------------------------------------------------------------------------
(* The event bus.                                                          *)

CONSTANTS Agents, Plugins, MaxEvents
VARIABLES published, position, listening, since, clientGot, wants, subscribed, leaving, changes

EB == INSTANCE EventBus

BusTypes ==
    /\ published \in Seq({"direct", "mirrored"})
    /\ position \in [EB!Receivers -> Nat] /\ since \in [Agents -> Nat]
    /\ sent \in [EB!Receivers -> Seq(Nat)] /\ clientGot \in Seq({"plain", "event"} \X Nat)

\* A receiver is where what it has forwarded ends, and no further than the bus.  What a sync
\* client has was published, and what came over the bridge the bridge has forwarded.
BusInv ==
    /\ BusTypes
    /\ \A r \in EB!Receivers : /\ position[r] = EB!From(r) + Len(sent[r])
                               /\ position[r] <= Len(published)
    /\ \A i \in DOMAIN clientGot :
         /\ clientGot[i][2] <= Len(published)
         /\ clientGot[i][1] = "event" => clientGot[i][2] <= position["bridge"]
    /\ EB!ForwardedOnce

LEMMA BusInit ==
    ASSUME EB!Init
    PROVE  BusInv
<1>1. /\ published = <<>> /\ clientGot = <<>> /\ position = [r \in EB!Receivers |-> 0]
      /\ since = [a \in Agents |-> 0] /\ sent = [r \in EB!Receivers |-> <<>>]
  BY DEF EB!Init
<1>2. BusTypes
  BY <1>1 DEF BusTypes
<1>3. ASSUME NEW r \in EB!Receivers
      PROVE  position[r] = EB!From(r) + Len(sent[r]) /\ sent[r] = [i \in 1 .. Len(sent[r]) |-> EB!From(r) + i]
  <2>1. sent[r] = <<>> /\ EB!From(r) = 0 /\ position[r] = 0
    BY <1>1 DEF EB!From
  <2>. QED
    BY <2>1
<1>4. EB!ForwardedOnce
  BY <1>1, <1>3 DEF EB!ForwardedOnce
<1>. QED
  BY <1>1, <1>2, <1>3, <1>4 DEF BusInv

\* A client gets a message m that it has not got, at the end.
LEMMA ClientGets ==
    ASSUME BusInv, NEW k \in {"plain", "event"}, NEW n \in Nat, clientGot' = Append(clientGot, <<k, n>>),
           \A i \in DOMAIN clientGot : clientGot[i][2] = n => clientGot[i][1] = "plain" /\ k = "event"
    PROVE  /\ clientGot' \in Seq({"plain", "event"} \X Nat)
           /\ \A i \in DOMAIN clientGot' :
                clientGot'[i] = <<k, n>> \/ (i \in DOMAIN clientGot /\ clientGot'[i] = clientGot[i])
           /\ \A i, j \in DOMAIN clientGot' :
                /\ clientGot'[i] = clientGot'[j] => i = j
                /\ i < j /\ clientGot'[i][2] = clientGot'[j][2] => clientGot'[i][1] = "plain"
<1>. DEFINE z == Len(clientGot) + 1
            m == <<k, n>>
<1>1. clientGot \in Seq({"plain", "event"} \X Nat) /\ m \in {"plain", "event"} \X Nat /\ m[1] = k /\ m[2] = n
  BY DEF BusInv, BusTypes
<1>. HIDE DEF m
<1>2. clientGot' \in Seq({"plain", "event"} \X Nat) /\ DOMAIN clientGot = 1 .. Len(clientGot)
      /\ DOMAIN clientGot' = DOMAIN clientGot \cup {z} /\ z \notin DOMAIN clientGot /\ clientGot'[z] = m
      /\ \A i \in DOMAIN clientGot : clientGot'[i] = clientGot[i] /\ i < z /\ i \in Nat
  BY <1>1 DEF m
<1>3. \A i \in DOMAIN clientGot : clientGot[i] # m
  BY <1>1
<1>4. \A i, j \in DOMAIN clientGot :
         /\ clientGot[i] = clientGot[j] => i = j
         /\ i < j /\ clientGot[i][2] = clientGot[j][2] => clientGot[i][1] = "plain"
  BY DEF BusInv, EB!ForwardedOnce
<1>5. ASSUME NEW i \in DOMAIN clientGot', NEW j \in DOMAIN clientGot'
      PROVE  /\ clientGot'[i] = clientGot'[j] => i = j
             /\ i < j /\ clientGot'[i][2] = clientGot'[j][2] => clientGot'[i][1] = "plain"
  <2>1. CASE i \in DOMAIN clientGot /\ j \in DOMAIN clientGot
    BY <1>2, <1>4, <2>1
  <2>2. CASE i \in DOMAIN clientGot /\ j = z
    BY <1>1, <1>2, <1>3, <2>2
  <2>3. CASE i = z /\ j \in DOMAIN clientGot
    <3>1. ~(i < j)
      BY <1>2, <2>3
    <3>. QED
      BY <1>2, <1>3, <2>3, <3>1
  <2>4. CASE i = z /\ j = z
    BY <2>4
  <2>. QED
    BY <1>2, <1>5, <2>1, <2>2, <2>3, <2>4
<1>. QED
  BY <1>2, <1>5 DEF m

LEMMA BusStep ==
    ASSUME BusInv, [EB!Next]_(EB!vars)
    PROVE  BusInv'
<1>0. /\ BusTypes /\ EB!Receivers' = EB!Receivers /\ "bridge" \in EB!Receivers /\ Len(published) \in Nat
      /\ \A r \in EB!Receivers : sent[r] = [i \in 1 .. Len(sent[r]) |-> EB!From(r) + i]
      /\ \A r \in EB!Receivers : EB!From(r) \in Nat /\ Len(sent[r]) \in Nat /\ position[r] \in Nat
  BY DEF BusInv, BusTypes, EB!Receivers, EB!ForwardedOnce, EB!From
<1>1. CASE EB!Publish
  <2>1. PICK k \in {"direct", "mirrored"} :
          /\ published' = Append(published, k)
          /\ clientGot' = IF k = "mirrored" THEN Append(clientGot, <<"plain", Len(published) + 1>>) ELSE clientGot
    BY <1>1 DEF EB!Publish, EB!Count
  <2>2. UNCHANGED <<position, since, sent>> /\ Len(published') = Len(published) + 1
        /\ published' \in Seq({"direct", "mirrored"})
    BY <1>0, <1>1, <2>1 DEF EB!Publish, BusTypes
  <2>3. \A i \in DOMAIN clientGot : clientGot[i][2] \in Nat /\ clientGot[i][2] <= Len(published)
    BY <1>0 DEF BusInv, BusTypes
  <2>4. /\ clientGot' \in Seq({"plain", "event"} \X Nat)
        /\ \A i \in DOMAIN clientGot' : clientGot'[i] = <<"plain", Len(published) + 1>>
                                         \/ (i \in DOMAIN clientGot /\ clientGot'[i] = clientGot[i])
        /\ \A i, j \in DOMAIN clientGot' :
             /\ clientGot'[i] = clientGot'[j] => i = j
             /\ i < j /\ clientGot'[i][2] = clientGot'[j][2] => clientGot'[i][1] = "plain"
    <3>1. CASE k = "mirrored"
      <4>1. /\ clientGot' = Append(clientGot, <<"plain", Len(published) + 1>>)
            /\ "plain" \in {"plain", "event"} /\ Len(published) + 1 \in Nat
        BY <1>0, <2>1, <3>1
      <4>2. \A i \in DOMAIN clientGot : clientGot[i][2] = Len(published) + 1 =>
               clientGot[i][1] = "plain" /\ "plain" = "event"
        BY <1>0, <2>3
      <4>. QED
        BY <4>1, <4>2, ClientGets, Zenon
    <3>2. CASE clientGot' = clientGot
      BY <1>0, <3>2 DEF BusTypes, BusInv, EB!ForwardedOnce
    <3>. QED
      BY <2>1, <3>1, <3>2
  <2>5. \A r \in EB!Receivers : EB!From(r)' = EB!From(r)
    BY <2>2 DEF EB!From
  <2>6. BusTypes'
    BY <1>0, <2>2, <2>4 DEF BusTypes
  <2>7. EB!ForwardedOnce'
    BY <1>0, <2>2, <2>4, <2>5 DEF EB!ForwardedOnce
  <2>8. \A r \in EB!Receivers : position'[r] = EB!From(r)' + Len(sent'[r]) /\ position'[r] <= Len(published')
    BY <1>0, <2>2, <2>5 DEF BusInv
  <2>9. ASSUME NEW i \in DOMAIN clientGot'
        PROVE  /\ clientGot'[i][2] <= Len(published')
               /\ clientGot'[i][1] = "event" => clientGot'[i][2] <= position'["bridge"]
    <3>1. CASE clientGot'[i] = <<"plain", Len(published) + 1>>
      BY <1>0, <2>2, <3>1
    <3>2. CASE i \in DOMAIN clientGot /\ clientGot'[i] = clientGot[i]
      BY <1>0, <2>2, <2>3, <3>2 DEF BusInv
    <3>. QED
      BY <2>4, <3>1, <3>2
  <2>. QED
    BY <1>0, <2>6, <2>7, <2>8, <2>9 DEF BusInv
<1>2. ASSUME NEW a \in Agents, EB!Connect(a)
      PROVE  BusInv'
  <2>1. /\ since[a] = 0 /\ sent[a] = <<>> /\ position' = [position EXCEPT ![a] = Len(published)]
        /\ since' = [since EXCEPT ![a] = Len(published)] /\ UNCHANGED <<published, sent, clientGot>>
    BY <1>2 DEF EB!Connect, EB!Count
  <2>2. a \in EB!Receivers
    BY DEF EB!Receivers
  <2>3. BusTypes'
    BY <1>0, <2>1 DEF BusTypes
  <2>4. /\ position'[a] = Len(published) /\ EB!From(a)' = Len(published)
        /\ \A r \in EB!Receivers : r # a => position'[r] = position[r] /\ EB!From(r)' = EB!From(r)
    BY <1>0, <2>1, <2>2 DEF BusTypes, EB!From
  <2>5. \A r \in EB!Receivers : position'[r] = EB!From(r)' + Len(sent'[r]) /\ position'[r] <= Len(published')
    BY <1>0, <2>1, <2>4 DEF BusInv
  <2>6. \A r \in EB!Receivers : sent'[r] = [i \in 1 .. Len(sent'[r]) |-> EB!From(r)' + i]
    <3>1. ASSUME NEW r \in EB!Receivers PROVE sent'[r] = [i \in 1 .. Len(sent'[r]) |-> EB!From(r)' + i]
      <4>1. CASE r = a
        BY <2>1, <4>1
      <4>2. CASE r # a
        BY <1>0, <2>1, <2>4, <4>2
      <4>. QED
        BY <4>1, <4>2
    <3>. QED
      BY <3>1
  <2>7. EB!ForwardedOnce'
    BY <1>0, <2>1, <2>6 DEF EB!ForwardedOnce, BusInv
  <2>8. position["bridge"] <= position'["bridge"] /\ position'["bridge"] \in Nat
    BY <1>0, <2>1, <2>4 DEF BusInv
  <2>9. ASSUME NEW i \in DOMAIN clientGot'
        PROVE  /\ clientGot'[i][2] <= Len(published')
               /\ clientGot'[i][1] = "event" => clientGot'[i][2] <= position'["bridge"]
    <3>1. i \in DOMAIN clientGot /\ clientGot'[i] = clientGot[i] /\ clientGot[i][2] \in Nat
      BY <1>0, <2>1 DEF BusTypes
    <3>. QED
      BY <1>0, <2>1, <2>8, <3>1 DEF BusInv
  <2>. QED
    BY <1>0, <2>3, <2>5, <2>7, <2>9 DEF BusInv
<1>3. ASSUME NEW r \in EB!Receivers, EB!Receive(r)
      PROVE  BusInv'
  <2>. DEFINE n == position[r] + 1
  <2>1. /\ position[r] < Len(published) /\ position' = [position EXCEPT ![r] = n]
        /\ sent' = [sent EXCEPT ![r] = Append(sent[r], n)]
        /\ clientGot' = IF r = "bridge" THEN Append(clientGot, <<"event", n>>) ELSE clientGot
        /\ UNCHANGED <<published, since>>
    BY <1>3 DEF EB!Receive, EB!Forward, EB!Count
  <2>2. n \in Nat /\ n <= Len(published) /\ n = EB!From(r) + Len(sent[r]) + 1 /\ sent[r] \in Seq(Nat)
    BY <1>0, <2>1 DEF BusInv, BusTypes
  <2>0. n > position[r]
    BY <1>0
  <2>. HIDE DEF n
  <2>3. Append(sent[r], n) \in Seq(Nat) /\ Len(Append(sent[r], n)) = Len(sent[r]) + 1
    BY <2>2
  <2>4. /\ sent'[r] = Append(sent[r], n) /\ position'[r] = n
        /\ \A q \in EB!Receivers : q # r => sent'[q] = sent[q] /\ position'[q] = position[q]
    BY <1>0, <2>1 DEF BusTypes
  <2>5. \A q \in EB!Receivers : EB!From(q)' = EB!From(q)
    BY <2>1 DEF EB!From
  <2>6. sent'[r] = [i \in 1 .. Len(sent'[r]) |-> EB!From(r) + i]
    <3>1. \A i \in 1 .. Len(sent[r]) : sent[r][i] = EB!From(r) + i
      BY <1>0
    <3>2. \A i \in 1 .. Len(sent'[r]) : sent'[r][i] = EB!From(r) + i
      BY <1>0, <2>2, <2>3, <2>4, <3>1
    <3>3. sent'[r] = [i \in 1 .. Len(sent'[r]) |-> sent'[r][i]]
      BY <2>3, <2>4
    <3>. QED
      BY <3>2, <3>3
  <2>7. \A q \in EB!Receivers : sent'[q] = [i \in 1 .. Len(sent'[q]) |-> EB!From(q)' + i]
    <3>1. ASSUME NEW q \in EB!Receivers PROVE sent'[q] = [i \in 1 .. Len(sent'[q]) |-> EB!From(q)' + i]
      <4>1. CASE q = r
        BY <2>5, <2>6, <4>1
      <4>2. CASE q # r
        BY <1>0, <2>4, <2>5, <4>2
      <4>. QED
        BY <4>1, <4>2
    <3>. QED
      BY <3>1
  <2>8. \A q \in EB!Receivers : position'[q] = EB!From(q)' + Len(sent'[q]) /\ position'[q] <= Len(published')
    BY <1>0, <2>1, <2>2, <2>3, <2>4, <2>5 DEF BusInv
  <2>9. position["bridge"] <= position'["bridge"] /\ position'["bridge"] \in Nat
    BY <1>0, <2>0, <2>2, <2>4
  <2>10. /\ clientGot' \in Seq({"plain", "event"} \X Nat)
         /\ \A i \in DOMAIN clientGot' : (clientGot'[i] = <<"event", n>> /\ r = "bridge")
                                          \/ (i \in DOMAIN clientGot /\ clientGot'[i] = clientGot[i])
         /\ \A i, j \in DOMAIN clientGot' :
              /\ clientGot'[i] = clientGot'[j] => i = j
              /\ i < j /\ clientGot'[i][2] = clientGot'[j][2] => clientGot'[i][1] = "plain"
    <3>1. CASE r = "bridge"
      <4>1. \A i \in DOMAIN clientGot : clientGot[i][1] \in {"plain", "event"} /\ clientGot[i][2] \in Nat
        BY <1>0 DEF BusTypes
      <4>2. \A i \in DOMAIN clientGot : clientGot[i][2] = n => clientGot[i][1] = "plain"
        BY <1>0, <2>0, <2>2, <3>1, <4>1 DEF BusInv
      <4>. QED
        <5>1. clientGot' = Append(clientGot, <<"event", n>>) /\ "event" \in {"plain", "event"} /\ n \in Nat
          BY <2>1, <2>2, <3>1
        <5>2. \A i \in DOMAIN clientGot : clientGot[i][2] = n => clientGot[i][1] = "plain" /\ "event" = "event"
          BY <4>2
        <5>3. /\ clientGot' \in Seq({"plain", "event"} \X Nat)
              /\ \A i \in DOMAIN clientGot' :
                   clientGot'[i] = <<"event", n>> \/ (i \in DOMAIN clientGot /\ clientGot'[i] = clientGot[i])
              /\ \A i, j \in DOMAIN clientGot' :
                   /\ clientGot'[i] = clientGot'[j] => i = j
                   /\ i < j /\ clientGot'[i][2] = clientGot'[j][2] => clientGot'[i][1] = "plain"
          BY <5>1, <5>2, ClientGets, Zenon
        <5>. QED
          BY <3>1, <5>3
    <3>2. CASE r # "bridge"
      BY <1>0, <2>1, <3>2 DEF BusTypes, BusInv, EB!ForwardedOnce
    <3>. QED
      BY <3>1, <3>2
  <2>11. ASSUME NEW i \in DOMAIN clientGot'
         PROVE  /\ clientGot'[i][2] <= Len(published')
                /\ clientGot'[i][1] = "event" => clientGot'[i][2] <= position'["bridge"]
    <3>1. CASE clientGot'[i] = <<"event", n>> /\ r = "bridge"
      BY <2>1, <2>2, <2>4, <3>1
    <3>2. CASE i \in DOMAIN clientGot /\ clientGot'[i] = clientGot[i]
      <4>1. clientGot[i][2] \in Nat
        BY <1>0, <3>2 DEF BusTypes
      <4>. QED
        BY <1>0, <2>1, <2>9, <3>2, <4>1 DEF BusInv
    <3>. QED
      BY <2>10, <3>1, <3>2
  <2>12. BusTypes'
    <3>1. sent' \in [EB!Receivers -> Seq(Nat)]
      BY <1>0, <2>1, <2>3 DEF BusTypes
    <3>2. position' \in [EB!Receivers -> Nat]
      BY <1>0, <2>1, <2>2 DEF BusTypes
    <3>. QED
      BY <1>0, <2>1, <2>10, <3>1, <3>2 DEF BusTypes
  <2>13. EB!ForwardedOnce'
    BY <1>0, <2>7, <2>10 DEF EB!ForwardedOnce
  <2>. QED
    BY <1>0, <2>8, <2>11, <2>12, <2>13 DEF BusInv
<1>4. ASSUME UNCHANGED <<published, position, since, sent, clientGot>>
      PROVE  BusInv'
  BY <1>4 DEF BusInv, BusTypes, EB!ForwardedOnce, EB!From, EB!Receivers
<1>5. ASSUME NEW a \in Agents, EB!Disconnect(a)
      PROVE  BusInv'
  BY <1>4, <1>5 DEF EB!Disconnect
<1>6. ASSUME NEW r \in EB!Receivers, EB!Lag(r)
      PROVE  BusInv'
  BY <1>4, <1>6 DEF EB!Lag
<1>7. ASSUME NEW p \in Plugins, EB!Subscribe(p) \/ EB!Unsubscribe(p) \/ EB!RemoveEntry(p)
      PROVE  BusInv'
  BY <1>4, <1>7 DEF EB!Subscribe, EB!Unsubscribe, EB!RemoveEntry, EB!busVars
<1>8. CASE UNCHANGED EB!vars
  BY <1>4, <1>8 DEF EB!vars, EB!busVars
<1>. QED
  BY <1>1, <1>2, <1>3, <1>5, <1>6, <1>7, <1>8 DEF EB!Next

\* Whoever listens to the bus forwards every event since it came, once and in order, as far as
\* it got, and a sync client gets a message before the event it becomes, for any capacity of
\* the ring and any listeners that come, go and lag (events/bus.rs, events/bridge.rs).
THEOREM EventsAreForwardedOnce == EB!Spec => []EB!ForwardedOnce
<1>1. BusInv => EB!ForwardedOnce
  BY DEF BusInv
<1>. QED
  BY <1>1, BusInit, BusStep, PTL DEF EB!Spec

-----------------------------------------------------------------------------
(* A plugin.                                                               *)

CONSTANTS Managed, Sockets, Execs, Pids, Ops, OpKinds, Versions
VARIABLES boot, disk, backup, registry, table, proc, ack, op, watcher, dirty, used

PO == INSTANCE PluginOps WITH Kinds <- OpKinds

PluginAssumption ==
    /\ Pids # {} /\ OpKinds \subseteq {"install", "update", "upsert", "link", "delete", "stop"}
    /\ None \notin [p : PO!Procs \ Execs, exited : BOOLEAN] /\ PO!Dangling # None

ProcRec == [pc : {"new", "locked", "watch", "stopping", "report", "gone"}, alive : BOOLEAN, pid : Pids,
            by : Ops \cup {None}, loose : BOOLEAN]
TableRec == [p : PO!Procs \ Execs, exited : BOOLEAN]
OpRec == [pc : {"new", "kill", "wait", "change", "swap", "register", "done"}, kind : OpKinds, v : Versions]

PluginTypes ==
    /\ proc \in [PO!Procs -> ProcRec] /\ table \in [Pids -> TableRec \cup {None}]
    /\ ack \in [Ops -> [PO!Procs -> {"no", "sent", "ok", "dropped"}]] /\ op \in [Ops -> OpRec]

\* A process that is supervised and of which the PID is its own, and one that has had a PID.
Live(p)     == p \notin Execs /\ proc[p].alive /\ ~proc[p].loose /\ proc[p].pc \in {"watch", "stopping"}
Launched(p) == p \notin Execs /\ (proc[p].pc \in {"watch", "stopping", "report"} \/ \E o \in Ops : ack[o][p] # "no")

\* While a process lives under a PID that was new, its entry is in the table, and no other
\* has had the PID.
TableInv ==
    /\ \A p \in PO!Procs : proc[p].alive => proc[p].pc \notin {"new", "locked"}
    /\ \A p \in PO!Procs : Launched(p) => proc[p].pid \in used
    /\ \A p \in PO!Procs : Live(p) => table[proc[p].pid] = [p |-> p, exited |-> FALSE]
    /\ \A p, q \in PO!Procs : Live(p) /\ Launched(q) /\ p # q => proc[q].pid # proc[p].pid
    /\ \A p \in Execs : proc[p].pc \notin {"stopping", "report"}

\* Who changes the plugin is alone, and has asked all that lives before it does so.  A
\* process that has answered lives no more, or was given up on.
AloneInv ==
    /\ PO!Writers # {} => PO!Readers = {}
    /\ \A o, w \in PO!Writers : o = w
    /\ \A o \in Ops : op[o].kind = "stop" => op[o].pc \notin {"change", "swap", "register"}
    /\ \A o \in Ops : \A p \in PO!Procs : /\ ack[o][p] # "no" => p \notin Execs /\ proc[p].pc \notin {"new", "locked"}
                                          /\ ack[o][p] = "ok" => ~Live(p)
    /\ \A o \in PO!Writers : \A p \in PO!Procs : Live(p) =>
         /\ op[o].pc = "wait" => ack[o][p] # "no"
         /\ op[o].pc \notin {"change", "swap", "register"}
    /\ disk = None => \A p \in PO!Procs : ~Live(p)

\* While the seed is put in place nothing else has begun.
BootInv == boot = "seed" => /\ \A p \in PO!Procs : proc[p].pc = "new"
                            /\ \A o \in Ops : op[o].pc = "new"

PluginInv == PluginTypes /\ TableInv /\ AloneInv

LEMMA PluginInit ==
    ASSUME PluginAssumption, PO!Init
    PROVE  PluginInv /\ BootInv
<1>1. /\ \A p \in PO!Procs : proc[p] = [pc |-> "new", alive |-> FALSE, pid |-> CHOOSE n \in Pids : TRUE,
                                        by |-> None, loose |-> FALSE]
      /\ proc = [p \in PO!Procs |-> proc[p]] /\ table = [n \in Pids |-> None]
      /\ ack = [o \in Ops |-> [p \in PO!Procs |-> "no"]] /\ op \in [Ops -> [pc : {"new"}, kind : OpKinds, v : Versions]]
  BY DEF PO!Init
<1>2. (CHOOSE n \in Pids : TRUE) \in Pids
  BY DEF PluginAssumption
<1>3. PluginTypes
  <2>1. ASSUME NEW p \in PO!Procs PROVE proc[p] \in ProcRec
    <3>. DEFINE n == CHOOSE n \in Pids : TRUE
    <3>1. n \in Pids /\ proc[p] = [pc |-> "new", alive |-> FALSE, pid |-> n, by |-> None, loose |-> FALSE]
      BY <1>1, <1>2
    <3>. HIDE DEF n
    <3>. QED
      BY <3>1 DEF ProcRec
  <2>2. op \in [Ops -> OpRec]
    BY <1>1 DEF OpRec
  <2>. QED
    BY <1>1, <2>1, <2>2 DEF PluginTypes
<1>4. \A p \in PO!Procs : ~Live(p) /\ ~Launched(p) /\ proc[p].pc = "new" /\ ~proc[p].alive
  BY <1>1 DEF Live, Launched
<1>5. TableInv
  BY <1>4 DEF TableInv, PO!Procs
<1>6. PO!Writers = {} /\ \A o \in Ops : op[o].pc = "new"
  BY <1>1 DEF PO!Writers, PO!Changing
<1>7. AloneInv
  BY <1>1, <1>4, <1>6 DEF AloneInv
<1>8. BootInv
  BY <1>4, <1>6 DEF BootInv
<1>. QED
  BY <1>3, <1>5, <1>7, <1>8 DEF PluginInv

\* A step of a process that starts none changes no plugin, and no entry of a process that lives.
LEMMA ProcessGoesOn ==
    ASSUME PluginAssumption, PluginInv, PluginTypes', NEW p \in PO!Procs,
           UNCHANGED <<disk, op, used>>, \A q \in PO!Procs \ {p} : proc'[q] = proc[q],
           proc'[p].pid = proc[p].pid, proc'[p].loose = proc[p].loose, proc'[p].alive => proc[p].alive,
           proc'[p].alive => proc'[p].pc \notin {"new", "locked"},
           proc'[p].pc \in {"watch", "stopping"} => proc[p].pc \in {"watch", "stopping"},
           proc'[p].pc = "watch" => proc[p].pc = "watch",
           proc'[p].pc = "report" => proc[p].pc \in {"watch", "stopping", "report"},
           proc'[p].pc \in {"stopping", "report"} => p \notin Execs,
           proc'[p].pc = "locked" => proc[p].pc = "locked" \/ PO!Writers = {},
           proc'[p].pc \in {"new", "locked"} => proc[p].pc \in {"new", "locked"},
           \A q \in PO!Procs : Live(q)' => table'[proc[q].pid] = table[proc[q].pid],
           \A o \in Ops : \A q \in PO!Procs : /\ ack[o][q] # "no" => ack'[o][q] # "no"
                                              /\ ack'[o][q] # "no" => Launched(q)
                                              /\ ack'[o][q] = "ok" => ack[o][q] = "ok" \/ ~Live(q)'
    PROVE  PluginInv'
<1>0. PluginTypes /\ TableInv /\ AloneInv /\ PO!Procs' = PO!Procs
  BY DEF PluginInv, PO!Procs
<1>1. \A q \in PO!Procs : (Live(q)' => Live(q)) /\ (Launched(q)' => Launched(q)) /\ proc'[q].pid = proc[q].pid
  BY DEF Live, Launched
<1>2. PO!Writers' = PO!Writers /\ PO!Writers \subseteq Ops
  BY DEF PO!Writers, PO!Changing
<1>3. TableInv'
  <2>1. \A q \in PO!Procs : proc'[q].alive => proc'[q].pc \notin {"new", "locked"}
    BY <1>0 DEF TableInv
  <2>2. \A q \in Execs : proc'[q].pc \notin {"stopping", "report"}
    BY <1>0 DEF TableInv, PO!Procs
  <2>3. \A q \in PO!Procs : Live(q)' => table'[proc'[q].pid] = [p |-> q, exited |-> FALSE]
    BY <1>0, <1>1 DEF TableInv
  <2>4. \A q \in PO!Procs : Launched(q)' => proc'[q].pid \in used'
    BY <1>0, <1>1 DEF TableInv
  <2>5. \A q, r \in PO!Procs : Live(q)' /\ Launched(r)' /\ q # r => proc'[r].pid # proc'[q].pid
    BY <1>0, <1>1 DEF TableInv
  <2>. QED
    BY <1>0, <2>1, <2>2, <2>3, <2>4, <2>5 DEF TableInv
<1>4. AloneInv'
  <2>1. PO!Writers' # {} => PO!Readers' = {}
    <3>1. ASSUME PO!Writers # {}, NEW q \in PO!Readers' PROVE q \in PO!Readers
      <4>1. q \in PO!Procs /\ (proc'[q].pc = "locked" \/ (q \in Execs /\ proc'[q].pc = "watch"))
        BY <1>0 DEF PO!Readers
      <4>2. q = p => proc[q].pc = "locked" \/ (q \in Execs /\ proc[q].pc = "watch")
        BY <3>1, <4>1
      <4>. QED
        BY <4>1, <4>2 DEF PO!Readers
    <3>. QED
      BY <1>0, <1>2, <3>1 DEF AloneInv
  <2>2. \A o \in Ops : \A q \in PO!Procs :
          ack'[o][q] # "no" => q \notin Execs /\ proc'[q].pc \notin {"new", "locked"}
    BY <1>0 DEF AloneInv, Launched
  <2>3. \A o \in Ops : \A q \in PO!Procs : ack'[o][q] = "ok" => ~Live(q)'
    BY <1>0, <1>1 DEF AloneInv
  <2>4. \A o \in PO!Writers' : \A q \in PO!Procs : Live(q)' =>
          /\ op'[o].pc = "wait" => ack'[o][q] # "no"
          /\ op'[o].pc \notin {"change", "swap", "register"}
    BY <1>0, <1>1, <1>2 DEF AloneInv
  <2>5. disk' = None => \A q \in PO!Procs : ~Live(q)'
    BY <1>0, <1>1 DEF AloneInv
  <2>. QED
    BY <1>0, <1>2, <2>1, <2>2, <2>3, <2>4, <2>5 DEF AloneInv
<1>. QED
  BY <1>3, <1>4 DEF PluginInv

\* Until it is started a process has no PID, and nobody has asked it to stop.
LEMMA PluginStarts ==
    ASSUME PluginAssumption, PluginInv, PluginTypes', NEW p \in PO!Procs, PO!Start(p)
    PROVE  PluginInv'
<1>1. PluginTypes /\ p \in DOMAIN proc /\ proc[p] \in ProcRec
  BY DEF PluginInv, PluginTypes
<1>2. /\ proc[p].pc = "new" /\ PO!Writers = {} /\ proc' = [proc EXCEPT ![p].pc = "locked"]
      /\ UNCHANGED <<disk, op, used, table, ack>>
  BY DEF PO!Start, PO!fileVars
<1>3. proc'[p] = [proc[p] EXCEPT !.pc = "locked"]
  BY <1>1, <1>2 DEF PluginTypes
<1>4. ~proc[p].alive
  BY <1>2 DEF PluginInv, TableInv
<1>5. \A q \in PO!Procs \ {p} : proc'[q] = proc[q]
  BY <1>1, <1>2 DEF PluginTypes
<1>6. /\ proc'[p].pid = proc[p].pid /\ proc'[p].loose = proc[p].loose /\ proc'[p].alive = proc[p].alive
      /\ proc'[p].pc = "locked"
  BY <1>1, <1>3 DEF ProcRec
<1>7. \A o \in Ops : \A q \in PO!Procs : ack[o][q] # "no" => Launched(q)
  BY DEF PluginInv, AloneInv, Launched
<1>. QED
  BY <1>2, <1>4, <1>5, <1>6, <1>7, ProcessGoesOn

\* What the task of a process does after it was launched, until it is done.
LEMMA PluginProcessRuns ==
    ASSUME PluginAssumption, PluginInv, PluginTypes', NEW p \in PO!Procs,
           \/ PO!Exit(p) \/ PO!ReceiveStop(p) \/ PO!Abandon(p)
           \/ PO!Reap(p) \/ PO!GiveUp(p) \/ PO!TimeOut(p) \/ PO!Report(p)
    PROVE  PluginInv'
<1>0. PluginTypes /\ TableInv /\ AloneInv /\ proc[p] \in ProcRec /\ DOMAIN proc = PO!Procs
  BY DEF PluginInv, PluginTypes
<1>1. UNCHANGED <<disk, op, used>>
  BY DEF PO!Exit, PO!ReceiveStop, PO!Abandon, PO!Reap, PO!GiveUp, PO!TimeOut, PO!Report, PO!fileVars
<1>A. \A o \in Ops : \A q \in PO!Procs : ack[o][q] # "no" => Launched(q)
  BY <1>0 DEF AloneInv, Launched
<1>2. ASSUME PO!Exit(p) \/ PO!Abandon(p) PROVE PluginInv'
  <2>1. proc[p].alive /\ proc' = [proc EXCEPT ![p].alive = FALSE] /\ UNCHANGED <<table, ack>>
    BY <1>2 DEF PO!Exit, PO!Abandon, PO!fileVars
  <2>2. proc'[p] = [proc[p] EXCEPT !.alive = FALSE] /\ \A q \in PO!Procs \ {p} : proc'[q] = proc[q]
    BY <1>0, <2>1
  <2>3. /\ proc'[p].pid = proc[p].pid /\ proc'[p].loose = proc[p].loose /\ ~proc'[p].alive
        /\ proc'[p].pc = proc[p].pc
    BY <1>0, <2>2 DEF ProcRec
  <2>4. p \in Execs => proc[p].pc \notin {"stopping", "report"}
    BY <1>0 DEF TableInv
  <2>5. proc[p].pc \notin {"new", "locked"}
    BY <1>0, <2>1 DEF TableInv
  <2>. QED
    BY <1>1, <1>A, <2>1, <2>2, <2>3, <2>4, <2>5, ProcessGoesOn
<1>3. ASSUME PO!ReceiveStop(p) PROVE PluginInv'
  <2>1. PICK o \in Ops : ack[o][p] = "sent" /\ proc' = [proc EXCEPT ![p].pc = "stopping", ![p].by = o]
    BY <1>3 DEF PO!ReceiveStop
  <2>2. proc[p].pc = "watch" /\ UNCHANGED <<table, ack>>
    BY <1>3 DEF PO!ReceiveStop
  <2>3. proc'[p] = [proc[p] EXCEPT !.pc = "stopping", !.by = o] /\ \A q \in PO!Procs \ {p} : proc'[q] = proc[q]
    BY <1>0, <2>1
  <2>4. /\ proc'[p].pid = proc[p].pid /\ proc'[p].loose = proc[p].loose /\ proc'[p].alive = proc[p].alive
        /\ proc'[p].pc = "stopping"
    BY <1>0, <2>3 DEF ProcRec
  <2>5. p \notin Execs
    BY <1>0, <2>1 DEF AloneInv
  <2>. QED
    BY <1>1, <1>A, <2>2, <2>3, <2>4, <2>5, ProcessGoesOn
<1>4. ASSUME PO!Reap(p) \/ PO!GiveUp(p) PROVE PluginInv'
  <2>. DEFINE to == IF p \in Execs THEN "gone" ELSE "report"
  <2>1. /\ proc[p].pc \in {"watch", "stopping"} /\ proc' = [proc EXCEPT ![p].pc = to]
        /\ proc[p].alive => p \notin Execs
        /\ UNCHANGED table
        /\ ack' = [o \in Ops |-> IF ack[o][p] = "sent" /\ proc[p].by # o
                                   THEN [ack[o] EXCEPT ![p] = "dropped"] ELSE ack[o]]
    <3>1. p \in Execs => proc[p].pc # "stopping"
      BY <1>0 DEF TableInv
    <3>. QED
      BY <1>4, <3>1 DEF PO!Reap, PO!GiveUp, PO!Unheard, PO!fileVars
  <2>2. proc'[p] = [proc[p] EXCEPT !.pc = to] /\ \A q \in PO!Procs \ {p} : proc'[q] = proc[q]
    BY <1>0, <2>1
  <2>3. /\ proc'[p].pid = proc[p].pid /\ proc'[p].loose = proc[p].loose /\ proc'[p].alive = proc[p].alive
        /\ proc'[p].pc = to /\ to \in {"gone", "report"} /\ (to = "report" => p \notin Execs)
    BY <1>0, <2>1, <2>2 DEF ProcRec
  <2>4. \A o \in Ops : \A q \in PO!Procs : /\ (ack'[o][q] = "no") <=> (ack[o][q] = "no")
                                           /\ ack'[o][q] = "ok" => ack[o][q] = "ok"
    BY <1>0, <2>1 DEF PluginTypes
  <2>5. \A o \in Ops : \A q \in PO!Procs : ack'[o][q] # "no" => Launched(q)
    BY <1>0, <2>4 DEF AloneInv, Launched
  <2>. HIDE DEF to
  <2>. QED
    BY <1>1, <2>1, <2>2, <2>3, <2>4, <2>5, ProcessGoesOn
<1>6. ASSUME PO!TimeOut(p) PROVE PluginInv'
  <2>1. proc' = [proc EXCEPT ![p].pc = "gone"] /\ UNCHANGED <<table, ack>>
    BY <1>6 DEF PO!TimeOut, PO!fileVars
  <2>2. proc'[p] = [proc[p] EXCEPT !.pc = "gone"] /\ \A q \in PO!Procs \ {p} : proc'[q] = proc[q]
    BY <1>0, <2>1
  <2>3. /\ proc'[p].pid = proc[p].pid /\ proc'[p].loose = proc[p].loose /\ proc'[p].alive = proc[p].alive
        /\ proc'[p].pc = "gone"
    BY <1>0, <2>2 DEF ProcRec
  <2>. QED
    BY <1>1, <1>A, <2>1, <2>2, <2>3, ProcessGoesOn
<1>5. ASSUME PO!Report(p) PROVE PluginInv'
  <2>. DEFINE n == proc[p].pid
  <2>1. /\ proc[p].pc = "report" /\ proc' = [proc EXCEPT ![p].pc = "gone"] /\ \A m \in Pids \ {n} : table'[m] = table[m]
        /\ ack' = [o \in Ops |-> IF proc[p].by = o THEN [ack[o] EXCEPT ![p] = "ok"] ELSE ack[o]]
    BY <1>0, <1>5 DEF PO!Report, PluginTypes
  <2>2. proc'[p] = [proc[p] EXCEPT !.pc = "gone"] /\ \A q \in PO!Procs \ {p} : proc'[q] = proc[q]
    BY <1>0, <2>1
  <2>3. /\ proc'[p].pid = proc[p].pid /\ proc'[p].loose = proc[p].loose /\ proc'[p].alive = proc[p].alive
        /\ proc'[p].pc = "gone"
    BY <1>0, <2>2 DEF ProcRec
  <2>4. ~Live(p)'
    BY <2>3 DEF Live
  <2>5. Launched(p) /\ ~Live(p)
    <3>1. p \notin Execs
      BY <1>0, <2>1 DEF TableInv
    <3>. QED
      BY <2>1, <3>1 DEF Launched, Live
  <2>6. \A q \in PO!Procs : Live(q)' => table'[proc[q].pid] = table[proc[q].pid]
    <3>1. SUFFICES ASSUME NEW q \in PO!Procs, Live(q)' PROVE proc[q].pid \in Pids \ {n}
      BY <2>1
    <3>2. Live(q) /\ q # p
      BY <2>2, <2>3, <2>4, <3>1 DEF Live
    <3>. QED
      BY <1>0, <2>5, <3>2 DEF TableInv, PluginTypes, ProcRec
  <2>7. \A o \in Ops : \A q \in PO!Procs :
          /\ ack[o][q] # "no" => ack'[o][q] # "no"
          /\ ack'[o][q] = "ok" => ack[o][q] = "ok" \/ q = p
          /\ ack'[o][q] # "no" => ack[o][q] # "no" \/ q = p
    BY <1>0, <2>1 DEF PluginTypes
  <2>8. \A o \in Ops : \A q \in PO!Procs : ack'[o][q] # "no" => Launched(q)
    BY <1>0, <2>5, <2>7 DEF AloneInv, Launched
  <2>. HIDE DEF n
  <2>. QED
    BY <1>1, <2>1, <2>2, <2>3, <2>4, <2>6, <2>7, <2>8, ProcessGoesOn
<1>. QED
  BY <1>2, <1>3, <1>4, <1>5, <1>6

\* A new process gets a PID no process of the plugin has, and a new entry; only who changes
\* the plugin could miss it, and nobody does while the process holds the lock.
LEMMA PluginLaunches ==
    ASSUME PluginAssumption, PluginInv, PluginTypes', NEW p \in PO!Procs, PO!Launch(p)
    PROVE  PluginInv'
<1>0. PluginTypes /\ TableInv /\ AloneInv /\ proc[p] \in ProcRec /\ DOMAIN proc = PO!Procs /\ PO!Procs' = PO!Procs
  BY DEF PluginInv, PluginTypes, PO!Procs
<1>1. proc[p].pc = "locked" /\ UNCHANGED <<disk, op, ack>> /\ ~proc[p].alive
  BY <1>0 DEF PO!Launch, PO!fileVars, TableInv
<1>2. PO!Writers = {} /\ PO!Writers' = {}
  <2>1. p \in PO!Readers
    BY <1>1 DEF PO!Readers
  <2>. QED
    BY <1>0, <1>1, <2>1 DEF AloneInv, PO!Writers
<1>3. \A o \in Ops : ack[o][p] = "no"
  BY <1>0, <1>1 DEF AloneInv
<1>A. \A o \in Ops : \A q \in PO!Procs : ack[o][q] # "no" => Launched(q)
  BY <1>0 DEF AloneInv, Launched
<1>4. CASE disk \in {None, PO!Dangling}
  <2>1. proc' = [proc EXCEPT ![p].pc = "gone"] /\ UNCHANGED <<table, used>>
    BY <1>4 DEF PO!Launch
  <2>2. proc'[p] = [proc[p] EXCEPT !.pc = "gone"] /\ \A q \in PO!Procs \ {p} : proc'[q] = proc[q]
    BY <1>0, <2>1
  <2>3. /\ proc'[p].pid = proc[p].pid /\ proc'[p].loose = proc[p].loose /\ proc'[p].alive = proc[p].alive
        /\ proc'[p].pc = "gone"
    BY <1>0, <2>2 DEF ProcRec
  <2>. QED
    BY <1>1, <1>A, <2>1, <2>2, <2>3, ProcessGoesOn
<1>5. ASSUME disk # None, \A q \in PO!Procs \ {p} : proc'[q] = proc[q],
             proc'[p].pc = "watch",
             p \in Execs => proc'[p].pid = proc[p].pid /\ table' = table /\ used' = used,
             p \notin Execs =>
               /\ proc'[p].pid \in PO!FreePids
               /\ proc'[p].loose = (proc'[p].pid \in used)
               /\ table' = [table EXCEPT ![proc'[p].pid] = [p |-> p, exited |-> FALSE]]
               /\ used' = used \cup {proc'[p].pid}
      PROVE  PluginInv'
  <2>. DEFINE n == proc'[p].pid
  <2>0. n \in Pids
    BY <1>0 DEF PluginTypes, ProcRec
  <2>1. \A q \in PO!Procs \ {p} : (Live(q)' <=> Live(q)) /\ (Launched(q)' <=> Launched(q))
    BY <1>1, <1>5 DEF Live, Launched
  <2>2. p \notin Execs => \A q \in PO!Procs : Live(q) => proc[q].pid # n /\ q # p
    BY <1>0, <1>1, <1>5 DEF Live, TableInv, PO!FreePids, PO!Procs
  <2>3. Live(p)' => p \notin Execs /\ n \notin used
    BY <1>5 DEF Live
  <2>4. TableInv'
    <3>1. \A q \in PO!Procs : proc'[q].alive => proc'[q].pc \notin {"new", "locked"}
      BY <1>0, <1>5 DEF TableInv
    <3>2. \A q \in Execs : proc'[q].pc \notin {"stopping", "report"}
      BY <1>0, <1>5 DEF TableInv, PO!Procs
    <3>3. ASSUME NEW q \in PO!Procs, Launched(q)' PROVE proc'[q].pid \in used'
      <4>1. CASE q = p
        BY <1>1, <1>3, <1>5, <3>3, <4>1 DEF Launched
      <4>2. CASE q # p
        BY <1>0, <1>5, <2>1, <3>3, <4>2 DEF TableInv
      <4>. QED
        BY <4>1, <4>2
    <3>4. ASSUME NEW q \in PO!Procs, Live(q)' PROVE table'[proc'[q].pid] = [p |-> q, exited |-> FALSE]
      <4>1. CASE q = p
        BY <1>0, <1>5, <2>0, <2>3, <3>4, <4>1 DEF PluginTypes
      <4>2. CASE q # p
        <5>1. Live(q) /\ proc'[q] = proc[q] /\ table[proc[q].pid] = [p |-> q, exited |-> FALSE]
          BY <1>0, <1>5, <2>1, <3>4, <4>2 DEF TableInv
        <5>2. proc[q].pid \in Pids
          BY <1>0 DEF PluginTypes, ProcRec
        <5>. QED
          BY <1>0, <1>5, <2>0, <2>2, <5>1, <5>2 DEF PluginTypes
      <4>. QED
        BY <4>1, <4>2
    <3>5. ASSUME NEW q \in PO!Procs, NEW r \in PO!Procs, Live(q)', Launched(r)', q # r
          PROVE  proc'[r].pid # proc'[q].pid
      <4>1. CASE q = p
        <5>1. Launched(r) /\ proc'[r] = proc[r] /\ n \notin used
          BY <1>5, <2>1, <2>3, <3>5, <4>1
        <5>. QED
          BY <1>0, <4>1, <5>1 DEF TableInv
      <4>2. CASE r = p
        <5>1. Live(q) /\ proc'[q] = proc[q] /\ p \notin Execs
          BY <1>5, <2>1, <3>5, <4>2 DEF Launched
        <5>. QED
          BY <2>2, <4>2, <5>1
      <4>3. CASE q # p /\ r # p
        BY <1>0, <1>5, <2>1, <3>5, <4>3 DEF TableInv
      <4>. QED
        BY <4>1, <4>2, <4>3
    <3>. QED
      BY <1>0, <3>1, <3>2, <3>3, <3>4, <3>5 DEF TableInv
  <2>5. AloneInv'
    <3>1. \A o \in Ops : \A q \in PO!Procs : ack[o][q] # "no" => q \notin Execs /\ proc'[q].pc \notin {"new", "locked"}
      BY <1>0, <1>5 DEF AloneInv
    <3>2. \A o \in Ops : \A q \in PO!Procs : ack[o][q] = "ok" => ~Live(q)'
      BY <1>0, <1>3, <2>1 DEF AloneInv
    <3>3. \A o \in Ops : op[o].kind = "stop" => op[o].pc \notin {"change", "swap", "register"}
      BY <1>0 DEF AloneInv
    <3>. QED
      BY <1>0, <1>1, <1>2, <1>5, <3>1, <3>2, <3>3 DEF AloneInv
  <2>. QED
    BY <2>4, <2>5 DEF PluginInv
<1>6. CASE disk \notin {None, PO!Dangling} /\ p \in Execs
  <2>1. proc' = [proc EXCEPT ![p].pc = "watch", ![p].alive = TRUE] /\ UNCHANGED <<table, used>>
    BY <1>6 DEF PO!Launch
  <2>2. proc'[p] = [proc[p] EXCEPT !.pc = "watch", !.alive = TRUE] /\ \A q \in PO!Procs \ {p} : proc'[q] = proc[q]
    BY <1>0, <2>1
  <2>3. proc'[p].pid = proc[p].pid /\ proc'[p].pc = "watch"
    BY <1>0, <2>2 DEF ProcRec
  <2>. QED
    BY <1>5, <1>6, <2>1, <2>2, <2>3
<1>7. CASE disk \notin {None, PO!Dangling} /\ p \notin Execs
  <2>1. PICK n \in PO!FreePids :
          /\ proc' = [proc EXCEPT ![p].pc = "watch", ![p].alive = TRUE, ![p].pid = n, ![p].loose = n \in used]
          /\ table' = [table EXCEPT ![n] = [p |-> p, exited |-> FALSE]] /\ used' = used \cup {n}
    BY <1>7 DEF PO!Launch
  <2>2. /\ proc'[p] = [proc[p] EXCEPT !.pc = "watch", !.alive = TRUE, !.pid = n, !.loose = n \in used]
        /\ \A q \in PO!Procs \ {p} : proc'[q] = proc[q]
    BY <1>0, <2>1
  <2>3. proc'[p].pid = n /\ proc'[p].pc = "watch" /\ proc'[p].loose = (n \in used)
    BY <1>0, <2>2 DEF ProcRec
  <2>. QED
    BY <1>5, <1>7, <2>1, <2>2, <2>3
<1>. QED
  BY <1>4, <1>6, <1>7

\* A request that has the lock for writing goes on when no process lives that it has not asked.
LEMMA RequestGoesOn ==
    ASSUME PluginAssumption, PluginInv, NEW o \in Ops, UNCHANGED <<proc, table, ack, used>>,
           \A w \in Ops \ {o} : op'[w] = op[w], op'[o].kind = op[o].kind,
           op[o].kind = "stop" => op'[o].pc \notin {"change", "swap", "register"},
           op[o].kind # "stop" /\ op'[o].pc \in PO!Changing => o \in PO!Writers \/ (PO!Writers = {} /\ PO!Readers = {}),
           op[o].kind # "stop" /\ op'[o].pc \in {"change", "swap", "register"} => \A p \in PO!Procs : ~Live(p),
           op'[o].pc # "wait", disk' = None => \A p \in PO!Procs : ~Live(p),
           PluginTypes'
    PROVE  PluginInv'
<1>0. PluginTypes /\ TableInv /\ AloneInv /\ PO!Procs' = PO!Procs /\ PO!Readers' = PO!Readers
  BY DEF PluginInv, PO!Procs, PO!Readers
<1>1. TableInv'
  BY <1>0 DEF TableInv, Live, Launched
<1>2. \A w \in PO!Writers' : w \in PO!Writers \/ (w = o /\ PO!Writers = {} /\ PO!Readers = {})
  BY DEF PO!Writers, PO!Changing
<1>3. \A p \in PO!Procs : Live(p)' <=> Live(p)
  BY DEF Live
<1>4. AloneInv'
  <2>1. PO!Writers' # {} => PO!Readers' = {}
    BY <1>0, <1>2 DEF AloneInv
  <2>2. \A w, v \in PO!Writers' : w = v
    BY <1>0, <1>2 DEF AloneInv
  <2>3. \A w \in Ops : op'[w].kind = "stop" => op'[w].pc \notin {"change", "swap", "register"}
    BY <1>0 DEF AloneInv
  <2>4. ASSUME NEW w \in PO!Writers', NEW p \in PO!Procs, Live(p)
        PROVE  (op'[w].pc = "wait" => ack[w][p] # "no") /\ op'[w].pc \notin {"change", "swap", "register"}
    <3>1. CASE w = o
      BY <2>4, <3>1 DEF PO!Writers
    <3>2. CASE w # o
      BY <1>0, <1>2, <2>4, <3>2 DEF AloneInv, PO!Writers
    <3>. QED
      BY <3>1, <3>2
  <2>. QED
    BY <1>0, <1>3, <2>1, <2>2, <2>3, <2>4 DEF AloneInv
<1>. QED
  BY <1>1, <1>4 DEF PluginInv

\* The requests that take the lock, and what they do to the directory.
LEMMA PluginRequests ==
    ASSUME PluginAssumption, PluginInv, PluginTypes', NEW o \in Ops,
           PO!BeginOp(o) \/ PO!BeginStop(o) \/ PO!Change(o) \/ PO!Swap(o) \/ PO!Register(o)
    PROVE  PluginInv'
<1>0. PluginTypes /\ AloneInv /\ op[o] \in OpRec /\ DOMAIN op = Ops /\ op[o].kind \in OpKinds
  BY DEF PluginInv, PluginTypes, OpRec
<1>1. UNCHANGED <<proc, table, ack, used>>
  BY DEF PO!BeginOp, PO!BeginStop, PO!Change, PO!Swap, PO!Register, PO!procVars
<1>2. ASSUME NEW to, op' = [op EXCEPT ![o].pc = to]
      PROVE  /\ op'[o].pc = to /\ op'[o].kind = op[o].kind
             /\ \A w \in Ops \ {o} : op'[w] = op[w]
  BY <1>0, <1>2 DEF OpRec
<1>3. ASSUME PO!BeginOp(o) PROVE PluginInv'
  <2>1. op[o].kind # "stop" /\ PO!Writers = {} /\ PO!Readers = {} /\ disk' = disk
    BY <1>3 DEF PO!BeginOp
  <2>2. PICK to : /\ op' = [op EXCEPT ![o].pc = to] /\ to # "wait"
                  /\ to \in {"change", "swap", "register"} => disk = None
    <3>1. op[o].kind \in {"install", "update", "upsert", "link", "delete"}
      BY <1>0, <2>1 DEF PluginAssumption
    <3>2. CASE op[o].kind = "install"
      BY <1>3, <3>2 DEF PO!BeginOp, PO!At
    <3>3. CASE op[o].kind = "update"
      BY <1>3, <3>3 DEF PO!BeginOp, PO!At
    <3>4. CASE op[o].kind = "upsert"
      BY <1>3, <3>4 DEF PO!BeginOp, PO!At
    <3>5. CASE op[o].kind = "link"
      BY <1>3, <3>5 DEF PO!BeginOp, PO!At
    <3>6. CASE op[o].kind = "delete"
      BY <1>3, <3>6 DEF PO!BeginOp, PO!At
    <3>. QED
      BY <3>1, <3>2, <3>3, <3>4, <3>5, <3>6
  <2>3. disk = None => \A p \in PO!Procs : ~Live(p)
    BY <1>0 DEF AloneInv
  <2>4. op'[o].pc = to /\ op'[o].kind = op[o].kind /\ \A w \in Ops \ {o} : op'[w] = op[w]
    BY <1>2, <2>2
  <2>. QED
    BY <1>1, <2>1, <2>2, <2>3, <2>4, RequestGoesOn
<1>4. ASSUME PO!BeginStop(o) PROVE PluginInv'
  <2>1. op[o].kind = "stop" /\ op' = [op EXCEPT ![o].pc = "kill"] /\ disk' = disk
    BY <1>4 DEF PO!BeginStop, PO!At
  <2>2. op'[o].pc = "kill" /\ op'[o].kind = op[o].kind /\ \A w \in Ops \ {o} : op'[w] = op[w]
    BY <1>2, <2>1
  <2>3. disk = None => \A p \in PO!Procs : ~Live(p)
    BY <1>0 DEF AloneInv
  <2>. QED
    BY <1>1, <2>1, <2>2, <2>3, RequestGoesOn
<1>5. ASSUME PO!Change(o) \/ PO!Swap(o) \/ PO!Register(o) PROVE PluginInv'
  <2>1. op[o].pc \in {"change", "swap", "register"} /\ \E to \in {"swap", "register", "done"} : op' = [op EXCEPT ![o].pc = to]
    BY <1>5 DEF PO!Change, PO!Swap, PO!Register, PO!At
  <2>2. op[o].kind # "stop" /\ o \in PO!Writers /\ \A p \in PO!Procs : ~Live(p)
    <3>1. op[o].kind # "stop" /\ o \in PO!Writers
      BY <1>0, <2>1 DEF AloneInv, PO!Writers, PO!Changing
    <3>. QED
      BY <1>0, <2>1, <3>1 DEF AloneInv
  <2>3. op'[o].pc # "wait" /\ op'[o].kind = op[o].kind /\ \A w \in Ops \ {o} : op'[w] = op[w]
    BY <1>2, <2>1
  <2>. QED
    BY <1>1, <2>2, <2>3, RequestGoesOn
<1>. QED
  BY <1>3, <1>4, <1>5

\* Every process that lives is asked: its entry is there, and it listens.
LEMMA PluginKills ==
    ASSUME PluginAssumption, PluginInv, PluginTypes', NEW o \in Ops, PO!Kill(o)
    PROVE  PluginInv'
<1>0. PluginTypes /\ TableInv /\ AloneInv /\ op[o] \in OpRec /\ DOMAIN op = Ops /\ PO!Procs' = PO!Procs
  BY DEF PluginInv, PluginTypes, PO!Procs
<1>. DEFINE Hears(n) == table[n] # None /\ proc[table[n].p].pc \in {"watch", "stopping"}
<1>1. /\ op[o].pc = "kill" /\ op' = [op EXCEPT ![o].pc = "wait"] /\ UNCHANGED <<disk, proc, used>>
      /\ ack' = [ack EXCEPT ![o] = [p \in PO!Procs |-> IF \E n \in Pids : table[n] # None /\ table[n].p = p /\ Hears(n)
                                                         THEN "sent" ELSE "no"]]
      /\ \A n \in Pids : Hears(n) => table'[n] = table[n]
  BY DEF PO!Kill, PO!At
<1>2. op'[o].pc = "wait" /\ op'[o].kind = op[o].kind /\ \A w \in Ops \ {o} : op'[w] = op[w]
  BY <1>0, <1>1 DEF OpRec
<1>3. PO!Readers' = PO!Readers /\ PO!Writers' = PO!Writers
  BY <1>0, <1>1, <1>2 DEF PO!Readers, PO!Writers, PO!Changing
<1>4. \A w \in Ops \ {o} : ack'[w] = ack[w]
  BY <1>0, <1>1 DEF PluginTypes
<1>5. \A p \in PO!Procs : /\ ack'[o][p] \in {"sent", "no"}
                          /\ ack'[o][p] = "sent" => p \notin Execs /\ proc[p].pc \in {"watch", "stopping"}
  <2>1. \A p \in PO!Procs : ack'[o][p] = IF \E n \in Pids : table[n] # None /\ table[n].p = p /\ Hears(n)
                                          THEN "sent" ELSE "no"
    BY <1>0, <1>1 DEF PluginTypes
  <2>2. \A n \in Pids : table[n] # None => table[n].p \in PO!Procs \ Execs
    BY <1>0 DEF PluginTypes, TableRec
  <2>. QED
    BY <2>1, <2>2
<1>6. \A p \in PO!Procs : Live(p) => ack'[o][p] = "sent" /\ table'[proc[p].pid] = table[proc[p].pid]
  <2>1. SUFFICES ASSUME NEW p \in PO!Procs, Live(p)
                 PROVE  ack'[o][p] = "sent" /\ table'[proc[p].pid] = table[proc[p].pid]
    OBVIOUS
  <2>2. proc[p].pid \in Pids /\ table[proc[p].pid] = [p |-> p, exited |-> FALSE] /\ proc[p].pc \in {"watch", "stopping"}
    BY <1>0, <2>1 DEF TableInv, Live, PluginTypes, ProcRec
  <2>3. table[proc[p].pid] # None
    <3>1. [p |-> p, exited |-> FALSE] \in [p : PO!Procs \ Execs, exited : BOOLEAN]
      BY <2>1 DEF Live
    <3>. QED
      BY <2>2, <3>1 DEF PluginAssumption
  <2>4. Hears(proc[p].pid) /\ table[proc[p].pid].p = p
    BY <2>2, <2>3
  <2>5. ack'[o][p] = IF \E n \in Pids : table[n] # None /\ table[n].p = p /\ Hears(n) THEN "sent" ELSE "no"
    BY <1>0, <1>1 DEF PluginTypes
  <2>. QED
    BY <1>1, <2>2, <2>3, <2>4, <2>5
<1>. HIDE DEF Hears
<1>7. \A p \in PO!Procs : (Live(p)' <=> Live(p)) /\ (Launched(p)' => Launched(p))
  BY <1>1, <1>4, <1>5 DEF Live, Launched
<1>8. TableInv'
  BY <1>0, <1>1, <1>6, <1>7 DEF TableInv
<1>9. AloneInv'
  <2>1. \A w \in Ops : \A p \in PO!Procs : /\ ack'[w][p] # "no" => p \notin Execs /\ proc[p].pc \notin {"new", "locked"}
                                           /\ ack'[w][p] = "ok" => ~Live(p)
    BY <1>0, <1>4, <1>5 DEF AloneInv
  <2>2. \A w \in Ops : op'[w].kind = "stop" => op'[w].pc \notin {"change", "swap", "register"}
    BY <1>0, <1>2 DEF AloneInv
  <2>3. \A w \in PO!Writers : \A p \in PO!Procs : Live(p) =>
          (op'[w].pc = "wait" => ack'[w][p] # "no") /\ op'[w].pc \notin {"change", "swap", "register"}
    BY <1>0, <1>2, <1>4, <1>6 DEF AloneInv, PO!Writers
  <2>. QED
    BY <1>0, <1>1, <1>3, <1>7, <2>1, <2>2, <2>3 DEF AloneInv
<1>. QED
  BY <1>8, <1>9 DEF PluginInv

\* Nobody who lives counts as stopped, so a request that has found all stopped meets nobody.
LEMMA PluginAwaits ==
    ASSUME PluginAssumption, PluginInv, PluginTypes', NEW o \in Ops, PO!Await(o)
    PROVE  PluginInv'
<1>0. PluginTypes /\ TableInv /\ AloneInv /\ op[o] \in OpRec /\ DOMAIN op = Ops /\ PO!Procs' = PO!Procs
  BY DEF PluginInv, PluginTypes, PO!Procs
<1>. DEFINE Done == {p \in PO!Asked(o) : PO!Stopped(o, p)}
<1>1. /\ op[o].pc = "wait" /\ UNCHANGED <<disk, proc, used>>
      /\ table' = [n \in Pids |-> IF \E p \in Done : proc[p].pid = n THEN None ELSE table[n]]
      /\ op' = [op EXCEPT ![o].pc = IF Done # PO!Asked(o) \/ op[o].kind = "stop" THEN "done" ELSE "change"]
      /\ ack' = [ack EXCEPT ![o] = [p \in PO!Procs |-> "no"]]
  BY DEF PO!Await, PO!At
<1>2. /\ op'[o].pc \in {"done", "change"} /\ op'[o].kind = op[o].kind /\ \A w \in Ops \ {o} : op'[w] = op[w]
      /\ op'[o].pc = "change" => Done = PO!Asked(o) /\ op[o].kind # "stop"
  BY <1>0, <1>1 DEF OpRec
<1>3. \A w \in Ops \ {o} : ack'[w] = ack[w]
  BY <1>0, <1>1 DEF PluginTypes
<1>4. \A p \in PO!Procs : ack'[o][p] = "no"
  BY <1>0, <1>1 DEF PluginTypes
<1>5. \A p \in Done : p \in PO!Procs /\ Launched(p) /\ ~Live(p)
  <2>1. SUFFICES ASSUME NEW p \in Done, Live(p) PROVE FALSE
    <3>1. \A p \in Done : p \in PO!Procs /\ ack[o][p] # "no"
      BY DEF PO!Asked
    <3>. QED
      BY <1>0, <3>1 DEF Launched, AloneInv
  <2>2. p \in PO!Procs /\ PO!Stopped(o, p)
    BY DEF PO!Asked
  <2>3. /\ table[proc[p].pid] = [p |-> p, exited |-> FALSE] /\ [p |-> p, exited |-> FALSE] # None
        /\ proc[p].alive
    <3>1. [p |-> p, exited |-> FALSE] \in [p : PO!Procs \ Execs, exited : BOOLEAN]
      BY <2>1, <2>2 DEF Live
    <3>. QED
      BY <1>0, <2>1, <2>2, <3>1 DEF TableInv, Live, PluginAssumption
  <2>. QED
    BY <1>0, <2>1, <2>2, <2>3 DEF PO!Stopped, AloneInv
<1>6. \A p \in PO!Procs : Live(p) => table'[proc[p].pid] = table[proc[p].pid]
  <2>1. SUFFICES ASSUME NEW p \in PO!Procs, Live(p) PROVE table'[proc[p].pid] = table[proc[p].pid]
    OBVIOUS
  <2>2. \A q \in Done : proc[q].pid # proc[p].pid
    BY <1>0, <1>5, <2>1 DEF TableInv
  <2>3. proc[p].pid \in Pids
    BY <1>0 DEF PluginTypes, ProcRec
  <2>. QED
    BY <1>1, <2>2, <2>3
<1>7. op'[o].pc = "change" => \A p \in PO!Procs : ~Live(p)
  <2>1. SUFFICES ASSUME op'[o].pc = "change", NEW p \in PO!Procs, Live(p) PROVE FALSE
    OBVIOUS
  <2>2. o \in PO!Writers /\ PO!Asked(o) = Done
    BY <1>1, <1>2, <2>1 DEF PO!Writers, PO!Changing
  <2>3. p \in PO!Asked(o)
    BY <1>0, <1>1, <2>1, <2>2 DEF AloneInv, PO!Asked
  <2>. QED
    BY <1>5, <2>1, <2>2, <2>3
<1>. HIDE DEF Done
<1>8. \A p \in PO!Procs : (Live(p)' <=> Live(p)) /\ (Launched(p)' => Launched(p))
  BY <1>1, <1>3, <1>4 DEF Live, Launched
<1>9. TableInv'
  BY <1>0, <1>1, <1>6, <1>8 DEF TableInv
<1>10. PO!Readers' = PO!Readers /\ PO!Writers' \subseteq PO!Writers
  BY <1>0, <1>1, <1>2 DEF PO!Readers, PO!Writers, PO!Changing
<1>11. AloneInv'
  <2>1. \A w \in Ops : \A p \in PO!Procs : /\ ack'[w][p] # "no" => p \notin Execs /\ proc[p].pc \notin {"new", "locked"}
                                           /\ ack'[w][p] = "ok" => ~Live(p)
    BY <1>0, <1>3, <1>4 DEF AloneInv
  <2>2. \A w \in Ops : op'[w].kind = "stop" => op'[w].pc \notin {"change", "swap", "register"}
    BY <1>0, <1>2 DEF AloneInv
  <2>3. \A w \in PO!Writers' : \A p \in PO!Procs : Live(p) =>
          (op'[w].pc = "wait" => ack'[w][p] # "no") /\ op'[w].pc \notin {"change", "swap", "register"}
    BY <1>0, <1>2, <1>3, <1>7, <1>10 DEF AloneInv, PO!Writers
  <2>. QED
    BY <1>0, <1>1, <1>8, <1>10, <2>1, <2>2, <2>3 DEF AloneInv
<1>. QED
  BY <1>9, <1>11 DEF PluginInv

\* The watcher changes the registry and nothing else these invariants are about.
LEMMA PluginTypesKeep ==
    ASSUME PluginAssumption, PluginTypes, PO!Next
    PROVE  PluginTypes'
<1>0. PO!Procs' = PO!Procs /\ \A o \in Ops : op[o] \in OpRec
  BY DEF PO!Procs, PluginTypes
<1>1. ASSUME NEW p \in PO!Procs, PO!Start(p) \/ PO!Supervise(p) PROVE PluginTypes'
  <2>1. proc[p] \in ProcRec /\ op' = op
    BY <1>1 DEF PluginTypes, PO!Start, PO!Supervise, PO!Launch, PO!Exit, PO!ReceiveStop, PO!Abandon, PO!Reap,
                PO!GiveUp, PO!TimeOut, PO!Report, PO!fileVars
  <2>2. CASE PO!Start(p) \/ PO!Exit(p) \/ PO!Abandon(p) \/ PO!TimeOut(p)
    <3>1. \E r \in ProcRec : proc' = [proc EXCEPT ![p] = r]
      <4>1. /\ [proc[p] EXCEPT !.pc = "locked"] \in ProcRec /\ [proc[p] EXCEPT !.alive = FALSE] \in ProcRec
            /\ [proc[p] EXCEPT !.pc = "gone"] \in ProcRec
        BY <2>1 DEF ProcRec
      <4>. QED
        BY <2>2, <4>1 DEF PO!Start, PO!Exit, PO!Abandon, PO!TimeOut
    <3>2. UNCHANGED <<table, ack>>
      BY <2>2 DEF PO!Start, PO!Exit, PO!Abandon, PO!TimeOut
    <3>. QED
      BY <1>0, <2>1, <3>1, <3>2 DEF PluginTypes, TableRec
  <2>3. CASE PO!ReceiveStop(p)
    <3>1. \E r \in ProcRec : proc' = [proc EXCEPT ![p] = r]
      <4>1. PICK o \in Ops : proc' = [proc EXCEPT ![p].pc = "stopping", ![p].by = o]
        BY <2>3 DEF PO!ReceiveStop
      <4>2. [proc[p] EXCEPT !.pc = "stopping", !.by = o] \in ProcRec
        BY <2>1 DEF ProcRec
      <4>. QED
        BY <4>1, <4>2
    <3>2. UNCHANGED <<table, ack>>
      BY <2>3 DEF PO!ReceiveStop
    <3>. QED
      BY <1>0, <2>1, <3>1, <3>2 DEF PluginTypes, TableRec
  <2>4. CASE PO!Launch(p)
    <3>1. CASE disk \in {None, PO!Dangling} \/ p \in Execs
      <4>1. \E r \in ProcRec : proc' = [proc EXCEPT ![p] = r]
        <5>1. [proc[p] EXCEPT !.pc = "gone"] \in ProcRec /\ [proc[p] EXCEPT !.pc = "watch", !.alive = TRUE] \in ProcRec
          BY <2>1 DEF ProcRec
        <5>. QED
          BY <2>4, <3>1, <5>1 DEF PO!Launch
      <4>2. UNCHANGED <<table, ack>>
        BY <2>4, <3>1 DEF PO!Launch
      <4>. QED
        BY <1>0, <2>1, <4>1, <4>2 DEF PluginTypes, TableRec
    <3>2. CASE disk \notin {None, PO!Dangling} /\ p \notin Execs
      <4>1. PICK n \in PO!FreePids :
              /\ proc' = [proc EXCEPT ![p].pc = "watch", ![p].alive = TRUE, ![p].pid = n, ![p].loose = n \in used]
              /\ table' = [table EXCEPT ![n] = [p |-> p, exited |-> FALSE]] /\ ack' = ack
        BY <2>4, <3>2 DEF PO!Launch
      <4>2. [proc[p] EXCEPT !.pc = "watch", !.alive = TRUE, !.pid = n, !.loose = n \in used] \in ProcRec
        <5>1. n \in Pids /\ (n \in used) \in BOOLEAN
          BY DEF PO!FreePids
        <5>. QED
          BY <2>1, <5>1 DEF ProcRec
      <4>3. proc' \in [PO!Procs -> ProcRec]
        BY <4>1, <4>2 DEF PluginTypes
      <4>4. [p |-> p, exited |-> FALSE] \in TableRec
        BY <3>2 DEF TableRec
      <4>5. table' \in [Pids -> TableRec \cup {None}]
        BY <4>1, <4>4 DEF PluginTypes
      <4>. QED
        BY <1>0, <2>1, <4>1, <4>3, <4>5 DEF PluginTypes, TableRec
    <3>. QED
      BY <3>1, <3>2
  <2>5. CASE PO!Reap(p) \/ PO!GiveUp(p)
    <3>1. \E r \in ProcRec : proc' = [proc EXCEPT ![p] = r]
      <4>1. /\ [proc[p] EXCEPT !.pc = IF p \in Execs THEN "gone" ELSE "report"] \in ProcRec
            /\ [proc[p] EXCEPT !.pc = "report"] \in ProcRec
        BY <2>1 DEF ProcRec
      <4>. QED
        BY <2>5, <4>1 DEF PO!Reap, PO!GiveUp
    <3>2. table' = table /\ PO!Unheard(p)
      BY <2>5 DEF PO!Reap, PO!GiveUp
    <3>3. ack' \in [Ops -> [PO!Procs -> {"no", "sent", "ok", "dropped"}]]
      BY <3>2 DEF PO!Unheard, PluginTypes
    <3>. QED
      BY <1>0, <2>1, <3>1, <3>2, <3>3 DEF PluginTypes, TableRec
  <2>6. CASE PO!Report(p)
    <3>1. \E r \in ProcRec : proc' = [proc EXCEPT ![p] = r]
      <4>1. [proc[p] EXCEPT !.pc = "gone"] \in ProcRec
        BY <2>1 DEF ProcRec
      <4>. QED
        BY <2>6, <4>1 DEF PO!Report
    <3>2. ack' \in [Ops -> [PO!Procs -> {"no", "sent", "ok", "dropped"}]]
      BY <2>6 DEF PO!Report, PluginTypes
    <3>3. table' \in [Pids -> TableRec \cup {None}]
      <4>. DEFINE n == proc[p].pid
                  e == IF table[n] = None \/ p \in Sockets THEN None ELSE [table[n] EXCEPT !.exited = TRUE]
      <4>1. n \in Pids /\ table[n] \in TableRec \cup {None} /\ table' = [table EXCEPT ![n] = e]
        BY <2>1, <2>6 DEF PO!Report, PluginTypes, ProcRec
      <4>2. e \in TableRec \cup {None}
        BY <4>1 DEF TableRec
      <4>. HIDE DEF e, n
      <4>. QED
        BY <4>1, <4>2 DEF PluginTypes
    <3>. QED
      BY <1>0, <2>1, <3>1, <3>2, <3>3 DEF PluginTypes, TableRec
  <2>. QED
    BY <1>1, <2>2, <2>3, <2>4, <2>5, <2>6 DEF PO!Supervise
<1>2. ASSUME NEW o \in Ops, PO!OpStep(o) PROVE PluginTypes'
  <2>1. ASSUME NEW to \in {"new", "kill", "wait", "change", "swap", "register", "done"}, PO!At(o, to)
        PROVE  op' \in [Ops -> OpRec]
    <3>1. [op[o] EXCEPT !.pc = to] \in OpRec
      BY <1>0 DEF OpRec
    <3>. QED
      BY <2>1, <3>1 DEF PO!At, PluginTypes
  <2>2. proc' = proc
    BY <1>2 DEF PO!OpStep, PO!BeginOp, PO!BeginStop, PO!Kill, PO!Await, PO!Change, PO!Swap, PO!Register, PO!procVars
  <2>3. CASE PO!BeginOp(o) \/ PO!BeginStop(o) \/ PO!Change(o) \/ PO!Swap(o) \/ PO!Register(o)
    <3>1. UNCHANGED <<table, ack>>
      BY <2>3 DEF PO!BeginOp, PO!BeginStop, PO!Change, PO!Swap, PO!Register, PO!procVars
    <3>2. \E to \in {"kill", "change", "swap", "register", "done"} : PO!At(o, to)
      <4>1. CASE PO!BeginOp(o)
        <5>1. op[o].kind \in {"install", "update", "upsert", "link", "delete"}
          BY <1>0, <4>1 DEF PO!BeginOp, OpRec, PluginAssumption
        <5>. QED
          BY <4>1, <5>1 DEF PO!BeginOp, PO!At
      <4>2. CASE PO!BeginStop(o) \/ PO!Change(o) \/ PO!Swap(o) \/ PO!Register(o)
        BY <4>2 DEF PO!BeginStop, PO!Change, PO!Swap, PO!Register, PO!At
      <4>. QED
        BY <2>3, <4>1, <4>2
    <3>. QED
      BY <1>0, <2>1, <2>2, <3>1, <3>2 DEF PluginTypes, TableRec
  <2>4. CASE PO!Kill(o)
    <3>1. PO!At(o, "wait") /\ ack' \in [Ops -> [PO!Procs -> {"no", "sent", "ok", "dropped"}]]
      BY <2>4 DEF PO!Kill, PluginTypes
    <3>2. table' \in [Pids -> TableRec \cup {None}]
      BY <2>4 DEF PO!Kill, PluginTypes
    <3>. QED
      BY <1>0, <2>1, <2>2, <3>1, <3>2 DEF PluginTypes, TableRec
  <2>5. CASE PO!Await(o)
    <3>1. \E to \in {"change", "done"} : PO!At(o, to)
      BY <2>5 DEF PO!Await, PO!At
    <3>2. ack' \in [Ops -> [PO!Procs -> {"no", "sent", "ok", "dropped"}]]
      BY <2>5 DEF PO!Await, PluginTypes
    <3>3. table' \in [Pids -> TableRec \cup {None}]
      BY <2>5 DEF PO!Await, PluginTypes
    <3>. QED
      BY <1>0, <2>1, <2>2, <3>1, <3>2, <3>3 DEF PluginTypes, TableRec
  <2>. QED
    BY <1>2, <2>3, <2>4, <2>5 DEF PO!OpStep
<1>3. ASSUME PO!Watch \/ PO!Vanish \/ PO!Seed PROVE PluginTypes'
  <2>1. UNCHANGED <<table, ack, op>>
    BY <1>3 DEF PO!Watch, PO!Clear, PO!ScanRead, PO!Unlink, PO!ScanInsert, PO!Vanish, PO!Seed, PO!procVars
  <2>2. proc' \in [PO!Procs -> ProcRec]
    <3>1. CASE UNCHANGED proc
      BY <3>1 DEF PluginTypes
    <3>2. CASE proc' = [p \in PO!Procs |-> [proc[p] EXCEPT !.loose = @ \/ proc[p].alive]]
      <4>1. \A p \in PO!Procs : proc[p] \in ProcRec
        BY DEF PluginTypes
      <4>. QED
        BY <3>2, <4>1 DEF ProcRec
    <3>. QED
      BY <1>3, <3>1, <3>2 DEF PO!Watch, PO!Clear, PO!ScanRead, PO!Unlink, PO!ScanInsert, PO!Vanish, PO!Seed,
         PO!procVars
  <2>. QED
    BY <1>0, <2>1, <2>2 DEF PluginTypes, TableRec
<1>. QED
  BY <1>1, <1>2, <1>3 DEF PO!Next

\* A link that a scan removes leaves no process that counts.
LEMMA PluginUnlinks ==
    ASSUME PluginAssumption, PluginInv, PluginTypes', PO!Unlink
    PROVE  PluginInv'
<1>0. PluginTypes /\ TableInv /\ AloneInv /\ UNCHANGED <<table, ack, op, used>> /\ PO!Procs' = PO!Procs
  BY DEF PluginInv, PO!Unlink, PO!Procs
<1>1. ASSUME NEW p \in PO!Procs
      PROVE  /\ proc'[p].pc = proc[p].pc /\ proc'[p].alive = proc[p].alive /\ proc'[p].pid = proc[p].pid
             /\ proc'[p].loose = proc[p].loose \/ (proc'[p].loose = (proc[p].loose \/ proc[p].alive))
             /\ disk' # disk => proc'[p].loose = (proc[p].loose \/ proc[p].alive)
  <2>1. proc[p] \in ProcRec
    BY <1>0 DEF PluginTypes
  <2>2. CASE UNCHANGED <<disk, proc>>
    BY <2>2
  <2>3. CASE proc' = [q \in PO!Procs |-> [proc[q] EXCEPT !.loose = @ \/ proc[q].alive]]
    <3>1. proc'[p] = [proc[p] EXCEPT !.loose = @ \/ proc[p].alive]
      BY <2>3
    <3>. QED
      BY <2>1, <3>1 DEF ProcRec
  <2>. QED
    BY <2>2, <2>3 DEF PO!Unlink
<1>2. \A p \in PO!Procs : (Live(p)' => Live(p)) /\ (Launched(p)' <=> Launched(p))
  BY <1>0, <1>1 DEF Live, Launched
<1>3. disk' = None => \A p \in PO!Procs : ~Live(p)'
  BY <1>0, <1>1, <1>2 DEF AloneInv, Live
<1>4. PO!Readers' = PO!Readers /\ PO!Writers' = PO!Writers
  BY <1>0, <1>1 DEF PO!Readers, PO!Writers
<1>5. TableInv'
  <2>1. \A p \in Execs : p \in PO!Procs
    BY DEF PO!Procs
  <2>. QED
    BY <1>0, <1>1, <1>2, <2>1 DEF TableInv
<1>6. AloneInv'
  <2>1. \A o \in Ops : \A p \in PO!Procs : /\ ack'[o][p] # "no" => p \notin Execs /\ proc'[p].pc \notin {"new", "locked"}
                                           /\ ack'[o][p] = "ok" => ~Live(p)'
    BY <1>0, <1>1, <1>2 DEF AloneInv
  <2>2. \A o \in PO!Writers' : \A p \in PO!Procs : Live(p)' =>
          (op'[o].pc = "wait" => ack'[o][p] # "no") /\ op'[o].pc \notin {"change", "swap", "register"}
    BY <1>0, <1>2, <1>4 DEF AloneInv
  <2>. QED
    BY <1>0, <1>3, <1>4, <2>1, <2>2 DEF AloneInv
<1>. QED
  BY <1>5, <1>6 DEF PluginInv

\* What happens to the directory alone keeps the invariant, unless it takes the directory
\* away from a process that counts.
LEMMA PluginMoves ==
    ASSUME PluginInv, UNCHANGED <<proc, table, ack, op, used>>,
           disk' = None => disk = None \/ \A p \in PO!Procs : ~Live(p)
    PROVE  PluginInv'
<1>1. PluginTypes' /\ TableInv'
  BY DEF PluginInv, PluginTypes, TableInv, Live, Launched, PO!Procs, TableRec
<1>2. PO!Procs' = PO!Procs /\ PO!Writers' = PO!Writers /\ PO!Readers' = PO!Readers
  BY DEF PO!Procs, PO!Writers, PO!Readers
<1>3. AloneInv'
  BY <1>2 DEF PluginInv, AloneInv, Live
<1>. QED
  BY <1>1, <1>3 DEF PluginInv

\* Only the seed takes the plugin out of the state the server starts it in.
LEMMA PluginBoots ==
    ASSUME PluginInv, BootInv, [PO!Next]_(PO!vars)
    PROVE  BootInv'
<1>. SUFFICES ASSUME boot' = "seed"
              PROVE  BootInv'
  BY DEF BootInv
<1>0. TableInv /\ PO!Procs' = PO!Procs
  BY DEF PluginInv, PO!Procs
<1>1. CASE UNCHANGED <<boot, proc, op>>
  BY <1>0, <1>1 DEF BootInv
<1>2. CASE PO!Next
  <2>1. ASSUME NEW p \in PO!Procs, PO!Start(p) \/ PO!Supervise(p) PROVE FALSE
    <3>1. boot = "seed"
      BY <2>1 DEF PO!Supervise, PO!Start, PO!Launch, PO!Exit, PO!ReceiveStop, PO!Abandon, PO!Reap, PO!GiveUp,
         PO!TimeOut, PO!Report, PO!fileVars
    <3>2. proc[p].pc = "new" /\ ~proc[p].alive
      BY <1>0, <3>1 DEF BootInv, TableInv
    <3>. QED
      BY <2>1, <3>1, <3>2 DEF PO!Supervise, PO!Start, PO!Launch, PO!Exit, PO!ReceiveStop, PO!Abandon, PO!Reap,
         PO!GiveUp, PO!TimeOut, PO!Report
  <2>2. ASSUME NEW o \in Ops, PO!OpStep(o) PROVE FALSE
    <3>1. boot = "seed"
      BY <2>2 DEF PO!OpStep, PO!BeginOp, PO!BeginStop, PO!Kill, PO!Await, PO!Change, PO!Swap, PO!Register
    <3>2. op[o].pc = "new"
      BY <3>1 DEF BootInv
    <3>. QED
      BY <2>2, <3>1, <3>2 DEF PO!OpStep, PO!BeginOp, PO!BeginStop, PO!Kill, PO!Await, PO!Change, PO!Swap,
         PO!Register
  <2>3. CASE PO!Clear \/ PO!ScanRead \/ PO!ScanInsert \/ PO!Vanish
    BY <1>1, <2>3 DEF PO!Clear, PO!ScanRead, PO!ScanInsert, PO!Vanish, PO!procVars
  <2>4. CASE PO!Unlink
    <3>1. boot = "seed" /\ UNCHANGED op
      BY <2>4 DEF PO!Unlink
    <3>2. ASSUME NEW p \in PO!Procs PROVE proc'[p].pc = "new"
      <4>1. proc[p] \in ProcRec /\ proc[p].pc = "new"
        BY <3>1 DEF BootInv, PluginInv, PluginTypes
      <4>2. CASE UNCHANGED proc
        BY <4>1, <4>2
      <4>3. CASE proc' = [q \in PO!Procs |-> [proc[q] EXCEPT !.loose = @ \/ proc[q].alive]]
        BY <4>1, <4>3 DEF ProcRec
      <4>. QED
        BY <2>4, <4>2, <4>3 DEF PO!Unlink
    <3>. QED
      BY <1>0, <3>1, <3>2 DEF BootInv
  <2>5. CASE PO!Seed
    BY <2>5 DEF PO!Seed
  <2>. QED
    BY <1>2, <2>1, <2>2, <2>3, <2>4, <2>5 DEF PO!Next, PO!Watch
<1>. QED
  BY <1>1, <1>2 DEF PO!vars

LEMMA PluginStep ==
    ASSUME PluginAssumption, PluginInv, BootInv, [PO!Next]_(PO!vars)
    PROVE  PluginInv' /\ BootInv'
<1>. SUFFICES PluginInv'
  BY PluginBoots
<1>1. CASE PO!Next
  <2>1. PluginTypes'
    BY <1>1, PluginTypesKeep DEF PluginInv
  <2>2. ASSUME NEW p \in PO!Procs, PO!Start(p) \/ PO!Supervise(p) PROVE PluginInv'
    BY <2>1, <2>2, PluginStarts, PluginLaunches, PluginProcessRuns DEF PO!Supervise
  <2>3. ASSUME NEW o \in Ops, PO!OpStep(o) PROVE PluginInv'
    BY <2>1, <2>3, PluginRequests, PluginKills, PluginAwaits DEF PO!OpStep
  <2>4. CASE PO!Clear \/ PO!ScanRead \/ PO!ScanInsert
    BY <2>4, PluginMoves DEF PO!Clear, PO!ScanRead, PO!ScanInsert, PO!procVars
  <2>5. CASE PO!Unlink
    BY <2>1, <2>5, PluginUnlinks
  <2>6. CASE PO!Vanish
    BY <2>6, PluginMoves DEF PO!Vanish, PO!procVars, PO!scanVars, PluginAssumption
  <2>7. CASE PO!Seed
    <3>1. \A p \in PO!Procs : ~Live(p)
      BY <2>7 DEF PO!Seed, BootInv, PluginInv, TableInv, Live
    <3>. QED
      BY <2>7, <3>1, PluginMoves DEF PO!Seed, PO!procVars
  <2>. QED
    BY <1>1, <2>2, <2>3, <2>4, <2>5, <2>6, <2>7 DEF PO!Next, PO!Watch
<1>2. CASE UNCHANGED PO!vars
  BY <1>2, PluginMoves DEF PO!vars
<1>. QED
  BY <1>1, <1>2

\* Who swaps or removes the directory of a plugin is alone with it: no request of another
\* kind is under way, no exec of the plugin is waited for, and every process or socket of it
\* that was alive when it began has stopped, or was killed and not seen to end in time; the
\* seed is put in place before anything is started.  Excepted are processes that were given a
\* PID the plugin had before, of which the entry may have been taken for that of the earlier
\* process, and those started from a link that a scan removed as broken.
THEOREM PluginsChangeAtRest ==
    ASSUME PluginAssumption
    PROVE  PO!Spec => [][PO!ChangesMeetNoProcess]_(PO!vars)
<1>1. ASSUME PluginInv, BootInv, PO!Next PROVE PO!ChangesMeetNoProcess
  <2>1. SUFFICES ASSUME disk' # disk, ~PO!Vanish, ~PO!Unlink, NEW p \in PO!Alive, ~proc[p].loose, ~PO!Outlived(p)
                 PROVE  FALSE
    BY DEF PO!ChangesMeetNoProcess
  <2>2. p \in PO!Procs /\ proc[p] \in ProcRec /\ proc[p].alive /\ proc[p].pc \in {"watch", "stopping"}
    <3>1. p \in PO!Procs /\ proc[p].alive /\ proc[p] \in ProcRec
      BY <1>1 DEF PO!Alive, PluginInv, PluginTypes
    <3>. QED
      BY <1>1, <2>1, <3>1 DEF PO!Outlived, PluginInv, TableInv, ProcRec
  <2>3. PICK o \in Ops : PO!Change(o) \/ PO!Swap(o)
    <3>1. ~PO!Seed
      BY <1>1, <2>2 DEF PO!Seed, BootInv
    <3>. QED
      BY <1>1, <2>1, <3>1 DEF PO!Next, PO!Supervise, PO!OpStep, PO!Watch, PO!Start, PO!Launch, PO!Exit,
         PO!ReceiveStop, PO!Abandon, PO!Reap, PO!GiveUp, PO!TimeOut, PO!Report, PO!BeginOp, PO!BeginStop, PO!Kill,
         PO!Await, PO!Register, PO!Clear, PO!ScanRead, PO!ScanInsert, PO!fileVars
  <2>4. op[o].pc \in {"change", "swap"} /\ op[o].kind # "stop" /\ o \in PO!Writers
    BY <1>1, <2>3 DEF PO!Change, PO!Swap, PO!Writers, PO!Changing, PluginInv, AloneInv
  <2>5. p \notin Execs
    BY <1>1, <2>2, <2>4 DEF PO!Readers, PluginInv, AloneInv, TableInv
  <2>. QED
    BY <1>1, <2>1, <2>2, <2>4, <2>5 DEF PluginInv, AloneInv, Live
<1>2. PluginInv /\ BootInv /\ [PO!Next]_(PO!vars) => [PO!ChangesMeetNoProcess]_(PO!vars)
  BY <1>1
<1>. QED
  BY <1>2, PluginInit, PluginStep, PTL DEF PO!Spec

-----------------------------------------------------------------------------
(* Sizes of a session.                                                     *)

CONSTANTS Clients, Joining, Sizes, Start, MaxRequests, MaxWrites
VARIABLES pty, size, screen, writing, writes, joined, request, changed, requests, debounce,
          handshake, replay

RS == INSTANCE SessionResize

ResizeAssumption ==
    /\ RS!SizeAssumption /\ RS!ClientAssumption /\ RS!BoundAssumption /\ None \notin RS!Request

Debounce  == [step : {"idle", "waiting", "member", "pty", "size", "screen"}, req : RS!Request \cup {None}]
Handshake == [step : {"none", "pty", "size", "screen", "replay", "done", "failed"}, dims : Sizes \cup {None}]

ResizeTypes ==
    /\ pty \in Sizes /\ size \in Sizes /\ screen \in Sizes
    /\ writing \in BOOLEAN /\ changed \in BOOLEAN /\ joined \subseteq Clients
    /\ request \in RS!Request \cup {None} /\ debounce \in Debounce
    /\ debounce.step = "idle" <=> debounce.req = None
    /\ handshake \in [Clients -> Handshake]
    /\ \A c \in Clients : handshake[c].step # "none" <=> handshake[c].dims \in Sizes
    /\ DOMAIN replay = Clients
    /\ \A c \in Clients : replay[c] # None => {replay[c].said, replay[c].drawn} \subseteq Sizes

NobodyShakes == \A c \in Clients : handshake[c].step = "none"

\* What the debounce task works on is the last request, or one it has not seen is waiting.
DebounceInv ==
    /\ changed => request # None
    /\ debounce.step # "idle" /\ ~changed => debounce.req = request
    /\ NobodyShakes /\ debounce.step = "screen" => size = debounce.req.dims
    /\ /\ NobodyShakes /\ debounce.step = "idle" /\ ~changed /\ request # None /\ request.origin \in joined
       => size = request.dims /\ screen = request.dims

LEMMA ResizeInit ==
    ASSUME ResizeAssumption, RS!Init
    PROVE  ResizeTypes /\ DebounceInv
<1>1. ResizeTypes
  BY DEF ResizeAssumption, RS!SizeAssumption, RS!Init, RS!Quiet, ResizeTypes, Debounce, Handshake
<1>2. DebounceInv
  BY DEF RS!Init, RS!Quiet, DebounceInv
<1>. QED
  BY <1>1, <1>2

\* The clients and the writer, who touch no size.
LEMMA ResizeAsked ==
    ASSUME ResizeAssumption, ResizeTypes, DebounceInv,
           \/ RS!BeginWrite \/ RS!EndWrite
           \/ \E c \in Clients : RS!Leave(c) \/ \E d \in Sizes : RS!ResizeDebounced(c, d)
    PROVE  ResizeTypes' /\ DebounceInv'
<1>1. UNCHANGED <<pty, size, screen, debounce, handshake, replay>> /\ joined' \subseteq joined /\ writing' \in BOOLEAN
  BY DEF ResizeTypes, RS!BeginWrite, RS!EndWrite, RS!Leave, RS!ResizeDebounced, RS!sizeVars, RS!writerVars, RS!requestVars
<1>2. \/ UNCHANGED <<request, changed>>
      \/ request' \in RS!Request /\ changed' = TRUE
  BY DEF RS!BeginWrite, RS!EndWrite, RS!Leave, RS!ResizeDebounced, RS!requestVars, RS!Request
<1>3. ResizeTypes'
  BY <1>1, <1>2 DEF ResizeTypes, Debounce, Handshake, RS!Request
<1>4. NobodyShakes' <=> NobodyShakes
  BY <1>1 DEF NobodyShakes
<1>5. DebounceInv'
  BY <1>1, <1>2, <1>4 DEF DebounceInv, ResizeAssumption
<1>. QED
  BY <1>3, <1>5

\* The debounce task.
LEMMA ResizeDebounces ==
    ASSUME ResizeAssumption, ResizeTypes, DebounceInv, RS!Debouncer
    PROVE  ResizeTypes' /\ DebounceInv'
<1>0. /\ UNCHANGED <<writing, joined, request, handshake, replay>> /\ debounce \in Debounce
      /\ debounce.req \in RS!Request \cup {None} /\ (debounce.step # "idle" => debounce.req \in RS!Request)
  BY DEF RS!Debouncer, RS!Wake, RS!Settle, RS!CheckOrigin, RS!ResizePty, RS!ResizeSize, RS!ResizeScreen,
         RS!writerVars, RS!requestVars, RS!sizeVars, ResizeTypes, Debounce
<1>1. NobodyShakes' <=> NobodyShakes
  BY <1>0 DEF NobodyShakes
<1>2. \A r \in RS!Request : r.dims \in Sizes /\ r # None
  BY DEF RS!Request, ResizeAssumption
<1>3. CASE RS!Wake
  <2>1. /\ debounce.step = "idle" /\ changed /\ changed' = FALSE /\ UNCHANGED <<pty, size, screen>>
        /\ debounce' = [step |-> "waiting", req |-> request] /\ request \in RS!Request
    BY <1>3 DEF RS!Wake, RS!sizeVars, DebounceInv, ResizeTypes
  <2>2. debounce' \in Debounce /\ debounce'.step = "waiting" /\ debounce'.req = request
    BY <2>1 DEF Debounce
  <2>3. ResizeTypes'
    BY <1>0, <1>2, <2>1, <2>2 DEF ResizeTypes, Debounce, Handshake, RS!Request
  <2>4. DebounceInv'
    BY <1>0, <1>1, <2>1, <2>2 DEF DebounceInv
  <2>. QED
    BY <2>3, <2>4
<1>4. CASE RS!Settle \/ RS!CheckOrigin
  <2>1. /\ UNCHANGED <<pty, size, screen, changed>> /\ debounce.step \in {"waiting", "member"}
        /\ \/ debounce' = [step |-> "idle", req |-> None] /\ (request # debounce.req \/ debounce.req.origin \notin joined)
           \/ debounce' = [debounce EXCEPT !.step = "member"]
           \/ debounce' = [debounce EXCEPT !.step = "pty"]
    BY <1>4 DEF RS!Settle, RS!CheckOrigin, RS!To, RS!Quiet, RS!sizeVars, RS!requestVars
  <2>2. /\ debounce' \in Debounce
        /\ \/ debounce'.step = "idle" /\ debounce'.req = None /\ (request # debounce.req \/ debounce.req.origin \notin joined)
           \/ debounce'.step \in {"member", "pty"} /\ debounce'.req = debounce.req
    BY <1>0, <2>1 DEF Debounce
  <2>3. ResizeTypes'
    BY <1>0, <1>2, <2>1, <2>2 DEF ResizeTypes, Debounce, Handshake, RS!Request
  <2>4. DebounceInv'
    BY <1>0, <1>1, <2>1, <2>2 DEF DebounceInv
  <2>. QED
    BY <2>3, <2>4
<1>5. CASE RS!ResizePty \/ RS!ResizeSize
  <2>1. /\ UNCHANGED <<screen, changed>> /\ debounce.step \in {"pty", "size"}
        /\ \/ debounce' = [debounce EXCEPT !.step = "size"] /\ size' = size /\ pty' \in {pty, debounce.req.dims}
           \/ debounce' = [debounce EXCEPT !.step = "screen"] /\ pty' = pty /\ size' = debounce.req.dims
    BY <1>5 DEF RS!ResizePty, RS!ResizeSize, RS!To, RS!requestVars
  <2>2. /\ debounce' \in Debounce /\ debounce'.req = debounce.req
        /\ debounce'.step \in {"size", "screen"} /\ (debounce'.step = "screen" => size' = debounce.req.dims)
    BY <1>0, <2>1 DEF Debounce
  <2>3. pty' \in Sizes /\ size' \in Sizes
    BY <1>0, <1>2, <2>1 DEF ResizeTypes
  <2>4. ResizeTypes'
    BY <1>0, <1>2, <2>1, <2>2, <2>3 DEF ResizeTypes, Debounce, Handshake, RS!Request
  <2>5. DebounceInv'
    BY <1>0, <1>1, <2>1, <2>2 DEF DebounceInv
  <2>. QED
    BY <2>4, <2>5
<1>6. CASE RS!ResizeScreen
  <2>1. /\ UNCHANGED <<pty, size, changed>> /\ debounce.step = "screen" /\ screen' = debounce.req.dims
        /\ debounce' = [step |-> "idle", req |-> None]
    BY <1>6 DEF RS!ResizeScreen, RS!Quiet, RS!requestVars
  <2>2. debounce' \in Debounce /\ debounce'.step = "idle" /\ debounce'.req = None
    BY <2>1 DEF Debounce
  <2>3. ResizeTypes'
    BY <1>0, <1>2, <2>1, <2>2 DEF ResizeTypes, Debounce, Handshake, RS!Request
  <2>4. DebounceInv'
    BY <1>0, <1>1, <2>1, <2>2 DEF DebounceInv
  <2>. QED
    BY <2>3, <2>4
<1>. QED
  BY <1>3, <1>4, <1>5, <1>6 DEF RS!Debouncer

\* A snapshot request, which may undo what the debounce task does.
LEMMA ResizeShakes ==
    ASSUME ResizeAssumption, ResizeTypes, DebounceInv, NEW c \in Clients,
           RS!Handshake(c) \/ \E d \in Sizes : RS!SnapshotRequest(c, d)
    PROVE  ResizeTypes' /\ DebounceInv'
<1>0. UNCHANGED <<writing, joined, request, changed, debounce>> /\ handshake[c] \in Handshake
  BY DEF RS!Handshake, RS!SnapshotRequest, RS!HandshakePty, RS!HandshakeSize, RS!HandshakeScreen, RS!HandshakeReplay,
         RS!writerVars, RS!requestVars, RS!sizeVars, ResizeTypes
<1>1. PICK h : handshake' = [handshake EXCEPT ![c] = h] /\ h \in Handshake /\ h.step # "none" /\ h.dims \in Sizes
  <2>1. CASE RS!Handshake(c)
    <3>1. PICK s \in {"size", "screen", "replay", "done", "failed"} : handshake' = [handshake EXCEPT ![c].step = s]
      BY <2>1 DEF RS!Handshake, RS!HandshakePty, RS!HandshakeSize, RS!HandshakeScreen, RS!HandshakeReplay, RS!Step
    <3>2. handshake[c].step # "none"
      BY <2>1 DEF RS!Handshake, RS!HandshakePty, RS!HandshakeSize, RS!HandshakeScreen, RS!HandshakeReplay
    <3>3. LET h == [handshake[c] EXCEPT !.step = s] IN h \in Handshake /\ h.step # "none" /\ h.dims \in Sizes
      BY <1>0, <3>2 DEF Handshake, ResizeTypes
    <3>. QED
      BY <3>1, <3>3
  <2>2. CASE \E d \in Sizes : RS!SnapshotRequest(c, d)
    <3>1. PICK d \in Sizes : handshake' = [handshake EXCEPT ![c] = [step |-> "pty", dims |-> d]]
      BY <2>2 DEF RS!SnapshotRequest
    <3>2. LET h == [step |-> "pty", dims |-> d] IN h \in Handshake /\ h.step # "none" /\ h.dims \in Sizes
      BY DEF Handshake
    <3>. QED
      BY <3>1, <3>2
  <2>. QED
    BY <2>1, <2>2
<1>2. handshake' \in [Clients -> Handshake] /\ handshake'[c] = h /\ \A d \in Clients \ {c} : handshake'[d] = handshake[d]
  BY <1>1 DEF ResizeTypes
<1>3. pty' \in Sizes /\ size' \in Sizes /\ screen' \in Sizes
  BY DEF RS!Handshake, RS!SnapshotRequest, RS!HandshakePty, RS!HandshakeSize, RS!HandshakeScreen, RS!HandshakeReplay,
         RS!sizeVars, ResizeTypes
<1>4. DOMAIN replay' = Clients /\ \A d \in Clients : replay'[d] # None => {replay'[d].said, replay'[d].drawn} \subseteq Sizes
  <2>1. CASE UNCHANGED replay
    BY <2>1 DEF ResizeTypes
  <2>2. CASE handshake[c].step = "replay" /\ replay' = [replay EXCEPT ![c] = [said |-> handshake[c].dims, drawn |-> screen]]
    BY <2>2 DEF ResizeTypes
  <2>. QED
    BY <2>1, <2>2 DEF RS!Handshake, RS!SnapshotRequest, RS!HandshakePty, RS!HandshakeSize, RS!HandshakeScreen, RS!HandshakeReplay
<1>5. ResizeTypes'
  BY <1>0, <1>1, <1>2, <1>3, <1>4 DEF ResizeTypes, Debounce, RS!Request
<1>6. ~NobodyShakes'
  BY <1>1, <1>2 DEF NobodyShakes
<1>7. DebounceInv'
  BY <1>0, <1>6 DEF DebounceInv
<1>. QED
  BY <1>5, <1>7

\* The debounce task loses no request: unless a snapshot request resizes too, a local
\* session comes to rest at the last size that was asked for by a client that is still
\* there, on the screen and in Session.size, however resizes, joins and leaves interleave
\* and whether or not the writer holds the backend (pty.rs, Session::resize).
THEOREM LastResizeWins ==
    ASSUME ResizeAssumption
    PROVE  RS!Spec => [](RS!TypeOK /\ RS!RestsAtLastRequest)
<1>1. ASSUME ResizeTypes /\ DebounceInv, [RS!Next]_(RS!vars) PROVE (ResizeTypes /\ DebounceInv)'
  <2>1. CASE RS!Next
    BY <1>1, <2>1, ResizeAsked, ResizeDebounces, ResizeShakes DEF RS!Next
  <2>2. CASE UNCHANGED RS!vars
    <3>1. UNCHANGED <<pty, size, screen, writing, joined, request, changed, debounce, handshake, replay>>
      BY <2>2 DEF RS!vars, RS!sizeVars, RS!writerVars, RS!requestVars
    <3>2. ResizeTypes'
      BY <1>1, <3>1 DEF ResizeTypes, Debounce, Handshake, RS!Request
    <3>3. DebounceInv'
      BY <1>1, <3>1 DEF DebounceInv, NobodyShakes
    <3>. QED
      BY <3>2, <3>3
  <2>. QED
    BY <1>1, <2>1, <2>2
<1>2. ASSUME ResizeTypes, DebounceInv PROVE RS!TypeOK /\ RS!RestsAtLastRequest
  <2>1. RS!TypeOK
    BY <1>2 DEF ResizeTypes, RS!TypeOK, Debounce, Handshake
  <2>2. RS!RestsAtLastRequest
    BY <1>2 DEF DebounceInv, NobodyShakes, RS!RestsAtLastRequest, RS!Settled, RS!Quiet
  <2>. QED
    BY <2>1, <2>2
<1>. QED
  BY <1>1, <1>2, ResizeInit, PTL DEF RS!Spec

-----------------------------------------------------------------------------
(* Runs of a command, and the screen that tells when it has ended.         *)

CONSTANTS Runs, MaxCommands
VARIABLES host, marks, input, current, tracking, results, quiet, prompt, run, alone

CT == INSTANCE CommandTracking

ResultOf == [of : CT!Commands, method : {"shell_integration", "interrupted"}]
CommandRun == [pc : {"new", "waiting", "drained", "answered"}, cmd : CT!Commands, of : CT!Commands,
               out : SUBSET CT!Commands,
               method : {"none", "shell_integration", "interrupted", "prompt_detection", "timeout"}]

TrackTypes ==
    /\ typed \in CT!Commands /\ input \in Seq(CT!Commands)
    /\ current \in {<<>>} \cup {<<c>> : c \in CT!Commands} /\ ended \subseteq CT!Commands
    /\ pending \in {<<>>} \cup {<<S>> : S \in SUBSET CT!Commands}
    /\ results \in Seq(ResultOf) /\ (host = "local" => results = <<>>)
    /\ run \in [Runs -> CommandRun] /\ alone \subseteq Runs
    /\ host = "local" => \A r \in Runs : run[r].pc # "drained"

\* A run that has a local shell for itself: its command is the only one that is typed or
\* runs, and until it has ended the screen is tracking.
AloneRunInv == host = "local" => \A r \in alone :
    /\ run[r].pc \in {"waiting", "answered"}
    /\ run[r].pc = "waiting" =>
         /\ tracking \/ run[r].cmd \in ended
         /\ \A q \in Runs \ {r} : run[q].pc \in {"new", "answered"}
         /\ \/ current = <<>> /\ input = <<run[r].cmd>>
            \/ current = <<run[r].cmd>> /\ input = <<>>
            \/ run[r].cmd \in ended
    /\ run[r].pc = "answered" /\ run[r].method # "timeout" => run[r].cmd \in ended

TrackInv == TrackTypes /\ AloneRunInv

\* What the shell writes is fed to the screen.
LEMMA TrackShell ==
    ASSUME MaxCommands \in Nat, TrackInv, CT!StartCommand \/ CT!WriteOutput \/ CT!EndCommand
    PROVE  TrackInv'
<1>0. /\ TrackTypes /\ AloneRunInv /\ CT!Commands' = CT!Commands
  BY DEF TrackInv, CT!Commands
<1>1. UNCHANGED <<host, marks, typed, run, alone>>
  BY DEF CT!StartCommand, CT!WriteOutput, CT!EndCommand, CT!shellVars
<1>2. ASSUME NEW c \in CT!Commands PROVE
        /\ CT!FeedText(c) => /\ pending' \in {<<>>} \cup {<<S>> : S \in SUBSET CT!Commands}
                             /\ tracking' = tracking /\ results' = results
        /\ CT!FeedPrompt(c) => /\ pending' \in {<<>>} \cup {<<S>> : S \in SUBSET CT!Commands}
                               /\ tracking' = tracking /\ results' = results
        /\ CT!FeedStart(c) => /\ pending' \in {<<>>} \cup {<<S>> : S \in SUBSET CT!Commands}
                              /\ tracking' = TRUE /\ results' \in Seq(ResultOf)
                              /\ host = "local" => results' = <<>>
        /\ CT!FeedEnd(c) => /\ pending' \in {<<>>} \cup {<<S>> : S \in SUBSET CT!Commands}
                            /\ results' \in Seq(ResultOf)
                            /\ host = "local" => results' = <<>>
  <2>1. CT!Collected(c) \in {<<>>} \cup {<<S>> : S \in SUBSET CT!Commands}
    <3>1. CASE pending = <<>>
      BY <3>1 DEF CT!Collected
    <3>2. ASSUME NEW S \in SUBSET CT!Commands, pending = <<S>>
          PROVE  CT!Collected(c) \in {<<>>} \cup {<<T>> : T \in SUBSET CT!Commands}
      <4>1. pending[1] \cup {c} \in SUBSET CT!Commands
        BY <3>2
      <4>. QED
        BY <3>2, <4>1 DEF CT!Collected
    <3>. QED
      BY <1>0, <3>1, <3>2 DEF TrackTypes
  <2>2. \A m \in {"shell_integration", "interrupted"} : Append(results, CT!Result(c, m)) \in Seq(ResultOf)
    BY <1>0 DEF TrackTypes, CT!Result, ResultOf
  <2>3. CASE CT!FeedText(c) \/ CT!FeedPrompt(c)
    <3>1. CT!FeedText(c) => pending' = CT!Collected(c) /\ UNCHANGED <<tracking, results>>
      BY DEF CT!FeedText
    <3>2. CT!FeedPrompt(c) => pending' = CT!Collected(c) /\ UNCHANGED <<tracking, results>>
      BY DEF CT!FeedPrompt
    <3>3. CT!FeedStart(c) => /\ results' = CT!Kept(IF tracking /\ pending # <<>>
                                                     THEN Append(results, CT!Result(c, "interrupted"))
                                                     ELSE results)
                             /\ tracking' = TRUE /\ pending' = <<{}>>
      BY DEF CT!FeedStart
    <3>4. CT!FeedEnd(c) => /\ results' = CT!Kept(Append(results, CT!Result(c, "shell_integration")))
                           /\ pending' = <<>>
      BY DEF CT!FeedEnd
    <3>. QED
      BY <1>0, <2>1, <2>2, <3>1, <3>2, <3>3, <3>4 DEF CT!Kept, TrackTypes
  <2>4. CASE CT!FeedStart(c) \/ CT!FeedEnd(c)
    <3>1. CT!FeedText(c) => pending' = CT!Collected(c) /\ UNCHANGED <<tracking, results>>
      BY DEF CT!FeedText
    <3>2. CT!FeedPrompt(c) => pending' = CT!Collected(c) /\ UNCHANGED <<tracking, results>>
      BY DEF CT!FeedPrompt
    <3>3. CT!FeedStart(c) => /\ results' = CT!Kept(IF tracking /\ pending # <<>>
                                                     THEN Append(results, CT!Result(c, "interrupted"))
                                                     ELSE results)
                             /\ tracking' = TRUE /\ pending' = <<{}>>
      BY DEF CT!FeedStart
    <3>4. CT!FeedEnd(c) => /\ results' = CT!Kept(Append(results, CT!Result(c, "shell_integration")))
                           /\ pending' = <<>>
      BY DEF CT!FeedEnd
    <3>. QED
      BY <1>0, <2>1, <2>2, <3>1, <3>2, <3>3, <3>4 DEF CT!Kept, TrackTypes
  <2>. QED
    BY <2>3, <2>4
<1>3. CASE CT!StartCommand
  <2>. DEFINE c == Head(input)
  <2>1. /\ current = <<>> /\ input # <<>> /\ current' = <<c>> /\ input' = Tail(input) /\ ended' = ended
        /\ IF marks /\ host = "local" THEN CT!FeedStart(c) ELSE CT!FeedText(c)
    BY <1>3 DEF CT!StartCommand
  <2>2. c \in CT!Commands /\ input' \in Seq(CT!Commands)
    BY <1>0, <2>1 DEF TrackTypes
  <2>3. \A k : input = <<k>> => c = k /\ input' = <<>>
    BY <1>0, <2>1
  <2>. HIDE DEF c
  <2>4. /\ pending' \in {<<>>} \cup {<<S>> : S \in SUBSET CT!Commands} /\ (tracking => tracking')
        /\ results' \in Seq(ResultOf)
        /\ host = "local" => results' = <<>>
    BY <1>0, <1>2, <2>1, <2>2 DEF TrackTypes
  <2>5. TrackTypes'
    BY <1>0, <1>1, <2>1, <2>2, <2>4 DEF TrackTypes
  <2>6. AloneRunInv'
    BY <1>0, <1>1, <2>1, <2>3, <2>4 DEF AloneRunInv
  <2>. QED
    BY <2>5, <2>6 DEF TrackInv
<1>4. CASE CT!WriteOutput
  <2>1. current # <<>> /\ CT!FeedText(current[1]) /\ UNCHANGED <<input, current, ended>>
    BY <1>4 DEF CT!WriteOutput, CT!shellVars
  <2>2. current[1] \in CT!Commands
    BY <1>0, <2>1 DEF TrackTypes
  <2>3. /\ pending' \in {<<>>} \cup {<<S>> : S \in SUBSET CT!Commands} /\ tracking' = tracking /\ results' = results
    BY <1>2, <2>1, <2>2
  <2>. QED
    BY <1>0, <1>1, <2>1, <2>3 DEF TrackInv, TrackTypes, AloneRunInv
<1>5. CASE CT!EndCommand
  <2>1. /\ current # <<>> /\ current' = <<>> /\ ended' = ended \cup {current[1]} /\ input' = input
        /\ IF marks THEN CT!FeedEnd(current[1]) ELSE CT!FeedPrompt(current[1])
    BY <1>5 DEF CT!EndCommand
  <2>2. current[1] \in CT!Commands /\ \A k : current = <<k>> => current[1] = k
    BY <1>0, <2>1 DEF TrackTypes
  <2>3. /\ pending' \in {<<>>} \cup {<<S>> : S \in SUBSET CT!Commands}
        /\ results' \in Seq(ResultOf)
        /\ host = "local" => results' = <<>>
    BY <1>0, <1>2, <2>1, <2>2 DEF TrackTypes
  <2>4. TrackTypes'
    BY <1>0, <1>1, <2>1, <2>2, <2>3 DEF TrackTypes
  <2>5. AloneRunInv'
    BY <1>0, <1>1, <2>1, <2>2 DEF AloneRunInv
  <2>. QED
    BY <2>4, <2>5 DEF TrackInv
<1>. QED
  BY <1>3, <1>4, <1>5

\* A run is begun, or the user types.
LEMMA TrackTyped ==
    ASSUME MaxCommands \in Nat, TrackInv, CT!Type \/ CT!Silence \/ \E r \in Runs : CT!Begin(r)
    PROVE  TrackInv'
<1>0. TrackTypes /\ AloneRunInv /\ CT!Commands' = CT!Commands /\ typed \in Nat
  BY DEF TrackInv, CT!Commands, TrackTypes
<1>1. CASE CT!Silence
  BY <1>0, <1>1 DEF CT!Silence, CT!shellVars, TrackInv, TrackTypes, AloneRunInv
<1>2. ASSUME typed < MaxCommands PROVE typed + 1 \in CT!Commands /\ Append(input, typed + 1) \in Seq(CT!Commands)
  BY <1>0, <1>2 DEF CT!Commands, TrackTypes
<1>3. CASE CT!Type
  <2>1. /\ typed < MaxCommands /\ typed' = typed + 1 /\ input' = Append(input, typed + 1) /\ alone' = {}
        /\ UNCHANGED <<host, marks, current, ended, tracking, pending, results, run>>
    BY <1>3 DEF CT!Type, CT!screenVars
  <2>. QED
    BY <1>0, <1>2, <2>1 DEF TrackInv, TrackTypes, AloneRunInv
<1>4. ASSUME NEW r \in Runs, CT!Begin(r) PROVE TrackInv'
  <2>1. /\ typed < MaxCommands /\ typed' = typed + 1 /\ input' = Append(input, typed + 1)
        /\ UNCHANGED <<host, marks, current, ended, results>> /\ tracking' = TRUE /\ pending' = <<{}>>
        /\ run' = [run EXCEPT ![r].pc = "waiting", ![r].cmd = typed + 1]
        /\ alone' = IF /\ current = <<>> /\ input = <<>>
                       /\ \A q \in Runs : run[q].pc \in {"new", "answered"}
                      THEN {r} ELSE {}
    BY <1>4 DEF CT!Begin, CT!BeginTracking
  <2>2. run[r] \in CommandRun
    BY <1>0 DEF TrackTypes
  <2>. DEFINE x == [run[r] EXCEPT !.pc = "waiting", !.cmd = typed + 1]
  <2>3. x \in CommandRun /\ x.pc = "waiting" /\ x.cmd = typed + 1 /\ run' = [run EXCEPT ![r] = x]
    BY <1>0, <1>2, <2>1, <2>2 DEF CommandRun, TrackTypes
  <2>. HIDE DEF x
  <2>4. run' \in [Runs -> CommandRun] /\ run'[r] = x /\ \A q \in Runs \ {r} : run'[q] = run[q]
    BY <1>0, <2>3 DEF TrackTypes
  <2>. DEFINE NoneDrained == host' = "local" => \A q \in Runs : run'[q].pc # "drained"
  <2>8. NoneDrained
    BY <1>0, <2>1, <2>3, <2>4 DEF TrackTypes
  <2>9. alone' \subseteq Runs /\ pending' \in {<<>>} \cup {<<S>> : S \in SUBSET CT!Commands}
    BY <2>1
  <2>5. TrackTypes'
    BY <1>0, <1>2, <2>1, <2>4, <2>8, <2>9 DEF TrackTypes
  <2>6. input = <<>> => input' = <<typed + 1>>
    BY <2>1
  <2>7. AloneRunInv'
    BY <2>1, <2>3, <2>4, <2>6 DEF AloneRunInv
  <2>. QED
    BY <2>5, <2>7 DEF TrackInv
<1>. QED
  BY <1>1, <1>3, <1>4

\* A run is answered.
LEMMA TrackAnswers ==
    ASSUME MaxCommands \in Nat, TrackInv, NEW r \in Runs,
           CT!Drain(r) \/ CT!TakeOutput(r) \/ CT!DetectPrompt(r) \/ CT!TimeOut(r)
    PROVE  TrackInv'
<1>0. TrackTypes /\ AloneRunInv /\ CT!Commands' = CT!Commands /\ run[r] \in CommandRun
  BY DEF TrackInv, CT!Commands, TrackTypes
<1>1. UNCHANGED <<host, marks, typed, input, current, ended, alone>>
  BY DEF CT!Drain, CT!TakeOutput, CT!DetectPrompt, CT!TimeOut, CT!shellVars
<1>2. CT!OutputOf(pending) \in SUBSET CT!Commands
  BY <1>0 DEF TrackTypes, CT!OutputOf
\* What is left to show when the run becomes x.
<1>3. ASSUME NEW x \in CommandRun, run' = [run EXCEPT ![r] = x], x.cmd = run[r].cmd,
             x.pc \in {"answered", "drained"}, run[r].pc \in {"waiting", "drained"},
             pending' \in {<<>>} \cup {<<S>> : S \in SUBSET CT!Commands},
             results' \in {results, <<>>},
             host = "local" => run[r].pc = "waiting" /\ x.pc = "answered",
             host = "local" => (r \in alone /\ x.method # "timeout" => run[r].cmd \in ended)
      PROVE  TrackInv'
  <2>1. run' \in [Runs -> CommandRun] /\ run'[r] = x /\ \A q \in Runs \ {r} : run'[q] = run[q]
    BY <1>0, <1>3 DEF TrackTypes
  <2>4. host' = "local" => \A q \in Runs : run'[q].pc # "drained"
    BY <1>0, <1>1, <1>3, <2>1 DEF TrackTypes
  <2>5. results' \in Seq(ResultOf) /\ (host' = "local" => results' = <<>>)
    <3>1. results \in Seq(ResultOf) /\ (host = "local" => results = <<>>) /\ <<>> \in Seq(ResultOf)
      BY <1>0 DEF TrackTypes
    <3>2. results' = results \/ results' = <<>>
      BY <1>3
    <3>3. host' = host
      BY <1>1
    <3>. QED
      BY <3>1, <3>2, <3>3
  <2>2. TrackTypes'
    BY <1>0, <1>1, <1>3, <2>1, <2>4, <2>5 DEF TrackTypes
  <2>3. AloneRunInv'
    <3>. SUFFICES ASSUME host = "local", NEW a \in alone
                  PROVE  /\ run'[a].pc \in {"waiting", "answered"}
                         /\ run'[a].pc # "waiting"
                         /\ run'[a].pc = "answered" /\ run'[a].method # "timeout" => run'[a].cmd \in ended
      BY <1>1 DEF AloneRunInv
    <3>0. host = "local" /\ a \in Runs
      BY <1>0 DEF TrackTypes
    <3>1. a # r => run[a].pc = "answered"
      BY <1>0, <1>3, <3>0 DEF AloneRunInv
    <3>2. CASE a = r
      BY <1>3, <2>1, <3>2
    <3>3. CASE a # r
      <4>1. run'[a] = run[a]
        BY <2>1, <3>0, <3>3
      <4>. QED
        BY <1>0, <3>0, <3>1, <3>3, <4>1 DEF AloneRunInv
    <3>. QED
      BY <3>1, <3>2, <3>3
  <2>. QED
    BY <2>2, <2>3 DEF TrackInv
<1>4. CASE CT!Drain(r)
  <2>1. /\ run[r].pc = "waiting" /\ results # <<>> /\ results' = <<>> /\ pending' = pending
        /\ run' = [run EXCEPT ![r].pc = "drained", ![r].of = Head(results).of, ![r].method = Head(results).method]
    BY <1>4 DEF CT!Drain
  <2>2. host # "local" /\ Head(results) \in ResultOf
    BY <1>0, <2>1 DEF TrackTypes
  <2>. DEFINE x == [run[r] EXCEPT !.pc = "drained", !.of = Head(results).of, !.method = Head(results).method]
  <2>3. x \in CommandRun /\ x.pc = "drained" /\ x.cmd = run[r].cmd /\ run' = [run EXCEPT ![r] = x]
    BY <1>0, <2>1, <2>2 DEF CommandRun, ResultOf, TrackTypes
  <2>. HIDE DEF x
  <2>4. pending' \in {<<>>} \cup {<<S>> : S \in SUBSET CT!Commands}
    BY <1>0, <2>1 DEF TrackTypes
  <2>. QED
    BY <1>3, <2>1, <2>2, <2>3, <2>4
<1>5. ASSUME NEW o \in CT!Commands, NEW collected \in SUBSET CT!Commands,
             NEW m \in {"shell_integration", "interrupted", "none", "prompt_detection", "timeout"},
             CT!Answer(r, o, collected, m), run[r].pc \in {"waiting", "drained"},
             pending' \in {<<>>} \cup {<<S>> : S \in SUBSET CT!Commands}, results' = results,
             host = "local" => run[r].pc = "waiting",
             host = "local" => (r \in alone /\ m # "timeout" => run[r].cmd \in ended)
      PROVE  TrackInv'
  <2>. DEFINE x == [run[r] EXCEPT !.pc = "answered", !.of = o, !.out = collected, !.method = m]
  <2>1. x \in CommandRun /\ x.pc = "answered" /\ x.cmd = run[r].cmd /\ x.method = m
    BY <1>0 DEF CommandRun
  <2>2. run' = [run EXCEPT ![r] = x]
    BY <1>0, <1>5 DEF CT!Answer, TrackTypes
  <2>. HIDE DEF x
  <2>. QED
    BY <1>3, <1>5, <2>1, <2>2
<1>6. /\ run[r].cmd \in CT!Commands /\ run[r].of \in CT!Commands
      /\ run[r].method \in {"shell_integration", "interrupted", "none", "prompt_detection", "timeout"}
      /\ pending \in {<<>>} \cup {<<S>> : S \in SUBSET CT!Commands}
      /\ {} \in SUBSET CT!Commands
  BY <1>0 DEF CommandRun, TrackTypes
<1>7. CASE CT!TakeOutput(r)
  <2>1. /\ run[r].pc = "drained" /\ CT!Answer(r, run[r].of, CT!OutputOf(pending), run[r].method)
        /\ pending' \in {<<>>, <<{}>>} /\ results' = results
    BY <1>7 DEF CT!TakeOutput
  <2>2. host # "local"
    BY <1>0, <2>1 DEF TrackTypes
  <2>3. pending' \in {<<>>} \cup {<<S>> : S \in SUBSET CT!Commands}
    BY <1>6, <2>1
  <2>. QED
    BY <1>2, <1>5, <1>6, <2>1, <2>2, <2>3
<1>8. CASE CT!DetectPrompt(r)
  <2>1. /\ run[r].pc = "waiting" /\ ~tracking /\ CT!Answer(r, run[r].cmd, {}, "prompt_detection")
        /\ pending' = <<>> /\ results' = results
    BY <1>8 DEF CT!DetectPrompt
  <2>2. host = "local" => (r \in alone => run[r].cmd \in ended)
    BY <1>0, <2>1 DEF AloneRunInv
  <2>. QED
    BY <1>5, <1>6, <2>1, <2>2
<1>9. CASE CT!TimeOut(r)
  <2>1. /\ run[r].pc = "waiting" /\ CT!Answer(r, run[r].cmd, CT!OutputOf(pending), "timeout")
        /\ pending' = <<>> /\ results' = results
    BY <1>9 DEF CT!TimeOut
  <2>. QED
    BY <1>2, <1>5, <1>6, <2>1
<1>. QED
  BY <1>4, <1>7, <1>8, <1>9

\* A command on a local shell that the run has for itself is not reported to have ended
\* before it has (the answer of POST /api/sessions/:pane/run), other than by a timeout.
THEOREM AnswersComeAfterTheEnd ==
    ASSUME CT!MaxCommandsAssumption
    PROVE  CT!Spec => [](CT!TypeOK /\ CT!NotBeforeItsEnd)
<1>0. MaxCommands \in Nat
  BY DEF CT!MaxCommandsAssumption
<1>1. CT!Init => TrackInv
  <2>. SUFFICES ASSUME CT!Init PROVE TrackInv
    OBVIOUS
  <2>1. /\ typed = 0 /\ input = <<>> /\ current = <<0>> /\ ended = {} /\ pending = <<>> /\ results = <<>>
        /\ run = [r \in Runs |-> CT!NoRun] /\ alone = {}
    BY DEF CT!Init
  <2>2. 0 \in CT!Commands /\ CT!NoRun \in CommandRun /\ CT!NoRun.pc = "new"
    BY <1>0 DEF CT!Commands, CT!NoRun, CommandRun
  <2>. QED
    BY <2>1, <2>2 DEF TrackInv, TrackTypes, AloneRunInv
<1>2. TrackInv /\ [CT!Next]_(CT!vars) => TrackInv'
  <2>. SUFFICES ASSUME TrackInv, [CT!Next]_(CT!vars) PROVE TrackInv'
    OBVIOUS
  <2>1. CASE CT!StartCommand \/ CT!WriteOutput \/ CT!EndCommand
    BY <1>0, <2>1, TrackShell
  <2>2. CASE CT!Type \/ CT!Silence \/ \E r \in Runs : CT!Begin(r)
    BY <1>0, <2>2, TrackTyped
  <2>3. ASSUME NEW r \in Runs, CT!Drain(r) \/ CT!TakeOutput(r) \/ CT!DetectPrompt(r) \/ CT!TimeOut(r)
        PROVE  TrackInv'
    BY <1>0, <2>3, TrackAnswers, Zenon
  <2>4. CASE UNCHANGED CT!vars
    BY <2>4 DEF CT!vars, CT!shellVars, CT!screenVars, TrackInv, TrackTypes, AloneRunInv, CT!Commands
  <2>. QED
    BY <2>1, <2>2, <2>3, <2>4 DEF CT!Next
<1>3. TrackInv => CT!TypeOK /\ CT!NotBeforeItsEnd
  <2>. SUFFICES ASSUME TrackInv PROVE CT!TypeOK /\ CT!NotBeforeItsEnd
    OBVIOUS
  <2>1. TrackTypes /\ AloneRunInv
    BY DEF TrackInv
  <2>2. \A i \in DOMAIN results : results[i] \in ResultOf
    BY <2>1 DEF TrackTypes
  <2>3. \A r \in Runs : run[r] \in CommandRun
    BY <2>1 DEF TrackTypes
  <2>4. \A r \in Runs : run[r].cmd \in CT!Commands /\ run[r].out \subseteq CT!Commands
    BY <2>3 DEF CommandRun
  <2>5. CT!TypeOK
    BY <2>1, <2>2, <2>4 DEF TrackTypes, CT!TypeOK, ResultOf
  <2>6. CT!NotBeforeItsEnd
    BY <2>1 DEF AloneRunInv, CT!NotBeforeItsEnd
  <2>. QED
    BY <2>5, <2>6
<1>. QED
  BY <1>1, <1>2, <1>3, PTL DEF CT!Spec

-----------------------------------------------------------------------------
(* The screen of a session.                                                *)

CONSTANTS Heights, Widths, Limit, MaxLines
VARIABLES rows, cols, buf, shown, scrollback, saved, line, open, plain, stale, cramped, fault

VS == INSTANCE VirtualScreen

ScreenAssumption == VS!SizeAssumption /\ Limit \in Nat /\ MaxLines \in Nat

\* A cursor that is too old was restored, or a size too small was asked or printed on.
Strayed == stale \/ cramped

Screens     == {"primary", "alternate"}
Buffer      == [cells : Seq(Nat), row : Nat, col : Nat, top : Nat, bottom : Nat]
SavedCursor == [row : Nat, col : Nat, old : BOOLEAN]

\* The region of a buffer and its rows are those of the screen; its cursor is on it, or behind
\* the last column.
Fits(s)   == s \in Buffer /\ Len(s.cells) = rows /\ s.top < rows /\ s.bottom < rows
Within(s) == s.row < rows /\ s.col <= cols

ScreenTypes ==
    /\ rows \in Heights \ {0} /\ cols \in Widths \ {0} /\ shown \in Screens
    /\ DOMAIN buf = Screens /\ buf = [b \in Screens |-> buf[b]] /\ \A b \in Screens : Fits(buf[b])
    /\ saved = None \/ saved \in SavedCursor
    /\ scrollback \in Seq(Nat) /\ Len(scrollback) <= Limit /\ line \in 0 .. MaxLines

\* Until a cursor is restored that was saved before a resize, and a wide character is printed
\* on one column or a size of nothing is asked, the cursors are on the screen: those of both
\* buffers, and the saved one if it is not that old.
CursorInv ==
    ~Strayed => /\ ~fault
                /\ \A b \in Screens : Within(buf[b])
                /\ saved # None => saved.old \/ Within(saved)

ScreenInv == ScreenTypes /\ CursorInv

LEMMA ScreenSizes ==
    ASSUME ScreenAssumption, ScreenInv
    PROVE  rows \in Nat /\ rows >= 1 /\ cols \in Nat /\ cols >= 1
BY DEF ScreenAssumption, VS!SizeAssumption, ScreenInv, ScreenTypes

\* A row is taken out and a blank one put in: the buffer keeps its height.
LEMMA RowsMove ==
    ASSUME NEW q \in Seq(Nat), NEW i \in 1 .. Len(q), NEW j \in 1 .. Len(q)
    PROVE  LET m == VS!InsertAt(VS!RemoveAt(q, i), j, VS!Blank) IN m \in Seq(Nat) /\ Len(m) = Len(q)
<1>. DEFINE a == SubSeq(q, 1, i - 1)
            b == SubSeq(q, i + 1, Len(q))
            r == a \o b
            c == SubSeq(r, 1, j - 1)
            d == SubSeq(r, j, Len(r))
<1>1. a \in Seq(Nat) /\ Len(a) = i - 1 /\ b \in Seq(Nat) /\ Len(b) = Len(q) - i
  OBVIOUS
<1>2. r = VS!RemoveAt(q, i)
  BY DEF VS!RemoveAt
<1>. HIDE DEF a, b
<1>3. r \in Seq(Nat) /\ Len(r) = Len(q) - 1
  BY <1>1
<1>. HIDE DEF r
<1>4. c \in Seq(Nat) /\ Len(c) = j - 1 /\ d \in Seq(Nat) /\ Len(d) = Len(q) - j
  <2>1. c \in Seq(Nat) /\ Len(c) = j - 1
    BY <1>3
  <2>2. d \in Seq(Nat) /\ Len(d) = Len(q) - j
    <3>1. j \in Nat /\ j >= 1 /\ Len(r) \in Nat
      BY <1>3
    <3>2. \A k \in 1 .. Len(r) : r[k] \in Nat
      BY <1>3, ElementOfSeq
    <3>3. j \in Int /\ Len(r) \in Int /\ \A k \in j .. Len(r) : r[k] \in Nat
      BY <3>1, <3>2
    <3>4. d \in Seq(Nat) /\ Len(d) = IF j <= Len(r) THEN Len(r) - j + 1 ELSE 0
      BY <3>3, SubSeqProperties
    <3>. QED
      BY <1>3, <3>4
  <2>. QED
    BY <2>1, <2>2
<1>5. VS!InsertAt(r, j, VS!Blank) = (c \o <<0>>) \o d
  BY DEF VS!InsertAt, VS!Blank
<1>. HIDE DEF c, d
<1>. DEFINE e == c \o <<0>>
<1>6. e \in Seq(Nat) /\ Len(e) = j
  BY <1>4
<1>. HIDE DEF e
<1>7. e \o d \in Seq(Nat) /\ Len(e \o d) = Len(q)
  <2>1. Len(q) \in Nat /\ j \in Nat
    OBVIOUS
  <2>2. e \o d \in Seq(Nat) /\ Len(e \o d) = Len(e) + Len(d)
    BY <1>4, <1>6, ConcatProperties
  <2>. QED
    BY <1>4, <1>6, <2>1, <2>2
<1>. QED
  BY <1>2, <1>5, <1>7 DEF e

LEMMA PushedStaysWithin ==
    ASSUME Limit \in Nat, NEW q \in Seq(Nat), NEW rs \in Seq(Nat)
    PROVE  VS!Pushed(q, rs) \in Seq(Nat) /\ Len(VS!Pushed(q, rs)) <= Limit
<1>. DEFINE all == q \o rs
            off == IF Len(all) > Limit THEN Len(all) - Limit ELSE 0
<1>1. all \in Seq(Nat) /\ Len(all) \in Nat
  OBVIOUS
<1>. HIDE DEF all
<1>2. off \in Nat /\ off <= Len(all) /\ Len(all) - off <= Limit
  BY <1>1
<1>. HIDE DEF off
<1>3. SubSeq(all, 1 + off, Len(all)) \in Seq(Nat) /\ Len(SubSeq(all, 1 + off, Len(all))) = Len(all) - off
  BY <1>1, <1>2
<1>. QED
  BY <1>2, <1>3 DEF VS!Pushed, all, off

\* A step that changes one buffer.
LEMMA OneBufferChanges ==
    ASSUME ScreenInv, NEW b \in Screens, NEW s, Fits(s), buf' = [buf EXCEPT ![b] = s],
           UNCHANGED <<rows, cols>>, shown' \in Screens,
           saved' = None \/ saved' \in SavedCursor,
           scrollback' \in Seq(Nat), Len(scrollback') <= Limit, line' \in 0 .. MaxLines,
           fault' = fault,
           ~Strayed' => ~Strayed /\ Within(s) /\ (saved' = saved \/ Within(saved'))
    PROVE  ScreenInv'
<1>1. DOMAIN buf = Screens /\ buf = [c \in Screens |-> buf[c]] /\ (\A c \in Screens : Fits(buf[c]))
  BY DEF ScreenInv, ScreenTypes
<1>2. /\ DOMAIN buf' = Screens /\ buf' = [c \in Screens |-> buf'[c]] /\ buf'[b] = s
      /\ \A c \in Screens \ {b} : buf'[c] = buf[c]
  BY <1>1
<1>3. ScreenTypes'
  BY <1>1, <1>2 DEF ScreenInv, ScreenTypes, Fits
<1>4. CursorInv'
  BY <1>2 DEF ScreenInv, CursorInv, Strayed, Within
<1>. QED
  BY <1>3, <1>4 DEF ScreenInv

LEMMA ScrolledFits ==
    ASSUME ScreenAssumption, ScreenInv, NEW s, Fits(s), NEW sb \in Seq(Nat), Len(sb) <= Limit
    PROVE  /\ Fits(VS!ScrolledUp(s)) /\ VS!ScrolledUp(s).row = s.row /\ VS!ScrolledUp(s).col = s.col
           /\ Fits(VS!ScrolledDown(s)) /\ VS!ScrolledDown(s).row = s.row /\ VS!ScrolledDown(s).col = s.col
           /\ VS!ScrolledOff(s, sb) \in Seq(Nat) /\ Len(VS!ScrolledOff(s, sb)) <= Limit
<1>1. /\ s \in Buffer /\ s.cells \in Seq(Nat) /\ Len(s.cells) = rows /\ s.top \in Nat /\ s.bottom \in Nat
      /\ s.top < rows /\ s.bottom < rows
  BY DEF Fits, Buffer
<1>2. rows \in Nat /\ rows >= 1
  BY ScreenSizes
<1>3. s.top + 1 \in 1 .. Len(s.cells) /\ s.bottom + 1 \in 1 .. Len(s.cells)
  BY <1>1, <1>2
<1>. DEFINE up   == VS!InsertAt(VS!RemoveAt(s.cells, s.top + 1), s.bottom + 1, VS!Blank)
            down == VS!InsertAt(VS!RemoveAt(s.cells, s.bottom + 1), s.top + 1, VS!Blank)
<1>4. up \in Seq(Nat) /\ Len(up) = rows /\ down \in Seq(Nat) /\ Len(down) = rows
  BY <1>1, <1>3, RowsMove
<1>5. VS!ScrolledUp(s) = [s EXCEPT !.cells = up] /\ VS!ScrolledDown(s) = [s EXCEPT !.cells = down]
  BY DEF VS!ScrolledUp, VS!ScrolledDown
<1>. HIDE DEF up, down
<1>6. \A q \in Seq(Nat) : Len(q) = rows =>
        Fits([s EXCEPT !.cells = q]) /\ [s EXCEPT !.cells = q].row = s.row /\ [s EXCEPT !.cells = q].col = s.col
  BY <1>1 DEF Fits, Buffer
<1>7. VS!ScrolledOff(s, sb) \in Seq(Nat) /\ Len(VS!ScrolledOff(s, sb)) <= Limit
  <2>1. Head(s.cells) \in Nat
    BY <1>1, <1>2
  <2>2. <<Head(s.cells)>> \in Seq(Nat)
    BY <2>1
  <2>3. Limit \in Nat
    BY DEF ScreenAssumption
  <2>4. VS!Pushed(sb, <<Head(s.cells)>>) \in Seq(Nat) /\ Len(VS!Pushed(sb, <<Head(s.cells)>>)) <= Limit
    BY <2>2, <2>3, PushedStaysWithin
  <2>. QED
    BY <2>3, <2>4 DEF VS!ScrolledOff
<1>. QED
  BY <1>4, <1>5, <1>6, <1>7

LEMMA DownFits ==
    ASSUME ScreenAssumption, ScreenInv, NEW s, Fits(s), NEW sb \in Seq(Nat), Len(sb) <= Limit
    PROVE  /\ Fits(VS!Down(s)) /\ (Within(s) => Within(VS!Down(s))) /\ VS!Down(s).col = s.col
           /\ VS!DownOff(s, sb) \in Seq(Nat) /\ Len(VS!DownOff(s, sb)) <= Limit
<1>1. /\ s \in Buffer /\ s.row \in Nat /\ s.bottom \in Nat /\ s.bottom < rows /\ rows \in Nat
  BY ScreenSizes DEF Fits, Buffer
<1>2. VS!DownOff(s, sb) \in Seq(Nat) /\ Len(VS!DownOff(s, sb)) <= Limit
  BY ScrolledFits DEF VS!DownOff
<1>3. CASE s.row + 1 > s.bottom
  <2>. DEFINE t == [s EXCEPT !.row = s.bottom]
  <2>1. Fits(t) /\ t.row = s.bottom /\ t.col = s.col
    BY <1>1 DEF Fits, Buffer
  <2>2. VS!Down(s) = VS!ScrolledUp(t)
    BY <1>3 DEF VS!Down
  <2>. HIDE DEF t
  <2>3. Fits(VS!ScrolledUp(t)) /\ VS!ScrolledUp(t).row = s.bottom /\ VS!ScrolledUp(t).col = s.col
    BY <2>1, ScrolledFits
  <2>. QED
    BY <1>1, <1>2, <2>2, <2>3 DEF Within
<1>4. CASE ~(s.row + 1 > s.bottom)
  <2>. DEFINE t == [s EXCEPT !.row = s.row + 1]
  <2>1. Fits(t) /\ t.row = s.row + 1 /\ t.col = s.col
    BY <1>1 DEF Fits, Buffer
  <2>2. VS!Down(s) = t
    BY <1>4 DEF VS!Down
  <2>. QED
    BY <1>1, <1>2, <1>4, <2>1, <2>2 DEF Within
<1>. QED
  BY <1>3, <1>4

\* Output and what moves the rows of the screen.
LEMMA ScreenWrites ==
    ASSUME ScreenAssumption, ScreenInv,
           VS!NewLine \/ VS!Scroll \/ \E width \in {1, 2} : VS!PutChar(width)
    PROVE  ScreenInv'
<1>. DEFINE s == buf[shown]
<1>0. /\ shown \in Screens /\ Fits(s) /\ s \in Buffer /\ VS!cur = s
      /\ saved = None \/ saved \in SavedCursor
      /\ scrollback \in Seq(Nat) /\ Len(scrollback) <= Limit /\ line \in 0 .. MaxLines
      /\ ~Strayed => Within(s)
  BY DEF ScreenInv, ScreenTypes, CursorInv, VS!cur, Fits
<1>1. rows \in Nat /\ rows >= 1 /\ cols \in Nat /\ cols >= 1 /\ MaxLines \in Nat
  BY ScreenSizes DEF ScreenAssumption
\* The cursor goes to the first column.
<1>. DEFINE z == [s EXCEPT !.col = 0]
<1>2. Fits(z) /\ z.row = s.row /\ z.col = 0
  BY <1>0 DEF Fits, Buffer
<1>3. Within(s) => Within(z)
  BY <1>1, <1>2 DEF Within
<1>. HIDE DEF z
<1>4. Fits(VS!Down(z)) /\ (Within(z) => Within(VS!Down(z))) /\ VS!Down(z).col = 0
  BY <1>0, <1>2, DownFits
<1>5. /\ VS!DownOff(s, scrollback) \in Seq(Nat) /\ Len(VS!DownOff(s, scrollback)) <= Limit
      /\ VS!DownOff(z, scrollback) \in Seq(Nat) /\ Len(VS!DownOff(z, scrollback)) <= Limit
  BY <1>0, <1>2, DownFits
<1>6. CASE VS!NewLine
  <2>1. /\ buf' = [buf EXCEPT ![shown] = VS!Down(z)] /\ scrollback' = VS!DownOff(s, scrollback)
        /\ UNCHANGED <<rows, cols, shown, saved, line, stale, cramped, fault>>
    BY <1>0, <1>6 DEF VS!NewLine, VS!sizeVars, z
  <2>. HIDE DEF s
  <2>. QED
    BY <1>0, <1>3, <1>4, <1>5, <2>1, OneBufferChanges DEF Strayed
<1>7. CASE VS!Scroll
  <2>. DEFINE up == VS!ScrolledUp(s)
              down == VS!ScrolledDown(s)
              off == VS!ScrolledOff(s, scrollback)
  <2>1. /\ UNCHANGED <<rows, cols, shown, saved, line, stale, cramped, fault>>
        /\ \/ buf' = [buf EXCEPT ![shown] = up] /\ scrollback' = off
           \/ buf' = [buf EXCEPT ![shown] = down] /\ scrollback' = scrollback
    BY <1>0, <1>7 DEF VS!Scroll, VS!Becomes, VS!sizeVars
  <2>2. /\ Fits(up) /\ up.row = s.row /\ up.col = s.col
        /\ Fits(down) /\ down.row = s.row /\ down.col = s.col
        /\ off \in Seq(Nat) /\ Len(off) <= Limit
    BY <1>0, ScrolledFits
  <2>. HIDE DEF s, up, down, off
  <2>3. ~Strayed => Within(up) /\ Within(down)
    BY <1>0, <2>2 DEF Within
  <2>4. CASE buf' = [buf EXCEPT ![shown] = up] /\ scrollback' = off
    BY <1>0, <2>1, <2>2, <2>3, <2>4, OneBufferChanges DEF Strayed
  <2>5. CASE buf' = [buf EXCEPT ![shown] = down] /\ scrollback' = scrollback
    BY <1>0, <2>1, <2>2, <2>3, <2>5, OneBufferChanges DEF Strayed
  <2>. QED
    BY <2>1, <2>4, <2>5
<1>8. ASSUME NEW width \in {1, 2}, VS!PutChar(width) PROVE ScreenInv'
  <2>. DEFINE wraps  == s.col >= cols \/ (width = 2 /\ s.col + 1 >= cols)
              again  == width = 2 /\ cols = 1 /\ s.col >= cols
              t      == IF again THEN VS!Down(VS!Down(z)) ELSE IF wraps THEN VS!Down(z) ELSE s
              off    == IF wraps THEN VS!DownOff(z, scrollback) ELSE scrollback
              starts == shown = "primary" /\ (wraps \/ ~open)
              text   == IF shown = "alternate" THEN VS!AltText
                        ELSE IF starts THEN line + 1 ELSE line
              cells  == [i \in DOMAIN t.cells |->
                            IF i = t.row + 1 /\ t.col < cols THEN text ELSE t.cells[i]]
              x      == [t EXCEPT !.col = t.col + width, !.cells = cells]
  <2>1. /\ starts => line < MaxLines
        /\ buf' = [buf EXCEPT ![shown] = x]
        /\ scrollback' = IF again THEN VS!DownOff(VS!Down(z), off) ELSE off
        /\ line' = IF starts THEN line + 1 ELSE line
        /\ cramped' = (cramped \/ (width = 2 /\ cols = 1))
        /\ UNCHANGED <<rows, cols, shown, saved, stale, fault>>
    BY <1>0, <1>8 DEF VS!PutChar, VS!sizeVars, z
  <2>2. /\ Fits(t) /\ (~Strayed => Within(t)) /\ t \in Buffer
        /\ ~wraps /\ ~again => t.col = s.col
        /\ wraps \/ again => t.col = 0
    <3>1. Within(VS!Down(z)) => Within(VS!Down(VS!Down(z)))
      BY <1>0, <1>4, DownFits
    <3>2. Fits(VS!Down(VS!Down(z))) /\ VS!Down(VS!Down(z)).col = 0
      BY <1>0, <1>4, DownFits
    <3>. QED
      BY <1>0, <1>3, <1>4, <3>1, <3>2 DEF Fits
  <2>3. ~Strayed' => t.col + width <= cols
    <3>1. s.col \in Nat
      BY <1>0 DEF Buffer
    <3>2. ~Strayed' => ~(width = 2 /\ cols = 1)
      BY <2>1, Zenon DEF Strayed
    <3>. HIDE DEF t
    <3>. QED
      BY <1>1, <2>2, <3>1, <3>2
  <2>4. text \in Nat
    BY <1>0, <1>1 DEF VS!AltText
  <2>5. line' \in 0 .. MaxLines
    BY <1>0, <1>1, <2>1
  <2>6. scrollback' \in Seq(Nat) /\ Len(scrollback') <= Limit
    <3>1. off \in Seq(Nat) /\ Len(off) <= Limit
      BY <1>0, <1>5
    <3>. HIDE DEF off
    <3>2. VS!DownOff(VS!Down(z), off) \in Seq(Nat) /\ Len(VS!DownOff(VS!Down(z), off)) <= Limit
      BY <1>4, <3>1, DownFits
    <3>. QED
      BY <2>1, <3>1, <3>2
  <2>. HIDE DEF s, t, text, starts, wraps, again, off
  <2>7. cells \in Seq(Nat) /\ Len(cells) = rows
    <3>1. t.cells \in Seq(Nat) /\ Len(t.cells) = rows
      BY <2>2 DEF Fits, Buffer
    <3>2. cells = [i \in 1 .. rows |-> IF i = t.row + 1 /\ t.col < cols THEN text ELSE t.cells[i]]
      BY <3>1
    <3>3. \A i \in 1 .. rows : (IF i = t.row + 1 /\ t.col < cols THEN text ELSE t.cells[i]) \in Nat
      BY <2>4, <3>1
    <3>. QED
      BY <1>1, <3>2, <3>3
  <2>. HIDE DEF cells
  <2>8. Fits(x) /\ x.row = t.row /\ x.col = t.col + width
    <3>1. t.col + width \in Nat
      BY <2>2 DEF Buffer
    <3>. DEFINE n == t.col + width
    <3>2. n \in Nat
      BY <3>1
    <3>. HIDE DEF n
    <3>3. LET y == [t EXCEPT !.col = n, !.cells = cells] IN Fits(y) /\ y.row = t.row /\ y.col = n
      BY <2>2, <2>7, <3>2 DEF Fits, Buffer
    <3>. QED
      BY <3>3 DEF n
  <2>. HIDE DEF x
  <2>9. ~Strayed' => ~Strayed /\ Within(x)
    BY <2>1, <2>2, <2>3, <2>8 DEF Within, Strayed
  <2>. QED
    BY <1>0, <2>1, <2>5, <2>6, <2>8, <2>9, OneBufferChanges DEF Strayed
<1>. QED
  BY <1>6, <1>7, <1>8

\* Cursor, region and what erases or moves rows at the cursor.
LEMMA ScreenEdits ==
    ASSUME ScreenAssumption, ScreenInv,
           VS!MoveCursor \/ VS!SetRegion \/ VS!Erase \/ VS!InsertLine \/ VS!DeleteLine
    PROVE  ScreenInv'
<1>. DEFINE s == buf[shown]
<1>0. /\ shown \in Screens /\ Fits(s) /\ s \in Buffer /\ VS!cur = s
      /\ saved = None \/ saved \in SavedCursor
      /\ scrollback \in Seq(Nat) /\ Len(scrollback) <= Limit /\ line \in 0 .. MaxLines
      /\ ~Strayed => Within(s)
  BY DEF ScreenInv, ScreenTypes, CursorInv, VS!cur, Fits
<1>1. rows \in Nat /\ rows >= 1 /\ cols \in Nat /\ cols >= 1
  BY ScreenSizes
<1>2. s.cells \in Seq(Nat) /\ Len(s.cells) = rows /\ s.row \in Nat /\ s.col \in Nat /\ s.bottom \in Nat /\ s.bottom < rows
  BY <1>0 DEF Fits, Buffer
<1>. HIDE DEF s
<1>3. ASSUME NEW x, VS!Becomes(x), scrollback' = scrollback, Fits(x), ~Strayed => Within(x), fault' = fault
      PROVE  ScreenInv'
  <2>1. /\ buf' = [buf EXCEPT ![shown] = x]
        /\ UNCHANGED <<rows, cols, shown, saved, line, stale, cramped, fault>>
    BY <1>3 DEF VS!Becomes, VS!sizeVars
  <2>. QED
    BY <1>0, <1>3, <2>1, OneBufferChanges DEF Strayed
<1>4. ASSUME NEW x, VS!Becomes(x) PROVE fault' = fault
  BY <1>4 DEF VS!Becomes
\* Where a cursor is that is off the screen, one was restored before.
<1>5. ASSUME VS!Fault, s.row >= rows \/ s.col > cols PROVE ScreenInv'
  <2>1. Strayed
    BY <1>0, <1>1, <1>2, <1>5 DEF Within
  <2>2. UNCHANGED <<rows, cols, buf, shown, scrollback, saved, line, stale, cramped>>
    BY <1>5 DEF VS!Fault, VS!sizeVars
  <2>. QED
    BY <2>1, <2>2 DEF ScreenInv, ScreenTypes, CursorInv, Strayed, Fits
<1>6. ASSUME NEW q \in Seq(Nat), Len(q) = rows
      PROVE  LET x == [s EXCEPT !.cells = q] IN Fits(x) /\ (~Strayed => Within(x))
  BY <1>0, <1>2, <1>6 DEF Fits, Buffer, Within
<1>7. CASE VS!MoveCursor
  <2>1. PICK r \in 0 .. (rows - 1) \cup 0 .. s.row : \E c \in 0 .. (cols - 1) \cup 0 .. s.col :
          VS!Becomes([s EXCEPT !.row = r, !.col = c])
    BY <1>0, <1>7 DEF VS!MoveCursor
  <2>2. PICK c \in 0 .. (cols - 1) \cup 0 .. s.col : VS!Becomes([s EXCEPT !.row = r, !.col = c])
    BY <2>1
  <2>. DEFINE x == [s EXCEPT !.row = r, !.col = c]
  <2>3. Fits(x) /\ x.row = r /\ x.col = c
    <3>1. r \in Nat /\ c \in Nat
      BY <1>1, <1>2
    <3>. QED
      BY <1>0, <3>1 DEF Fits, Buffer
  <2>4. VS!Becomes(x) /\ scrollback' = scrollback
    BY <1>7, <2>2 DEF VS!MoveCursor
  <2>. HIDE DEF x
  <2>5. ~Strayed => Within(x)
    BY <1>0, <1>1, <1>2, <2>3 DEF Within
  <2>. QED
    BY <1>3, <1>4, <2>3, <2>4, <2>5
<1>8. CASE VS!SetRegion
  <2>1. PICK t \in 0 .. (rows - 1) : \E e \in 0 .. (rows - 1) :
          VS!Becomes([s EXCEPT !.top = t, !.bottom = e, !.row = 0, !.col = 0])
    BY <1>0, <1>8 DEF VS!SetRegion
  <2>2. PICK e \in 0 .. (rows - 1) : VS!Becomes([s EXCEPT !.top = t, !.bottom = e, !.row = 0, !.col = 0])
    BY <2>1
  <2>. DEFINE x == [s EXCEPT !.top = t, !.bottom = e, !.row = 0, !.col = 0]
  <2>3. Fits(x) /\ x.row = 0 /\ x.col = 0
    <3>1. t \in Nat /\ e \in Nat /\ t < rows /\ e < rows
      BY <1>1
    <3>. QED
      BY <1>0, <3>1 DEF Fits, Buffer
  <2>4. VS!Becomes(x) /\ scrollback' = scrollback
    BY <1>8, <2>2 DEF VS!SetRegion
  <2>. HIDE DEF x
  <2>5. ~Strayed => Within(x)
    BY <1>0, <1>1, <1>2, <2>3 DEF Within
  <2>. QED
    BY <1>3, <1>4, <2>3, <2>4, <2>5
<1>9. CASE VS!Erase
  <2>1. CASE (s.row >= rows \/ s.col > cols) /\ VS!Fault
    BY <1>5, <2>1
  <2>2. CASE ~((s.row >= rows \/ s.col > cols) /\ VS!Fault)
    <3>1. PICK blanked : VS!Becomes([s EXCEPT !.cells = [i \in DOMAIN s.cells |-> IF i \in blanked THEN VS!Blank ELSE s.cells[i]]])
      BY <1>0, <1>9, <2>2 DEF VS!Erase
    <3>. DEFINE q == [i \in DOMAIN s.cells |-> IF i \in blanked THEN VS!Blank ELSE s.cells[i]]
    <3>2. q \in Seq(Nat) /\ Len(q) = rows
      <4>1. q = [i \in 1 .. rows |-> IF i \in blanked THEN VS!Blank ELSE s.cells[i]]
        BY <1>2
      <4>2. \A i \in 1 .. rows : (IF i \in blanked THEN VS!Blank ELSE s.cells[i]) \in Nat
        BY <1>2 DEF VS!Blank
      <4>. QED
        BY <1>1, <4>1, <4>2
    <3>3. VS!Becomes([s EXCEPT !.cells = q]) /\ scrollback' = scrollback
      BY <1>0, <1>9, <2>2, <3>1 DEF VS!Erase
    <3>. HIDE DEF q
    <3>. QED
      BY <1>3, <1>4, <1>6, <3>2, <3>3
  <2>. QED
    BY <2>1, <2>2
<1>10. CASE VS!InsertLine
  <2>1. CASE s.row >= rows
    BY <1>0, <1>5, <1>10, <2>1 DEF VS!InsertLine
  <2>2. CASE ~(s.row >= rows)
    <3>. DEFINE q == VS!InsertAt(VS!RemoveAt(s.cells, s.bottom + 1), s.row + 1, VS!Blank)
    <3>1. VS!Becomes([s EXCEPT !.cells = q]) /\ scrollback' = scrollback
      BY <1>0, <1>10, <2>2 DEF VS!InsertLine
    <3>2. s.bottom + 1 \in 1 .. Len(s.cells) /\ s.row + 1 \in 1 .. Len(s.cells)
      BY <1>1, <1>2, <2>2
    <3>3. q \in Seq(Nat) /\ Len(q) = rows
      BY <1>2, <3>2, RowsMove
    <3>. HIDE DEF q
    <3>. QED
      BY <1>3, <1>4, <1>6, <3>1, <3>3
  <2>. QED
    BY <2>1, <2>2
<1>11. CASE VS!DeleteLine
  <2>. DEFINE q == VS!InsertAt(VS!RemoveAt(s.cells, s.row + 1), s.bottom + 1, VS!Blank)
  <2>1. VS!Becomes([s EXCEPT !.cells = q]) /\ scrollback' = scrollback /\ s.row < rows
    BY <1>0, <1>11 DEF VS!DeleteLine
  <2>2. s.bottom + 1 \in 1 .. Len(s.cells) /\ s.row + 1 \in 1 .. Len(s.cells)
    BY <1>1, <1>2, <2>1
  <2>3. q \in Seq(Nat) /\ Len(q) = rows
    BY <1>2, <2>2, RowsMove
  <2>. HIDE DEF q
  <2>. QED
    BY <1>3, <1>4, <1>6, <2>1, <2>3
<1>. QED
  BY <1>7, <1>8, <1>9, <1>10, <1>11

\* A cursor is saved, or taken back; the screens are switched.
LEMMA ScreenSwitches ==
    ASSUME ScreenAssumption, ScreenInv,
           VS!SaveCursor \/ VS!RestoreCursor \/ VS!EnterAlternate \/ VS!LeaveAlternate
    PROVE  ScreenInv'
<1>0. /\ shown \in Screens /\ DOMAIN buf = Screens
      /\ saved = None \/ saved \in SavedCursor
      /\ scrollback \in Seq(Nat) /\ Len(scrollback) <= Limit /\ line \in 0 .. MaxLines
      /\ \A b \in Screens : Fits(buf[b]) /\ buf[b] \in Buffer /\ (~Strayed => Within(buf[b]))
      /\ \A b \in Screens : buf = [buf EXCEPT ![b] = buf[b]]
  BY DEF ScreenInv, ScreenTypes, CursorInv, Fits
<1>1. rows \in Nat /\ rows >= 1 /\ cols \in Nat /\ cols >= 1
  BY ScreenSizes
<1>. DEFINE s == buf[shown]
            v == [row |-> s.row, col |-> s.col, old |-> FALSE]
<1>2. v \in SavedCursor /\ v.row = s.row /\ v.col = s.col /\ v.old = FALSE
  BY <1>0 DEF Buffer, SavedCursor
<1>3. VS!cur = s /\ VS!cur.row = s.row /\ VS!cur.col = s.col
  BY DEF VS!cur
<1>4. ~Strayed => Within(v)
  BY <1>0, <1>2 DEF Within
<1>5. ASSUME NEW b \in Screens
      PROVE  LET x == VS!Restored(buf[b]) IN
             Fits(x) /\ (~Strayed /\ (saved # None => ~saved.old) => Within(x))
  <2>1. CASE saved = None
    BY <1>0, <2>1 DEF VS!Restored
  <2>2. CASE saved # None
    <3>. DEFINE x == [buf[b] EXCEPT !.row = saved.row, !.col = saved.col]
    <3>1. saved.row \in Nat /\ saved.col \in Nat
      BY <1>0, <2>2 DEF SavedCursor
    <3>2. Fits(x) /\ x.row = saved.row /\ x.col = saved.col
      BY <1>0, <3>1 DEF Fits, Buffer
    <3>3. VS!Restored(buf[b]) = x
      BY <2>2 DEF VS!Restored
    <3>. HIDE DEF x
    <3>4. ~Strayed /\ ~saved.old => Within(x)
      BY <2>2, <3>2 DEF ScreenInv, CursorInv, Strayed, Within
    <3>. QED
      BY <2>2, <3>2, <3>3, <3>4
  <2>. QED
    BY <2>1, <2>2
<1>6. CASE VS!SaveCursor
  <2>1. saved' = v /\ UNCHANGED <<rows, cols, buf, shown, scrollback, line, stale, cramped, fault>>
    BY <1>3, <1>6 DEF VS!SaveCursor, VS!sizeVars
  <2>2. saved' \in SavedCursor /\ (~Strayed => Within(saved'))
    BY <1>2, <1>4, <2>1
  <2>3. buf' = [buf EXCEPT ![shown] = s] /\ Fits(s) /\ (~Strayed => Within(s))
    BY <1>0, <2>1
  <2>. HIDE DEF s, v
  <2>. QED
    BY <1>0, <2>1, <2>2, <2>3, OneBufferChanges DEF Strayed
<1>7. CASE VS!RestoreCursor
  <2>. DEFINE x == VS!Restored(s)
  <2>1. /\ saved # None /\ buf' = [buf EXCEPT ![shown] = x] /\ stale' = (stale \/ saved.old)
        /\ UNCHANGED <<rows, cols, shown, scrollback, saved, line, cramped, fault>>
    BY <1>7 DEF VS!RestoreCursor, VS!sizeVars
  <2>2. Fits(x) /\ (~Strayed' => ~Strayed /\ Within(x))
    <3>1. ~Strayed' => ~Strayed /\ ~saved.old
      BY <2>1 DEF Strayed
    <3>. QED
      BY <1>0, <1>5, <3>1
  <2>. HIDE DEF x
  <2>. QED
    BY <1>0, <2>1, <2>2, OneBufferChanges DEF Strayed
<1>8. CASE VS!EnterAlternate
  <2>. DEFINE x == VS!Fresh(rows)
  <2>1. /\ shown' = "alternate" /\ saved' = v /\ buf' = [buf EXCEPT !["alternate"] = x]
        /\ UNCHANGED <<rows, cols, scrollback, line, stale, cramped, fault>>
    BY <1>3, <1>8 DEF VS!EnterAlternate, VS!sizeVars, VS!ghosts
  <2>2. [i \in 1 .. rows |-> VS!Blank] \in Seq(Nat) /\ Len([i \in 1 .. rows |-> VS!Blank]) = rows
    BY <1>1 DEF VS!Blank
  <2>3. Fits(x) /\ Within(x)
    BY <1>1, <2>2 DEF VS!Fresh, Fits, Within, Buffer
  <2>4. saved' \in SavedCursor /\ (~Strayed => Within(saved'))
    BY <1>2, <1>4, <2>1
  <2>5. shown' \in Screens /\ "alternate" \in Screens
    BY <2>1 DEF Screens
  <2>. HIDE DEF s, v, x
  <2>. QED
    BY <1>0, <2>1, <2>3, <2>4, <2>5, OneBufferChanges DEF Strayed
<1>9. CASE VS!LeaveAlternate
  <2>. DEFINE x == VS!Restored(buf["primary"])
  <2>1. /\ shown' = "primary" /\ buf' = [buf EXCEPT !["primary"] = x]
        /\ stale' = (stale \/ (saved # None /\ saved.old))
        /\ UNCHANGED <<rows, cols, scrollback, saved, line, cramped, fault>>
    BY <1>9 DEF VS!LeaveAlternate, VS!sizeVars
  <2>2. shown' \in Screens /\ "primary" \in Screens
    BY <2>1 DEF Screens
  <2>3. Fits(x) /\ (~Strayed' => ~Strayed /\ Within(x))
    <3>1. ~Strayed' => ~Strayed /\ (saved # None => ~saved.old)
      BY <2>1 DEF Strayed
    <3>. QED
      BY <1>5, <2>2, <3>1
  <2>. HIDE DEF x
  <2>. QED
    BY <1>0, <2>1, <2>2, <2>3, OneBufferChanges DEF Strayed
<1>. QED
  BY <1>6, <1>7, <1>8, <1>9

\* The count the module takes is the one the library's theorems are about.
LEMMA CountBlankRows ==
    ASSUME NEW s PROVE VS!Cardinality(VS!BlankBelow(s)) = Cardinality(VS!BlankBelow(s))
  BY Zenon DEF VS!Cardinality, Cardinality

\* What goes from the top is at most the rows there are.
LEMMA ExcessIsNat ==
    ASSUME NEW s \in Buffer, NEW h \in Nat
    PROVE  VS!Excess(s, h) \in Nat /\ VS!Excess(s, h) <= Len(s.cells)
<1>1. s.cells \in Seq(Nat) /\ Len(s.cells) \in Nat /\ DOMAIN s.cells = 1 .. Len(s.cells)
  BY DEF Buffer
<1>2. IsFiniteSet(VS!BlankBelow(s))
  <2>1. VS!BlankBelow(s) \subseteq 1 .. Len(s.cells)
    BY <1>1 DEF VS!BlankBelow
  <2>2. IsFiniteSet(1 .. Len(s.cells))
    BY <1>1, FS_Interval
  <2>. QED
    BY <2>1, <2>2, FS_Subset
<1>3. VS!Cardinality(VS!BlankBelow(s)) \in Nat
  BY <1>2, FS_CardinalityType, CountBlankRows
<1>4. \A m, n \in Nat : VS!Less(m, n) \in Nat /\ VS!Less(m, n) <= m
  BY DEF VS!Less
<1>. DEFINE over == VS!Less(Len(s.cells), h)
<1>5. over \in Nat /\ over <= Len(s.cells)
  BY <1>1, <1>4
<1>6. VS!Excess(s, h) = VS!Less(over, VS!Cardinality(VS!BlankBelow(s)))
  BY DEF VS!Excess
<1>. DEFINE blank == VS!Cardinality(VS!BlankBelow(s))
<1>7. blank \in Nat
  BY <1>3
<1>8. VS!Excess(s, h) = VS!Less(over, blank)
  BY <1>6
<1>. HIDE DEF over, blank
<1>9. VS!Less(over, blank) \in Nat /\ VS!Less(over, blank) <= over
  BY <1>4, <1>5, <1>7
<1>. QED
  BY <1>1, <1>5, <1>8, <1>9

\* A buffer that is fitted to a new height and width.
LEMMA FittedFits ==
    ASSUME NEW s \in Buffer, NEW h \in Nat, h >= 1, NEW w \in Nat, w >= 1
    PROVE  LET x == VS!Fitted(s, h, w) IN
           x \in Buffer /\ Len(x.cells) = h /\ x.top < h /\ x.bottom < h /\ x.row < h /\ x.col < w
<1>. DEFINE up == VS!Excess(s, h)
            q  == [i \in 1 .. h |-> IF i + up <= Len(s.cells) THEN s.cells[i + up] ELSE VS!Blank]
            r  == VS!Least(VS!Less(s.row, up), h - 1)
            c  == VS!Least(s.col, w - 1)
<1>1. up \in Nat
  BY ExcessIsNat
<1>2. VS!Fitted(s, h, w) = [cells |-> q, row |-> r, col |-> c, top |-> 0, bottom |-> h - 1]
  BY DEF VS!Fitted, VS!FittedAfter
<1>. HIDE DEF up
<1>3. s.cells \in Seq(Nat) /\ s.row \in Nat /\ s.col \in Nat
  BY DEF Buffer
<1>4. q \in Seq(Nat) /\ Len(q) = h
  <2>1. \A i \in 1 .. h : (IF i + up <= Len(s.cells) THEN s.cells[i + up] ELSE VS!Blank) \in Nat
    BY <1>1, <1>3 DEF VS!Blank
  <2>. QED
    BY <2>1
<1>5. r \in Nat /\ r < h
  BY <1>1, <1>3 DEF VS!Least, VS!Less
<1>6. c \in Nat /\ c < w
  BY <1>3 DEF VS!Least
<1>. HIDE DEF q, r, c
<1>. QED
  BY <1>2, <1>4, <1>5, <1>6 DEF Buffer

\* A size that has rows and columns.
ToSize ==
    /\ \E h \in Heights, w \in Widths :
         /\ h > 0 /\ w > 0
         /\ rows' = h /\ cols' = w
         /\ buf' = [s \in DOMAIN buf |-> VS!Fitted(buf[s], h, w)]
         /\ scrollback' = VS!Pushed(scrollback,
                            SubSeq(buf["primary"].cells, 1, VS!Excess(buf["primary"], h)))
         /\ saved' = IF saved = None THEN None ELSE [saved EXCEPT !.old = TRUE]
         /\ UNCHANGED VS!ghosts
    /\ UNCHANGED shown

LEMMA ScreenTakesSize ==
    ASSUME ScreenAssumption, ScreenInv, ToSize
    PROVE  ScreenInv'
<1>0. /\ shown \in Screens /\ DOMAIN buf = Screens
      /\ saved = None \/ saved \in SavedCursor
      /\ scrollback \in Seq(Nat) /\ Limit \in Nat /\ line \in 0 .. MaxLines
      /\ \A b \in Screens : buf[b] \in Buffer
      /\ ~Strayed => ~fault
  BY DEF ScreenInv, ScreenTypes, CursorInv, Fits, ScreenAssumption
<1>1. PICK h \in Heights : \E w \in Widths :
        /\ h > 0 /\ w > 0 /\ rows' = h /\ cols' = w
        /\ buf' = [s \in DOMAIN buf |-> VS!Fitted(buf[s], h, w)]
        /\ scrollback' = VS!Pushed(scrollback,
                           SubSeq(buf["primary"].cells, 1, VS!Excess(buf["primary"], h)))
        /\ saved' = IF saved = None THEN None ELSE [saved EXCEPT !.old = TRUE]
        /\ UNCHANGED VS!ghosts
  BY DEF ToSize
<1>2. PICK w \in Widths :
        /\ h > 0 /\ w > 0 /\ rows' = h /\ cols' = w
        /\ buf' = [s \in DOMAIN buf |-> VS!Fitted(buf[s], h, w)]
        /\ scrollback' = VS!Pushed(scrollback,
                           SubSeq(buf["primary"].cells, 1, VS!Excess(buf["primary"], h)))
  BY <1>1
<1>3. h \in Nat /\ h >= 1 /\ w \in Nat /\ w >= 1
  BY <1>2 DEF ScreenAssumption, VS!SizeAssumption
<1>4. shown' = shown /\ UNCHANGED <<line, stale, cramped, fault>> /\ saved' = IF saved = None THEN None ELSE [saved EXCEPT !.old = TRUE]
  BY <1>1 DEF ToSize, VS!ghosts
<1>5. DOMAIN buf' = Screens /\ buf' = [b \in Screens |-> buf'[b]]
  BY <1>0, <1>2
<1>6. ASSUME NEW b \in Screens PROVE (Fits(buf[b]) /\ Within(buf[b]))'
  <2>. DEFINE x == VS!Fitted(buf[b], h, w)
  <2>1. buf'[b] = x
    BY <1>0, <1>2
  <2>2. x \in Buffer /\ Len(x.cells) = h /\ x.top < h /\ x.bottom < h /\ x.row < h /\ x.col < w
    <3>1. buf[b] \in Buffer
      BY <1>0
    <3>. QED
      BY <1>3, <3>1, FittedFits, Zenon
  <2>. HIDE DEF x
  <2>. QED
    BY <1>2, <1>3, <2>1, <2>2 DEF Fits, Within, Buffer
<1>7. saved' = None \/ (saved' \in SavedCursor /\ saved'.old = TRUE)
  BY <1>0, <1>4 DEF SavedCursor
<1>8. scrollback' \in Seq(Nat) /\ Len(scrollback') <= Limit
  <2>1. "primary" \in Screens
    BY DEF Screens
  <2>2. buf["primary"].cells \in Seq(Nat)
    BY <1>0, <2>1 DEF Buffer
  <2>. DEFINE m == VS!Excess(buf["primary"], h)
  <2>3. m \in Nat /\ m <= Len(buf["primary"].cells)
    BY <1>0, <1>3, <2>1, ExcessIsNat
  <2>. HIDE DEF m
  <2>4. SubSeq(buf["primary"].cells, 1, m) \in Seq(Nat)
    BY <2>2, <2>3
  <2>. QED
    BY <1>0, <1>2, <2>4, PushedStaysWithin DEF m
<1>9. ScreenTypes'
  BY <1>0, <1>2, <1>4, <1>5, <1>6, <1>7, <1>8 DEF ScreenTypes
<1>10. CursorInv'
  BY <1>0, <1>4, <1>6, <1>7 DEF CursorInv, Strayed
<1>. QED
  BY <1>9, <1>10 DEF ScreenInv

LEMMA ScreenResizes ==
    ASSUME ScreenAssumption, ScreenInv, VS!Resize
    PROVE  ScreenInv'
<1>1. CASE ToSize
  BY <1>1, ScreenTakesSize
<1>2. CASE ~ToSize
  <2>1. cramped' = TRUE /\ UNCHANGED <<rows, cols, buf, shown, scrollback, saved, line>>
    BY <1>2 DEF VS!Resize, VS!sizeVars, ToSize
  <2>. QED
    BY <2>1 DEF ScreenInv, ScreenTypes, CursorInv, Strayed, Fits
<1>. QED
  BY <1>1, <1>2

\* The screen the server keeps of a session has the size a client asked for last, and no
\* sequence of operations indexes outside of it (src/vt_screen), whatever sizes clients ask
\* for, unless a cursor that was saved before a resize was restored, a wide character was
\* printed on a screen of one column, or a size without rows or columns was asked.
THEOREM ScreenStaysInBounds ==
    ASSUME ScreenAssumption
    PROVE  VS!Spec => [](VS!TypeOK /\ VS!IndexInBounds)
<1>1. VS!Init => ScreenInv
  <2>. SUFFICES ASSUME VS!Init PROVE ScreenInv
    OBVIOUS
  <2>1. /\ rows \in Heights \ {0} /\ cols \in Widths \ {0} /\ shown = "primary" /\ scrollback = <<>> /\ saved = None
        /\ line = 0 /\ fault = FALSE /\ buf = [s \in Screens |-> VS!Fresh(rows)]
    BY DEF VS!Init, Screens
  <2>2. rows \in Nat /\ rows >= 1 /\ cols \in Nat /\ cols >= 1 /\ MaxLines \in Nat /\ Limit \in Nat
    BY <2>1 DEF ScreenAssumption, VS!SizeAssumption
  <2>3. [i \in 1 .. rows |-> VS!Blank] \in Seq(Nat) /\ Len([i \in 1 .. rows |-> VS!Blank]) = rows
    BY <2>2 DEF VS!Blank
  <2>4. Fits(VS!Fresh(rows)) /\ Within(VS!Fresh(rows))
    BY <2>2, <2>3 DEF VS!Fresh, Fits, Within, Buffer
  <2>5. ScreenTypes
    BY <2>1, <2>2, <2>4 DEF ScreenTypes, Screens
  <2>6. CursorInv
    BY <2>1, <2>4 DEF CursorInv, Strayed
  <2>. QED
    BY <2>5, <2>6 DEF ScreenInv
<1>2. ScreenInv /\ [VS!Next]_(VS!vars) => ScreenInv'
  <2>. SUFFICES ASSUME ScreenInv, [VS!Next]_(VS!vars) PROVE ScreenInv'
    OBVIOUS
  <2>1. CASE VS!NewLine \/ VS!Scroll \/ \E width \in {1, 2} : VS!PutChar(width)
    BY <2>1, ScreenWrites
  <2>2. CASE VS!MoveCursor \/ VS!SetRegion \/ VS!Erase \/ VS!InsertLine \/ VS!DeleteLine
    BY <2>2, ScreenEdits
  <2>3. CASE VS!SaveCursor \/ VS!RestoreCursor \/ VS!EnterAlternate \/ VS!LeaveAlternate
    BY <2>3, ScreenSwitches
  <2>4. CASE VS!Resize
    BY <2>4, ScreenResizes
  <2>5. CASE UNCHANGED VS!vars
    BY <2>5 DEF VS!vars, VS!sizeVars, VS!ghosts, ScreenInv, ScreenTypes, CursorInv, Strayed, Fits, Within
  <2>. QED
    BY <2>1, <2>2, <2>3, <2>4, <2>5 DEF VS!Next
<1>3. ScreenInv => VS!TypeOK /\ VS!IndexInBounds
  <2>. SUFFICES ASSUME ScreenInv PROVE VS!TypeOK /\ VS!IndexInBounds
    OBVIOUS
  <2>1. VS!TypeOK
    BY DEF ScreenInv, ScreenTypes, Fits, SavedCursor, VS!TypeOK
  <2>2. VS!IndexInBounds
    BY DEF ScreenInv, CursorInv, Strayed, VS!IndexInBounds
  <2>. QED
    BY <2>1, <2>2
<1>. QED
  BY <1>1, <1>2, <1>3, PTL DEF VS!Spec

-----------------------------------------------------------------------------
(* What the page of the desktop types.                                     *)

\* What is in each channel or with its task.
Ways == [i \in DA!Ids |-> batch[i] \o inbox[i]]

PageTypes ==
    /\ pc \in {"idle", "found", "current", "hooked", "alone", "added", "told"}
    /\ spawns \in 0 .. MaxSpawns /\ last \in 0 .. MaxSpawns /\ tauri \in 0 .. MaxSpawns
    /\ clients \subseteq DA!Ids /\ told \subseteq DA!Ids
    /\ forward \in [DA!Ids -> {"none", "on", "removing", "ended"}]
    /\ hook \in {"none", "set", "taken"} /\ heard \in BOOLEAN
    /\ close \in {"none", "claimed", "noted", "done"}

InputTypes ==
    /\ typed \in 0 .. MaxInputs /\ tx \in 0 .. MaxSpawns /\ written \in Seq(1 .. MaxInputs)
    /\ writer \in [DA!Ids -> {"none", "idle", "writing", "ended", "broken"}]
    /\ inbox \in [DA!Ids -> Seq(1 .. MaxInputs)] /\ batch \in [DA!Ids -> Seq(1 .. MaxInputs)]

\* A call of pty_spawn has no task before it has made its channel, a task that is not there
\* has nothing, and one that waits has nothing in hand.
WriterInv ==
    /\ PageTypes /\ InputTypes /\ tx <= spawns
    /\ pc # "idle" => spawns # 0
    /\ \A i \in DA!Ids :
         /\ i > spawns \/ (i = spawns /\ pc # "idle") => writer[i] = "none"
         /\ writer[i] \in {"none", "ended", "broken"} => inbox[i] = <<>> /\ batch[i] = <<>>
         /\ writer[i] = "idle" => batch[i] = <<>>

\* An input is in one place at most, and a channel has its inputs in order.
PlaceInv ==
    /\ \A k \in DOMAIN written :
         /\ written[k] \in 1 .. typed
         /\ \A j \in DOMAIN written : written[j] = written[k] => j = k
    /\ \A i \in DA!Ids : \A k \in DOMAIN Ways[i] :
         /\ Ways[i][k] \in 1 .. typed /\ k <= Ways[i][k]
         /\ \A j \in DOMAIN Ways[i] : j < k => Ways[i][j] < Ways[i][k]
         /\ \A j \in DOMAIN written : written[j] # Ways[i][k]
         /\ \A h \in DA!Ids : \A j \in DOMAIN Ways[h] : Ways[h][j] = Ways[i][k] => h = i

Undisturbed == DA!Current /\ \A i \in DA!Ids : writer[i] # "broken"

\* No input is lost; with one channel, what it has follows what the terminal has.
ArriveInv ==
    Undisturbed =>
      /\ \A n \in 1 .. typed : \/ \E k \in DOMAIN written : written[k] = n
                               \/ \E i \in DA!Ids : \E k \in DOMAIN Ways[i] : Ways[i][k] = n
      /\ spawns = 0 => typed = 0 /\ written = <<>>
      /\ spawns = 1 =>
           /\ \A k \in DOMAIN written : written[k] = k
           /\ Len(written) + Len(Ways[1]) = typed
           /\ \A k \in DOMAIN Ways[1] : Ways[1][k] = Len(written) + k

InputInv == WriterInv /\ PlaceInv /\ ArriveInv

\* Steps that leave the inputs where they are.
LEMMA InputsRest ==
    ASSUME InputInv, Ways' = Ways, UNCHANGED <<typed, written>>, WriterInv',
           Undisturbed' => Undisturbed,
           spawns' = spawns \/ (spawns' = spawns + 1 /\ (1 \in DA!Ids => spawns # 0 \/ Ways[1] = <<>>))
    PROVE  InputInv'
<1>1. WriterInv /\ PlaceInv /\ ArriveInv /\ DA!Ids' = DA!Ids /\ spawns \in Nat /\ spawns' \in 0 .. MaxSpawns
  BY DEF InputInv, WriterInv, PageTypes, DA!Ids
<1>2. PlaceInv'
  BY <1>1 DEF PlaceInv
<1>3. ArriveInv'
  <2>1. CASE spawns' = spawns
    BY <1>1, <2>1 DEF ArriveInv
  <2>2. CASE spawns' = spawns + 1 /\ spawns # 0
    BY <1>1, <2>2 DEF ArriveInv
  <2>3. CASE spawns' = spawns + 1 /\ spawns = 0
    <3>1. Ways[1] = <<>>
      BY <1>1, <2>3 DEF DA!Ids
    <3>2. Undisturbed' => typed = 0 /\ written = <<>>
      BY <1>1, <2>3 DEF ArriveInv
    <3>. QED
      BY <1>1, <2>3, <3>1, <3>2 DEF ArriveInv
  <2>. QED
    BY <2>1, <2>2, <2>3
<1>. QED
  BY <1>2, <1>3 DEF InputInv

LEMMA WayTypes ==
    ASSUME InputInv, NEW i \in DA!Ids
    PROVE  /\ batch[i] \in Seq(1 .. MaxInputs) /\ inbox[i] \in Seq(1 .. MaxInputs) /\ Ways[i] = batch[i] \o inbox[i]
           /\ Ways[i] \in Seq(1 .. MaxInputs) /\ Len(Ways[i]) = Len(batch[i]) + Len(inbox[i])
BY DEF InputInv, WriterInv, InputTypes, Ways

\* pty_spawn, the forwarders and the end of the session.
LEMMA InputsWhileAttaching ==
    ASSUME MaxSpawns \in Nat, InputInv,
           \/ DA!Find \/ DA!Revalidate \/ DA!Hook \/ DA!Supersede \/ DA!AddClient \/ DA!StartThread
           \/ DA!Claim \/ DA!Note \/ DA!CallBack \/ \E i \in DA!Ids : DA!Stop(i) \/ DA!Forget(i)
    PROVE  InputInv'
<1>0. /\ WriterInv /\ PageTypes /\ DA!Ids' = DA!Ids /\ spawns \in Nat
  BY DEF InputInv, WriterInv, PageTypes, DA!Ids
<1>1. UNCHANGED <<typed, tx, inbox, writer, batch, written>>
  BY DEF DA!Find, DA!Revalidate, DA!Hook, DA!Supersede, DA!AddClient, DA!StartThread, DA!Claim, DA!Note,
         DA!CallBack, DA!Stop, DA!Forget, DA!inputVars
<1>2. /\ close' = "none" => close = "none"
      /\ \/ spawns' = spawns /\ (pc' # "idle" => pc # "idle")
         \/ spawns' = spawns + 1 /\ pc = "idle"
  BY <1>0 DEF DA!Find, DA!Revalidate, DA!Hook, DA!Supersede, DA!AddClient, DA!StartThread, DA!Claim, DA!Note,
         DA!CallBack, DA!Stop, DA!Forget, PageTypes
<1>3. PageTypes'
  <2>1. CASE DA!Find
    <3>1. spawns + 1 \in 0 .. MaxSpawns
      BY <1>0, <2>1 DEF DA!Find, PageTypes
    <3>. QED
      BY <1>0, <2>1, <3>1 DEF DA!Find, PageTypes
  <2>2. CASE DA!Revalidate \/ DA!Hook \/ DA!Supersede
    BY <1>0, <2>2 DEF DA!Revalidate, DA!Hook, DA!Supersede, PageTypes
  <2>3. CASE DA!AddClient \/ DA!StartThread
    <3>1. spawns \in DA!Ids
      BY <1>0, <2>3 DEF DA!AddClient, DA!StartThread, WriterInv, PageTypes, DA!Ids
    <3>2. CASE DA!AddClient
      BY <1>0, <3>1, <3>2 DEF DA!AddClient, PageTypes
    <3>3. CASE DA!StartThread
      <4>1. spawns \in 0 .. MaxSpawns /\ 0 \in 0 .. MaxSpawns
        BY <1>0 DEF PageTypes
      <4>2. forward' \in [DA!Ids -> {"none", "on", "removing", "ended"}]
        BY <1>0, <3>3 DEF DA!StartThread, PageTypes
      <4>3. tauri' \in 0 .. MaxSpawns /\ last' \in 0 .. MaxSpawns /\ clients' \subseteq DA!Ids
        BY <1>0, <3>3, <4>1 DEF DA!StartThread, PageTypes
      <4>. QED
        BY <1>0, <3>3, <4>2, <4>3 DEF DA!StartThread, PageTypes
    <3>. QED
      BY <2>3, <3>2, <3>3
  <2>4. CASE DA!Claim \/ DA!Note \/ DA!CallBack
    BY <1>0, <2>4 DEF DA!Claim, DA!Note, DA!CallBack, PageTypes
  <2>5. ASSUME NEW i \in DA!Ids, DA!Stop(i) \/ DA!Forget(i)
        PROVE  PageTypes'
    <3>1. heard' \in BOOLEAN /\ clients' \subseteq DA!Ids /\ tauri' \in 0 .. MaxSpawns
      <4>1. (heard' = heard \/ heard' = TRUE) /\ clients' \subseteq clients /\ tauri' \in {tauri, 0}
        BY <2>5 DEF DA!Stop, DA!Forget
      <4>2. heard' \in BOOLEAN
        BY <1>0, <4>1 DEF PageTypes
      <4>. QED
        BY <1>0, <4>1, <4>2 DEF PageTypes
    <3>2. forward' \in [DA!Ids -> {"none", "on", "removing", "ended"}]
      BY <1>0, <2>5 DEF DA!Stop, DA!Forget, PageTypes
    <3>. QED
      BY <1>0, <2>5, <3>1, <3>2 DEF DA!Stop, DA!Forget, PageTypes
  <2>. QED
    BY <2>1, <2>2, <2>3, <2>4, <2>5
<1>4. WriterInv'
  <2>1. InputTypes' /\ \A i \in DA!Ids : i \in Nat
    BY <1>0, <1>1 DEF WriterInv, InputTypes, DA!Ids
  <2>2. tx' <= spawns' /\ (pc' # "idle" => spawns' # 0)
    BY <1>0, <1>1, <1>2 DEF WriterInv, InputTypes
  <2>3. \A i \in DA!Ids : i > spawns' \/ (i = spawns' /\ pc' # "idle") => i > spawns \/ (i = spawns /\ pc # "idle")
    BY <1>0, <1>2, <2>1
  <2>. QED
    BY <1>0, <1>1, <1>3, <2>1, <2>2, <2>3 DEF WriterInv
<1>5. Ways' = Ways
  BY <1>0, <1>1 DEF Ways
<1>6. Undisturbed' => Undisturbed
  BY <1>0, <1>1, <1>2 DEF Undisturbed, DA!Current
<1>7. 1 \in DA!Ids /\ spawns = 0 => Ways[1] = <<>>
  BY <1>0 DEF WriterInv, Ways, DA!Ids
<1>. QED
  BY <1>1, <1>2, <1>4, <1>5, <1>6, <1>7, InputsRest

\* pty_spawn makes a channel and its task.
LEMMA WriterStarts ==
    ASSUME MaxSpawns \in Nat, InputInv, DA!StartWriter
    PROVE  InputInv'
<1>0. /\ WriterInv /\ PageTypes /\ InputTypes /\ DA!Ids' = DA!Ids /\ spawns \in Nat
      /\ \A i \in DA!Ids : i \in Nat
  BY DEF InputInv, WriterInv, PageTypes, DA!Ids
<1>1. /\ pc = "told" /\ pc' = "idle" /\ tx' = spawns /\ writer' = [writer EXCEPT ![spawns] = "idle"]
      /\ UNCHANGED <<spawns, last, tauri, clients, forward, told, hook, close, heard, typed, inbox, batch, written>>
  BY DEF DA!StartWriter
<1>2. spawns \in DA!Ids
  BY <1>0, <1>1 DEF WriterInv, PageTypes, DA!Ids
<1>3. writer[spawns] = "none" /\ inbox[spawns] = <<>> /\ batch[spawns] = <<>>
  BY <1>0, <1>1, <1>2 DEF WriterInv
<1>4. /\ writer' \in [DA!Ids -> {"none", "idle", "writing", "ended", "broken"}] /\ writer'[spawns] = "idle"
      /\ \A i \in DA!Ids \ {spawns} : writer'[i] = writer[i]
  BY <1>0, <1>1, <1>2 DEF InputTypes
<1>5. PageTypes' /\ InputTypes'
  BY <1>0, <1>1, <1>4 DEF PageTypes, InputTypes
<1>6. WriterInv'
  BY <1>0, <1>1, <1>3, <1>4, <1>5 DEF WriterInv
<1>7. Ways' = Ways
  BY <1>0, <1>1 DEF Ways
<1>8. Undisturbed' => Undisturbed
  BY <1>0, <1>1, <1>3, <1>4 DEF Undisturbed, DA!Current
<1>. QED
  BY <1>1, <1>6, <1>7, <1>8, InputsRest

\* An input is typed: it goes to the end of the last channel.
LEMMA InputTyped ==
    ASSUME MaxSpawns \in Nat, MaxInputs \in Nat, InputInv, DA!Write
    PROVE  InputInv'
<1>0. /\ WriterInv /\ PlaceInv /\ ArriveInv /\ PageTypes /\ InputTypes /\ DA!Ids' = DA!Ids
      /\ spawns \in Nat /\ typed \in Nat /\ \A i \in DA!Ids : i \in Nat
  BY DEF InputInv, WriterInv, PageTypes, InputTypes, DA!Ids
<1>. DEFINE n == typed + 1
            w == Ways[tx]
<1>1. /\ typed < MaxInputs /\ close = "none" /\ tx # 0 /\ writer[tx] \in {"idle", "writing"}
      /\ typed' = n /\ inbox' = [inbox EXCEPT ![tx] = Append(inbox[tx], n)]
      /\ UNCHANGED <<pc, spawns, last, tauri, clients, forward, told, hook, close, heard,
                     tx, writer, batch, written>>
  BY DEF DA!Write, DA!Current, DA!attachVars
<1>2. tx \in DA!Ids
  BY <1>0, <1>1 DEF InputTypes, DA!Ids
<1>3. /\ batch[tx] \in Seq(1 .. MaxInputs) /\ inbox[tx] \in Seq(1 .. MaxInputs)
      /\ w = batch[tx] \o inbox[tx] /\ w \in Seq(1 .. MaxInputs)
  BY <1>2, WayTypes
<1>4. n \in 1 .. MaxInputs /\ n \in Nat /\ n = typed + 1
  BY <1>0, <1>1
<1>5. Append(inbox[tx], n) \in Seq(1 .. MaxInputs)
  BY <1>3, <1>4
<1>6. /\ inbox' \in [DA!Ids -> Seq(1 .. MaxInputs)] /\ inbox'[tx] = Append(inbox[tx], n)
      /\ \A i \in DA!Ids \ {tx} : inbox'[i] = inbox[i]
  BY <1>0, <1>1, <1>2, <1>5 DEF InputTypes
<1>. HIDE DEF n
<1>7. PageTypes' /\ InputTypes'
  BY <1>0, <1>1, <1>4, <1>6 DEF PageTypes, InputTypes
<1>8. WriterInv'
  BY <1>0, <1>1, <1>6, <1>7 DEF WriterInv
<1>9. /\ Ways'[tx] = batch[tx] \o Append(inbox[tx], n)
      /\ \A i \in DA!Ids \ {tx} : Ways'[i] = Ways[i]
  BY <1>0, <1>1, <1>2, <1>6 DEF Ways
<1>10. Ways'[tx] = Append(w, n)
  <2>. DEFINE a == batch[tx]
              b == inbox[tx]
  <2>1. a \in Seq(1 .. MaxInputs) /\ b \in Seq(1 .. MaxInputs)
    BY <1>3
  <2>. HIDE DEF a, b
  <2>2. a \o Append(b, n) = Append(a \o b, n)
    BY <1>4, <2>1
  <2>. QED
    BY <1>3, <1>9, <2>2 DEF a, b
<1>. HIDE DEF w
<1>11. /\ Len(Append(w, n)) = Len(w) + 1 /\ Append(w, n)[Len(w) + 1] = n
       /\ DOMAIN w = 1 .. Len(w) /\ DOMAIN Append(w, n) = 1 .. (Len(w) + 1) /\ Len(w) \in Nat
       /\ \A k \in DOMAIN w : Append(w, n)[k] = w[k]
  <2>1. w \in Seq(1 .. MaxInputs) /\ n \in 1 .. MaxInputs
    BY <1>3, <1>4
  <2>2. Len(w) \in Nat /\ DOMAIN w = 1 .. Len(w)
    BY <2>1
  <2>3. Append(w, n) \in Seq(1 .. MaxInputs) /\ Len(Append(w, n)) = Len(w) + 1
    BY <2>1
  <2>4. \A k \in 1 .. Len(w) : Append(w, n)[k] = w[k]
    BY <2>1
  <2>5. Append(w, n)[Len(w) + 1] = n
    BY <2>1
  <2>. QED
    BY <2>2, <2>3, <2>4, <2>5
<1>12. Len(w) <= typed /\ \A k \in DOMAIN w : w[k] \in 1 .. typed
  <2>1. \A k \in DOMAIN w : w[k] \in 1 .. typed /\ k <= w[k]
    BY <1>0, <1>2 DEF PlaceInv, w
  <2>2. Len(w) # 0 => Len(w) \in DOMAIN w
    BY <1>11
  <2>. QED
    BY <1>0, <1>11, <2>1, <2>2
\* What the channels have after the step, and where it was before.
<1>13. ASSUME NEW i \in DA!Ids, NEW k \in DOMAIN Ways'[i]
       PROVE  \/ i = tx /\ k = Len(w) + 1 /\ Ways'[i][k] = n
              \/ k \in DOMAIN Ways[i] /\ Ways'[i][k] = Ways[i][k] /\ Ways[i][k] \in 1 .. typed
  <2>1. CASE i = tx
    <3>1. k \in 1 .. (Len(w) + 1)
      BY <1>10, <1>11, <1>13, <2>1
    <3>2. CASE k = Len(w) + 1
      BY <1>10, <1>11, <2>1, <3>2
    <3>3. CASE k # Len(w) + 1
      <4>1. k \in DOMAIN w
        BY <1>11, <3>1, <3>3
      <4>. QED
        BY <1>10, <1>11, <1>12, <2>1, <4>1 DEF w
    <3>. QED
      BY <3>2, <3>3
  <2>2. CASE i # tx
    BY <1>0, <1>9, <1>13, <2>2 DEF PlaceInv
  <2>. QED
    BY <2>1, <2>2
<1>14. PlaceInv'
  <2>1. ASSUME NEW k \in DOMAIN written
        PROVE  /\ written[k] \in 1 .. n
               /\ \A j \in DOMAIN written : written[j] = written[k] => j = k
    BY <1>0, <1>4 DEF PlaceInv
  <2>2. ASSUME NEW i \in DA!Ids, NEW k \in DOMAIN Ways'[i]
        PROVE  /\ Ways'[i][k] \in 1 .. n /\ k <= Ways'[i][k]
               /\ \A j \in DOMAIN Ways'[i] : j < k => Ways'[i][j] < Ways'[i][k]
               /\ \A j \in DOMAIN written : written[j] # Ways'[i][k]
               /\ \A h \in DA!Ids : \A j \in DOMAIN Ways'[h] : Ways'[h][j] = Ways'[i][k] => h = i
    <3>1. CASE i = tx /\ k = Len(w) + 1 /\ Ways'[i][k] = n
      <4>1. \A j \in DOMAIN Ways'[i] : j < k => Ways'[i][j] < n
        BY <1>0, <1>4, <1>13, <3>1
      <4>2. \A j \in DOMAIN written : written[j] # n
        BY <1>0, <1>4 DEF PlaceInv
      <4>3. \A h \in DA!Ids : \A j \in DOMAIN Ways'[h] : Ways'[h][j] = n => h = tx
        BY <1>0, <1>4, <1>13
      <4>. QED
        BY <1>0, <1>4, <1>11, <1>12, <3>1, <4>1, <4>2, <4>3
    <3>2. CASE k \in DOMAIN Ways[i] /\ Ways'[i][k] = Ways[i][k] /\ Ways[i][k] \in 1 .. typed
      <4>1. /\ k <= Ways[i][k]
            /\ \A j \in DOMAIN Ways[i] : j < k => Ways[i][j] < Ways[i][k]
            /\ \A j \in DOMAIN written : written[j] # Ways[i][k]
            /\ \A h \in DA!Ids : \A j \in DOMAIN Ways[h] : Ways[h][j] = Ways[i][k] => h = i
        BY <1>0, <3>2 DEF PlaceInv
      <4>2. \A j \in DOMAIN Ways'[i] : j < k => Ways'[i][j] < Ways[i][k]
        <5>1. ASSUME NEW j \in DOMAIN Ways'[i], j < k PROVE j \in DOMAIN Ways[i] /\ Ways'[i][j] = Ways[i][j]
          <6>1. i = tx => k \in 1 .. Len(w)
            BY <1>11, <3>2 DEF w
          <6>2. ~(i = tx /\ j = Len(w) + 1)
            BY <1>11, <5>1, <6>1
          <6>. QED
            BY <1>13, <6>2
        <5>. QED
          BY <4>1, <5>1
      <4>3. \A h \in DA!Ids : \A j \in DOMAIN Ways'[h] : Ways'[h][j] = Ways[i][k] => h = i
        <5>1. ASSUME NEW h \in DA!Ids, NEW j \in DOMAIN Ways'[h], Ways'[h][j] = Ways[i][k] PROVE h = i
          <6>1. Ways[i][k] # n
            BY <1>0, <1>4, <3>2
          <6>. QED
            BY <1>13, <4>1, <5>1, <6>1
        <5>. QED
          BY <5>1
      <4>. QED
        BY <1>0, <1>4, <3>2, <4>1, <4>2, <4>3
    <3>. QED
      BY <1>13, <3>1, <3>2
  <2>. QED
    BY <1>0, <1>1, <2>1, <2>2 DEF PlaceInv
<1>15. ArriveInv'
  <2>. SUFFICES ASSUME Undisturbed'
                PROVE  /\ \A m \in 1 .. n : \/ \E k \in DOMAIN written : written[k] = m
                                            \/ \E i \in DA!Ids : \E k \in DOMAIN Ways'[i] : Ways'[i][k] = m
                       /\ spawns = 0 => n = 0 /\ written = <<>>
                       /\ spawns = 1 =>
                            /\ \A k \in DOMAIN written : written[k] = k
                            /\ Len(written) + Len(Ways'[1]) = n
                            /\ \A k \in DOMAIN Ways'[1] : Ways'[1][k] = Len(written) + k
    BY <1>0, <1>1 DEF ArriveInv
  <2>1. Undisturbed
    BY <1>0, <1>1 DEF Undisturbed, DA!Current
  <2>2. ASSUME NEW m \in 1 .. n
        PROVE  \/ \E k \in DOMAIN written : written[k] = m
               \/ \E i \in DA!Ids : \E k \in DOMAIN Ways'[i] : Ways'[i][k] = m
    <3>1. CASE m = n
      <4>1. Len(w) + 1 \in DOMAIN Ways'[tx] /\ Ways'[tx][Len(w) + 1] = n
        BY <1>10, <1>11
      <4>. QED
        BY <1>2, <3>1, <4>1
    <3>2. CASE m # n
      <4>1. m \in 1 .. typed
        BY <1>0, <1>4, <3>2
      <4>2. ASSUME NEW i \in DA!Ids, NEW k \in DOMAIN Ways[i]
            PROVE  k \in DOMAIN Ways'[i] /\ Ways'[i][k] = Ways[i][k]
        BY <1>9, <1>10, <1>11 DEF w
      <4>3. \/ \E k \in DOMAIN written : written[k] = m
            \/ \E i \in DA!Ids : \E k \in DOMAIN Ways[i] : Ways[i][k] = m
        BY <1>0, <2>1, <4>1 DEF ArriveInv
      <4>. QED
        BY <4>2, <4>3
    <3>. QED
      BY <3>1, <3>2
  <2>3. spawns # 0 /\ (spawns = 1 => tx = 1)
    BY <1>0, <1>1 DEF WriterInv, InputTypes
  <2>4. ASSUME spawns = 1
        PROVE  /\ \A k \in DOMAIN written : written[k] = k
               /\ Len(written) + Len(Ways'[1]) = n
               /\ \A k \in DOMAIN Ways'[1] : Ways'[1][k] = Len(written) + k
    <3>1. /\ \A k \in DOMAIN written : written[k] = k
          /\ Len(written) + Len(w) = typed
          /\ \A k \in DOMAIN w : w[k] = Len(written) + k
      BY <1>0, <2>1, <2>3, <2>4 DEF ArriveInv, w
    <3>2. Len(written) \in Nat
      BY <1>0 DEF InputTypes
    <3>3. Ways'[1] = Append(w, n)
      BY <1>10, <2>3, <2>4
    <3>4. \A k \in 1 .. (Len(w) + 1) : Append(w, n)[k] = Len(written) + k
      <4>1. Append(w, n)[Len(w) + 1] = Len(written) + (Len(w) + 1)
        BY <1>4, <1>11, <3>1, <3>2
      <4>2. \A k \in 1 .. (Len(w) + 1) : k \in DOMAIN w \/ k = Len(w) + 1
        BY <1>11
      <4>. QED
        BY <1>11, <3>1, <4>1, <4>2
    <3>. QED
      BY <1>4, <1>11, <3>1, <3>2, <3>3, <3>4
  <2>. QED
    BY <2>2, <2>3, <2>4
<1>. QED
  BY <1>8, <1>14, <1>15 DEF InputInv

\* The channel and the hands of a task are emptied: its inputs are gone.
LEMMA TaskLeaves ==
    ASSUME MaxSpawns \in Nat, InputInv, NEW i \in DA!Ids, writer[i] \in {"idle", "writing"},
           NEW how \in {"ended", "broken"}, DA!Leave(i, how),
           how = "broken" \/ DA!Exited \/ (batch[i] = <<>> /\ inbox[i] = <<>>)
    PROVE  InputInv'
<1>0. /\ WriterInv /\ PlaceInv /\ ArriveInv /\ PageTypes /\ InputTypes /\ DA!Ids' = DA!Ids
      /\ spawns \in Nat
  BY DEF InputInv, WriterInv, PageTypes, DA!Ids
<1>1. /\ writer' = [writer EXCEPT ![i] = how]
      /\ inbox' = [inbox EXCEPT ![i] = <<>>] /\ batch' = [batch EXCEPT ![i] = <<>>]
      /\ UNCHANGED <<pc, spawns, last, tauri, clients, forward, told, hook, close, heard, typed, tx, written>>
  BY DEF DA!Leave, DA!attachVars
<1>2. /\ writer' \in [DA!Ids -> {"none", "idle", "writing", "ended", "broken"}] /\ writer'[i] = how
      /\ \A j \in DA!Ids \ {i} : writer'[j] = writer[j]
  BY <1>0, <1>1 DEF InputTypes
<1>3. /\ inbox' \in [DA!Ids -> Seq(1 .. MaxInputs)] /\ inbox'[i] = <<>>
      /\ batch' \in [DA!Ids -> Seq(1 .. MaxInputs)] /\ batch'[i] = <<>>
      /\ \A j \in DA!Ids \ {i} : inbox'[j] = inbox[j] /\ batch'[j] = batch[j]
  BY <1>0, <1>1 DEF InputTypes
<1>4. PageTypes' /\ InputTypes'
  BY <1>0, <1>1, <1>2, <1>3 DEF PageTypes, InputTypes
<1>5. WriterInv'
  BY <1>0, <1>1, <1>2, <1>3, <1>4 DEF WriterInv
<1>6. Ways'[i] = <<>> /\ \A j \in DA!Ids \ {i} : Ways'[j] = Ways[j]
  <2>1. <<>> \o <<>> = <<>>
    OBVIOUS
  <2>. QED
    BY <1>0, <1>3, <2>1 DEF Ways
<1>7. CASE batch[i] = <<>> /\ inbox[i] = <<>>
  <2>1. Ways' = Ways
    BY <1>0, <1>3, <1>6, <1>7 DEF Ways, InputTypes
  <2>2. Undisturbed' => Undisturbed
    BY <1>0, <1>1, <1>2 DEF Undisturbed, DA!Current
  <2>. QED
    BY <1>1, <1>5, <2>1, <2>2, InputsRest
<1>8. CASE how = "broken" \/ DA!Exited
  <2>1. ~Undisturbed'
    BY <1>1, <1>2, <1>8 DEF Undisturbed, DA!Current, DA!Exited
  <2>2. PlaceInv'
    <3>1. \A j \in DA!Ids : \A k \in DOMAIN Ways'[j] : k \in DOMAIN Ways[j] /\ Ways'[j] = Ways[j]
      BY <1>6
    <3>. QED
      BY <1>0, <1>1, <3>1 DEF PlaceInv
  <2>3. ArriveInv'
    BY <2>1 DEF ArriveInv
  <2>. QED
    BY <1>5, <2>2, <2>3 DEF InputInv
<1>. QED
  BY <1>7, <1>8

\* A task takes what is in its channel, or ends.
LEMMA TaskTakes ==
    ASSUME MaxSpawns \in Nat, InputInv, NEW i \in DA!Ids, DA!Take(i) \/ DA!NoMore(i)
    PROVE  InputInv'
<1>0. /\ WriterInv /\ PageTypes /\ InputTypes /\ DA!Ids' = DA!Ids
      /\ writer[i] = "idle" /\ batch[i] = <<>>
  BY DEF InputInv, WriterInv, DA!Ids, DA!Take, DA!NoMore
<1>1. CASE DA!NoMore(i)
  BY <1>0, <1>1, TaskLeaves DEF DA!NoMore
<1>2. CASE DA!Exited /\ DA!Leave(i, "ended")
  BY <1>0, <1>2, TaskLeaves
<1>3. CASE /\ batch' = [batch EXCEPT ![i] = inbox[i]]
           /\ inbox' = [inbox EXCEPT ![i] = <<>>] /\ writer' = [writer EXCEPT ![i] = "writing"]
           /\ UNCHANGED <<pc, spawns, last, tauri, clients, forward, told, hook, close, heard, typed, tx, written>>
  <2>1. /\ writer' \in [DA!Ids -> {"none", "idle", "writing", "ended", "broken"}] /\ writer'[i] = "writing"
        /\ \A j \in DA!Ids \ {i} : writer'[j] = writer[j]
    BY <1>0, <1>3 DEF InputTypes
  <2>2. /\ inbox' \in [DA!Ids -> Seq(1 .. MaxInputs)] /\ inbox'[i] = <<>>
        /\ batch' \in [DA!Ids -> Seq(1 .. MaxInputs)] /\ batch'[i] = inbox[i]
        /\ \A j \in DA!Ids \ {i} : inbox'[j] = inbox[j] /\ batch'[j] = batch[j]
    BY <1>0, <1>3 DEF InputTypes
  <2>3. PageTypes' /\ InputTypes'
    BY <1>0, <1>3, <2>1, <2>2 DEF PageTypes, InputTypes
  <2>4. WriterInv'
    BY <1>0, <1>3, <2>1, <2>2, <2>3 DEF WriterInv
  <2>5. \A q \in Seq(1 .. MaxInputs) : q \o <<>> = q /\ <<>> \o q = q
    OBVIOUS
  <2>6. batch'[i] \o inbox'[i] = batch[i] \o inbox[i]
    BY <1>0, <2>2, <2>5 DEF InputTypes
  <2>7. Ways' = Ways
    BY <1>0, <2>2, <2>6 DEF Ways
  <2>8. Undisturbed' => Undisturbed
    BY <1>0, <1>3, <2>1 DEF Undisturbed, DA!Current
  <2>. QED
    BY <1>3, <2>4, <2>7, <2>8, InputsRest
<1>. QED
  BY <1>1, <1>2, <1>3 DEF DA!Take, DA!attachVars

\* A task writes what it has taken to the terminal.
LEMMA TaskWrites ==
    ASSUME MaxSpawns \in Nat, InputInv, NEW i \in DA!Ids, DA!WriteOut(i)
    PROVE  InputInv'
<1>0. /\ WriterInv /\ PlaceInv /\ ArriveInv /\ PageTypes /\ InputTypes /\ DA!Ids' = DA!Ids
      /\ writer[i] = "writing" /\ spawns \in Nat
  BY DEF InputInv, WriterInv, PageTypes, DA!Ids, DA!WriteOut
<1>. DEFINE b == batch[i]
            q == inbox[i]
            w == Ways[i]
<1>1. CASE DA!Leave(i, "broken")
  BY <1>0, <1>1, TaskLeaves
<1>2. CASE /\ written' = written \o b
           /\ batch' = [batch EXCEPT ![i] = <<>>] /\ writer' = [writer EXCEPT ![i] = "idle"]
           /\ UNCHANGED <<pc, spawns, last, tauri, clients, forward, told, hook, close, heard, typed, tx, inbox>>
  <2>1. /\ writer' \in [DA!Ids -> {"none", "idle", "writing", "ended", "broken"}] /\ writer'[i] = "idle"
        /\ \A j \in DA!Ids \ {i} : writer'[j] = writer[j]
    BY <1>0, <1>2 DEF InputTypes
  <2>2. /\ batch' \in [DA!Ids -> Seq(1 .. MaxInputs)] /\ batch'[i] = <<>>
        /\ \A j \in DA!Ids \ {i} : batch'[j] = batch[j]
    BY <1>0, <1>2 DEF InputTypes
  <2>3. /\ b \in Seq(1 .. MaxInputs) /\ q \in Seq(1 .. MaxInputs) /\ w = b \o q
        /\ written \in Seq(1 .. MaxInputs)
    BY <1>0, WayTypes DEF InputTypes
  <2>4. Ways'[i] = q /\ \A j \in DA!Ids \ {i} : Ways'[j] = Ways[j]
    <3>1. <<>> \o q = q
      BY <2>3
    <3>. QED
      BY <1>0, <1>2, <2>2, <3>1 DEF Ways
  <2>. DEFINE v == written \o b
  <2>. HIDE DEF b, q, w
  <2>5. /\ v \in Seq(1 .. MaxInputs) /\ Len(v) = Len(written) + Len(b)
        /\ DOMAIN v = 1 .. (Len(written) + Len(b)) /\ DOMAIN written = 1 .. Len(written)
        /\ Len(written) \in Nat /\ Len(b) \in Nat /\ Len(q) \in Nat
        /\ DOMAIN b = 1 .. Len(b) /\ DOMAIN q = 1 .. Len(q)
    BY <2>3
  <2>6. \A k \in DOMAIN v : IF k <= Len(written) THEN k \in DOMAIN written /\ v[k] = written[k]
                            ELSE k - Len(written) \in DOMAIN b /\ v[k] = b[k - Len(written)]
    BY <2>3
  <2>7. /\ DOMAIN w = 1 .. (Len(b) + Len(q)) /\ Len(w) = Len(b) + Len(q)
        /\ \A k \in DOMAIN b : k \in DOMAIN w /\ w[k] = b[k]
        /\ \A k \in DOMAIN q : k + Len(b) \in DOMAIN w /\ w[k + Len(b)] = q[k]
        /\ \A k \in DOMAIN w : k \in DOMAIN b \/ k - Len(b) \in DOMAIN q
    BY <2>3
  <2>8. /\ \A k \in DOMAIN written : v[k] = written[k] /\ k \in DOMAIN v
        /\ \A k \in DOMAIN b : v[k + Len(written)] = b[k] /\ k + Len(written) \in DOMAIN v
    BY <2>3
  <2>. HIDE DEF v
  \* What the way of i and the terminal hold before the step.
  <2>9. \A k \in DOMAIN w : /\ w[k] \in 1 .. typed /\ k <= w[k]
                            /\ \A j \in DOMAIN w : j < k => w[j] < w[k]
                            /\ \A j \in DOMAIN written : written[j] # w[k]
                            /\ \A h \in DA!Ids : \A j \in DOMAIN Ways[h] : Ways[h][j] = w[k] => h = i
    BY <1>0 DEF PlaceInv, w
  <2>10. \A k \in DOMAIN written : /\ written[k] \in 1 .. typed
                                   /\ \A j \in DOMAIN written : written[j] = written[k] => j = k
    BY <1>0 DEF PlaceInv
  <2>11. \A j, k \in DOMAIN w : w[j] = w[k] => j = k
    <3>1. \A k \in DOMAIN w : k \in Int /\ w[k] \in Int
      BY <2>7, <2>9
    <3>. QED
      BY <2>9, <3>1
  <2>12. InputTypes' /\ PageTypes'
    BY <1>0, <1>2, <2>1, <2>2, <2>5 DEF InputTypes, PageTypes, v
  <2>13. WriterInv'
    BY <1>0, <1>2, <2>1, <2>2, <2>12 DEF WriterInv
  <2>14. ASSUME NEW k \in DOMAIN v
         PROVE  /\ v[k] \in 1 .. typed
                /\ \A j \in DOMAIN v : v[j] = v[k] => j = k
    <3>1. CASE k <= Len(written)
      <4>1. k \in DOMAIN written /\ v[k] = written[k]
        BY <2>6, <3>1
      <4>2. ASSUME NEW j \in DOMAIN v, v[j] = v[k] PROVE j = k
        <5>1. CASE j <= Len(written)
          BY <2>6, <2>10, <4>1, <4>2, <5>1
        <5>2. CASE ~(j <= Len(written))
          <6>1. j - Len(written) \in DOMAIN b /\ v[j] = b[j - Len(written)]
            BY <2>6, <5>2
          <6>2. j - Len(written) \in DOMAIN w /\ w[j - Len(written)] = v[j]
            BY <2>7, <6>1
          <6>. QED
            BY <2>9, <4>1, <4>2, <6>2
        <5>. QED
          BY <5>1, <5>2
      <4>. QED
        BY <2>10, <4>1, <4>2
    <3>2. CASE ~(k <= Len(written))
      <4>1. k - Len(written) \in DOMAIN b /\ v[k] = b[k - Len(written)]
        BY <2>6, <3>2
      <4>2. k - Len(written) \in DOMAIN w /\ w[k - Len(written)] = v[k]
        BY <2>7, <4>1
      <4>3. ASSUME NEW j \in DOMAIN v, v[j] = v[k] PROVE j = k
        <5>1. CASE j <= Len(written)
          <6>1. j \in DOMAIN written /\ v[j] = written[j]
            BY <2>6, <5>1
          <6>. QED
            BY <2>9, <4>2, <4>3, <6>1
        <5>2. CASE ~(j <= Len(written))
          <6>1. j - Len(written) \in DOMAIN b /\ v[j] = b[j - Len(written)]
            BY <2>6, <5>2
          <6>2. j - Len(written) \in DOMAIN w /\ w[j - Len(written)] = v[j]
            BY <2>7, <6>1
          <6>3. j - Len(written) = k - Len(written)
            BY <2>11, <4>2, <4>3, <6>2
          <6>. QED
            BY <2>5, <6>3
        <5>. QED
          BY <5>1, <5>2
      <4>. QED
        BY <2>9, <4>2, <4>3
    <3>. QED
      BY <3>1, <3>2
  \* What the channels hold after the step was there before, and is not what was written.
  <2>15. ASSUME NEW h \in DA!Ids, NEW k \in DOMAIN Ways'[h]
         PROVE  /\ Ways'[h][k] \in 1 .. typed /\ k <= Ways'[h][k]
                /\ \A j \in DOMAIN Ways'[h] : j < k => Ways'[h][j] < Ways'[h][k]
                /\ \A j \in DOMAIN v : v[j] # Ways'[h][k]
                /\ \E x \in DOMAIN Ways[h] : Ways[h][x] = Ways'[h][k]
    <3>1. CASE h = i
      <4>1. k \in DOMAIN q /\ Ways'[h][k] = q[k]
        BY <2>4, <2>15, <3>1
      <4>2. k + Len(b) \in DOMAIN w /\ w[k + Len(b)] = q[k]
        BY <2>7, <4>1
      <4>3. q[k] \in 1 .. typed /\ k + Len(b) <= q[k]
        BY <2>9, <4>2
      <4>4. k <= q[k]
        BY <2>5, <4>1, <4>3
      <4>5. ASSUME NEW j \in DOMAIN q, j < k PROVE q[j] < q[k]
        <5>1. j + Len(b) \in DOMAIN w /\ w[j + Len(b)] = q[j] /\ j + Len(b) < k + Len(b)
          BY <2>5, <2>7, <4>1, <4>5
        <5>. QED
          BY <2>9, <4>2, <5>1
      <4>6. ASSUME NEW j \in DOMAIN v PROVE v[j] # q[k]
        <5>1. CASE j <= Len(written)
          <6>1. j \in DOMAIN written /\ v[j] = written[j]
            BY <2>6, <5>1
          <6>. QED
            BY <2>9, <4>2, <6>1
        <5>2. CASE ~(j <= Len(written))
          <6>1. j - Len(written) \in DOMAIN b /\ v[j] = b[j - Len(written)]
            BY <2>6, <5>2
          <6>2. j - Len(written) \in DOMAIN w /\ w[j - Len(written)] = v[j]
            BY <2>7, <6>1
          <6>3. j - Len(written) # k + Len(b)
            BY <2>5, <4>1, <6>1
          <6>. QED
            BY <2>11, <4>2, <6>2, <6>3
        <5>. QED
          BY <5>1, <5>2
      <4>. QED
        BY <2>4, <3>1, <4>1, <4>2, <4>3, <4>4, <4>5, <4>6 DEF w
    <3>2. CASE h # i
      <4>1. Ways'[h] = Ways[h] /\ k \in DOMAIN Ways[h]
        BY <2>4, <2>15, <3>2
      <4>2. /\ Ways[h][k] \in 1 .. typed /\ k <= Ways[h][k]
            /\ \A j \in DOMAIN Ways[h] : j < k => Ways[h][j] < Ways[h][k]
            /\ \A j \in DOMAIN written : written[j] # Ways[h][k]
            /\ \A g \in DA!Ids : \A j \in DOMAIN Ways[g] : Ways[g][j] = Ways[h][k] => g = h
        BY <1>0, <4>1 DEF PlaceInv
      <4>3. ASSUME NEW j \in DOMAIN v PROVE v[j] # Ways[h][k]
        <5>1. CASE j <= Len(written)
          <6>1. j \in DOMAIN written /\ v[j] = written[j]
            BY <2>6, <5>1
          <6>. QED
            BY <4>2, <6>1
        <5>2. CASE ~(j <= Len(written))
          <6>1. j - Len(written) \in DOMAIN b /\ v[j] = b[j - Len(written)]
            BY <2>6, <5>2
          <6>2. j - Len(written) \in DOMAIN w /\ w[j - Len(written)] = v[j]
            BY <2>7, <6>1
          <6>. QED
            BY <3>2, <4>2, <6>2 DEF w
        <5>. QED
          BY <5>1, <5>2
      <4>. QED
        BY <4>1, <4>2, <4>3
    <3>. QED
      BY <3>1, <3>2
  <2>16. ASSUME NEW h \in DA!Ids, NEW k \in DOMAIN Ways'[h], NEW g \in DA!Ids, NEW j \in DOMAIN Ways'[g],
                Ways'[g][j] = Ways'[h][k]
         PROVE  g = h
    <3>1. PICK x \in DOMAIN Ways[h] : Ways[h][x] = Ways'[h][k]
      BY <2>15
    <3>2. PICK y \in DOMAIN Ways[g] : Ways[g][y] = Ways'[g][j]
      BY <2>15
    <3>. QED
      BY <1>0, <2>16, <3>1, <3>2 DEF PlaceInv
  <2>17. PlaceInv'
    <3>1. written' = v /\ typed' = typed
      BY <1>2 DEF v
    <3>. QED
      BY <1>0, <2>14, <2>15, <2>16, <3>1 DEF PlaceInv
  <2>18. ArriveInv'
    <3>. SUFFICES ASSUME Undisturbed'
                  PROVE  /\ \A m \in 1 .. typed : \/ \E k \in DOMAIN v : v[k] = m
                                                  \/ \E h \in DA!Ids : \E k \in DOMAIN Ways'[h] : Ways'[h][k] = m
                         /\ spawns # 0
                         /\ spawns = 1 =>
                              /\ \A k \in DOMAIN v : v[k] = k
                              /\ Len(v) + Len(Ways'[1]) = typed
                              /\ \A k \in DOMAIN Ways'[1] : Ways'[1][k] = Len(v) + k
      BY <1>0, <1>2 DEF ArriveInv, v
    <3>1. Undisturbed
      BY <1>0, <1>2, <2>1 DEF Undisturbed, DA!Current
    <3>2. i \in Nat /\ i >= 1 /\ i <= spawns
      BY <1>0 DEF WriterInv, DA!Ids
    <3>3. ASSUME NEW m \in 1 .. typed
          PROVE  \/ \E k \in DOMAIN v : v[k] = m
                 \/ \E h \in DA!Ids : \E k \in DOMAIN Ways'[h] : Ways'[h][k] = m
      <4>1. CASE \E k \in DOMAIN written : written[k] = m
        BY <2>8, <4>1
      <4>2. ASSUME NEW h \in DA!Ids, NEW k \in DOMAIN Ways[h], Ways[h][k] = m
            PROVE  \/ \E x \in DOMAIN v : v[x] = m
                   \/ \E x \in DOMAIN Ways'[h] : Ways'[h][x] = m
        <5>1. CASE h # i
          BY <2>4, <4>2, <5>1
        <5>2. CASE h = i
          <6>1. k \in DOMAIN w /\ w[k] = m
            BY <4>2, <5>2 DEF w
          <6>2. CASE k \in DOMAIN b
            BY <2>7, <2>8, <6>1, <6>2
          <6>3. CASE k - Len(b) \in DOMAIN q
            <7>1. q[k - Len(b)] = w[(k - Len(b)) + Len(b)]
              BY <2>7, <6>3
            <7>2. (k - Len(b)) + Len(b) = k
              BY <2>5, <2>7, <6>1
            <7>. QED
              BY <2>4, <5>2, <6>1, <6>3, <7>1, <7>2
          <6>. QED
            BY <2>7, <6>1, <6>2, <6>3
        <5>. QED
          BY <5>1, <5>2
      <4>3. \/ \E k \in DOMAIN written : written[k] = m
            \/ \E h \in DA!Ids : \E k \in DOMAIN Ways[h] : Ways[h][k] = m
        BY <1>0, <3>1 DEF ArriveInv
      <4>. QED
        BY <4>1, <4>2, <4>3
    <3>4. ASSUME spawns = 1
          PROVE  /\ \A k \in DOMAIN v : v[k] = k
                 /\ Len(v) + Len(Ways'[1]) = typed
                 /\ \A k \in DOMAIN Ways'[1] : Ways'[1][k] = Len(v) + k
      <4>1. i = 1
        BY <3>2, <3>4
      <4>2. /\ \A k \in DOMAIN written : written[k] = k
            /\ Len(written) + Len(w) = typed
            /\ \A k \in DOMAIN w : w[k] = Len(written) + k
        BY <1>0, <3>1, <3>4, <4>1 DEF ArriveInv, w
      <4>3. ASSUME NEW k \in DOMAIN v PROVE v[k] = k
        <5>1. CASE k <= Len(written)
          BY <2>6, <4>2, <5>1
        <5>2. CASE ~(k <= Len(written))
          <6>1. k - Len(written) \in DOMAIN b /\ v[k] = b[k - Len(written)]
            BY <2>6, <5>2
          <6>2. v[k] = Len(written) + (k - Len(written))
            BY <2>7, <4>2, <6>1
          <6>. QED
            BY <2>5, <6>2
        <5>. QED
          BY <5>1, <5>2
      <4>4. Len(v) + Len(q) = typed
        BY <2>5, <2>7, <4>2
      <4>5. ASSUME NEW k \in DOMAIN q PROVE q[k] = Len(v) + k
        <5>1. q[k] = Len(written) + (k + Len(b))
          BY <2>7, <4>2
        <5>. QED
          BY <2>5, <5>1
      <4>. QED
        BY <2>4, <4>1, <4>3, <4>4, <4>5
    <3>5. \A m \in 1 .. typed : \/ \E k \in DOMAIN v : v[k] = m
                              \/ \E h \in DA!Ids : \E k \in DOMAIN Ways'[h] : Ways'[h][k] = m
      BY <3>3
    <3>6. spawns = 1 => /\ \A k \in DOMAIN v : v[k] = k
                        /\ Len(v) + Len(Ways'[1]) = typed
                        /\ \A k \in DOMAIN Ways'[1] : Ways'[1][k] = Len(v) + k
      BY <3>4
    <3>7. spawns # 0
      BY <3>2
    <3>. QED
      BY <3>5, <3>6, <3>7
  <2>. QED
    BY <2>13, <2>17, <2>18 DEF InputInv
<1>. QED
  BY <1>1, <1>2 DEF DA!WriteOut, DA!attachVars

\* The count the module takes is the one the library's theorems are about.
LEMMA CountPlaces ==
    ASSUME NEW n PROVE DA!Cardinality(DA!Places(n)) = Cardinality(DA!Places(n))
  BY Zenon DEF DA!Cardinality, Cardinality

LEMMA OnePlace ==
    ASSUME MaxInputs \in Nat, InputInv, Undisturbed, NEW n \in 1 .. typed
    PROVE  DA!Cardinality(DA!Places(n)) = 1
<1>0. /\ WriterInv /\ PlaceInv /\ ArriveInv /\ typed \in 0 .. MaxInputs
  BY DEF InputInv, WriterInv, InputTypes
<1>1. \A i \in DA!Ids : DA!Way(i) = Ways[i]
  BY DEF DA!Way, Ways
<1>2. \A i \in DA!Ids : \A k \in DOMAIN Ways[i] : k \in 1 .. MaxInputs
  <2>1. ASSUME NEW i \in DA!Ids, NEW k \in DOMAIN Ways[i] PROVE k \in 1 .. MaxInputs
    <3>1. k \in 1 .. Len(Ways[i]) /\ Len(Ways[i]) \in Nat
      <4>1. Ways[i] \in Seq(1 .. MaxInputs)
        BY <2>1, WayTypes
      <4>. QED
        BY <2>1, <4>1
    <3>2. k <= Ways[i][k] /\ Ways[i][k] \in 1 .. typed
      BY <1>0 DEF PlaceInv
    <3>. QED
      BY <1>0, <3>1, <3>2
  <2>. QED
    BY <2>1
<1>3. \A x : x \in DA!Places(n) <=>
        \/ \E k \in DOMAIN written : written[k] = n /\ x = <<0, k>>
        \/ \E i \in DA!Ids : \E k \in DOMAIN Ways[i] : Ways[i][k] = n /\ x = <<i, k>>
  <2>1. ASSUME NEW x \in DA!Places(n)
        PROVE  \/ \E k \in DOMAIN written : written[k] = n /\ x = <<0, k>>
               \/ \E i \in DA!Ids : \E k \in DOMAIN Ways[i] : Ways[i][k] = n /\ x = <<i, k>>
    BY <1>1 DEF DA!Places
  <2>2. ASSUME NEW k \in DOMAIN written, written[k] = n PROVE <<0, k>> \in DA!Places(n)
    BY <2>2 DEF DA!Places
  <2>3. ASSUME NEW i \in DA!Ids, NEW k \in DOMAIN Ways[i], Ways[i][k] = n PROVE <<i, k>> \in DA!Places(n)
    BY <1>1, <1>2, <2>3 DEF DA!Places
  <2>. QED
    BY <2>1, <2>2, <2>3
<1>4. \E x : x \in DA!Places(n)
  BY <1>0, <1>3 DEF ArriveInv
<1>5. ASSUME NEW x \in DA!Places(n), NEW y \in DA!Places(n) PROVE x = y
  <2>1. CASE \E k \in DOMAIN written : written[k] = n /\ x = <<0, k>>
    BY <1>0, <1>3, <2>1 DEF PlaceInv
  <2>2. ASSUME NEW i \in DA!Ids, NEW k \in DOMAIN Ways[i], Ways[i][k] = n, x = <<i, k>>
        PROVE  x = y
    <3>1. PICK h \in DA!Ids : \E j \in DOMAIN Ways[h] : Ways[h][j] = n /\ y = <<h, j>>
      BY <1>0, <1>3, <2>2 DEF PlaceInv
    <3>2. PICK j \in DOMAIN Ways[h] : Ways[h][j] = n /\ y = <<h, j>>
      BY <3>1
    <3>3. h = i
      BY <1>0, <2>2, <3>2 DEF PlaceInv
    <3>4. j \in 1 .. MaxInputs /\ k \in 1 .. MaxInputs
      BY <1>2, <2>2, <3>2
    <3>5. ~(j < k) /\ ~(k < j)
      BY <1>0, <2>2, <3>2, <3>3 DEF PlaceInv
    <3>. QED
      BY <2>2, <3>2, <3>3, <3>4, <3>5
  <2>. QED
    BY <1>3, <2>1, <2>2
<1>6. PICK x : DA!Places(n) = {x}
  BY <1>4, <1>5
<1>. QED
  BY <1>6, FS_Singleton, CountPlaces

\* While a session lives and its terminal takes what is written, each input is on its way or
\* in the terminal, once, however often the page is loaded again; and with one page the
\* terminal gets the inputs in order (pty_write and its task, src-tauri/src/main.rs).
THEOREM InputsAreKept ==
    ASSUME MaxSpawns \in Nat, MaxInputs \in Nat
    PROVE  DA!Spec => [](DA!TypeOK /\ DA!InputKept)
<1>1. DA!Init => InputInv
  <2>. SUFFICES ASSUME DA!Init PROVE InputInv
    OBVIOUS
  <2>1. PageTypes
    <3>1. forward \in [DA!Ids -> {"none", "on", "removing", "ended"}] /\ heard \in BOOLEAN
      BY DEF DA!Init
    <3>2. 0 \in 0 .. MaxSpawns
      OBVIOUS
    <3>. QED
      BY <3>1, <3>2 DEF DA!Init, PageTypes
  <2>2. InputTypes
    BY DEF DA!Init, InputTypes
  <2>3. WriterInv
    BY <2>1, <2>2 DEF DA!Init, WriterInv
  <2>4. typed = 0 /\ written = <<>> /\ spawns = 0 /\ \A i \in DA!Ids : Ways[i] = <<>>
    BY DEF DA!Init, Ways
  <2>5. PlaceInv
    BY <2>4 DEF PlaceInv
  <2>6. ArriveInv
    BY <2>4 DEF ArriveInv
  <2>. QED
    BY <2>3, <2>5, <2>6 DEF InputInv
<1>2. InputInv /\ [DA!Next]_(DA!vars) => InputInv'
  <2>. SUFFICES ASSUME InputInv, [DA!Next]_(DA!vars) PROVE InputInv'
    OBVIOUS
  <2>1. CASE \/ DA!Find \/ DA!Revalidate \/ DA!Hook \/ DA!Supersede \/ DA!AddClient \/ DA!StartThread
             \/ DA!Claim \/ DA!Note \/ DA!CallBack \/ \E i \in DA!Ids : DA!Stop(i) \/ DA!Forget(i)
    BY <2>1, InputsWhileAttaching
  <2>2. CASE DA!StartWriter
    BY <2>2, WriterStarts
  <2>3. CASE DA!Write
    BY <2>3, InputTyped
  <2>4. ASSUME NEW i \in DA!Ids, DA!Take(i) \/ DA!NoMore(i)
        PROVE  InputInv'
    BY <2>4, TaskTakes, Zenon
  <2>5. ASSUME NEW i \in DA!Ids, DA!WriteOut(i)
        PROVE  InputInv'
    BY <2>5, TaskWrites, Zenon
  <2>6. CASE UNCHANGED DA!vars
    <3>1. UNCHANGED <<pc, spawns, last, tauri, clients, forward, told, hook, close, heard,
                      typed, tx, inbox, writer, batch, written>>
      BY <2>6 DEF DA!vars, DA!attachVars, DA!inputVars
    <3>2. DA!Ids' = DA!Ids
      BY DEF DA!Ids
    <3>3. WriterInv' /\ Ways' = Ways /\ (Undisturbed' => Undisturbed)
      BY <3>1, <3>2 DEF InputInv, WriterInv, PageTypes, InputTypes, Ways, Undisturbed, DA!Current
    <3>. QED
      BY <3>1, <3>3, InputsRest
  <2>. QED
    BY <2>1, <2>2, <2>3, <2>4, <2>5, <2>6 DEF DA!Next
<1>3. InputInv => DA!TypeOK /\ DA!InputKept
  <2>. SUFFICES ASSUME InputInv PROVE DA!TypeOK /\ DA!InputKept
    OBVIOUS
  <2>1. WriterInv /\ PageTypes /\ InputTypes /\ ArriveInv
    BY DEF InputInv, WriterInv
  <2>2. DA!TypeOK
    BY <2>1 DEF PageTypes, InputTypes, DA!TypeOK
  <2>3. ASSUME Undisturbed PROVE spawns <= 1 => \A k \in DOMAIN written : written[k] = k
    <3>1. spawns \in Nat
      BY <2>1 DEF PageTypes
    <3>2. spawns <= 1 => spawns = 0 \/ spawns = 1
      BY <3>1
    <3>. QED
      BY <2>1, <2>3, <3>2 DEF ArriveInv
  <2>4. Undisturbed => \A n \in 1 .. typed : DA!Cardinality(DA!Places(n)) = 1
    BY OnePlace
  <2>5. DA!InputKept
    BY <2>3, <2>4 DEF DA!InputKept, Undisturbed
  <2>. QED
    BY <2>2, <2>5
<1>. QED
  BY <1>1, <1>2, <1>3, PTL DEF DA!Spec

-----------------------------------------------------------------------------
(* The overview that the clients share.                                    *)

CONSTANTS TabOrder, WorkspaceList, MaxOps, MaxTabSteps
VARIABLES workspace, selected, present, home, active, confirming, ops, tabSteps

OV == INSTANCE MissionControl

\* There is a tab at the start.
OverviewAssumption == TabOrder \in Seq(OV!Tabs) /\ TabOrder # <<>> /\ WorkspaceList \in Seq(OV!Workspaces)

OverviewTypes == OV!TypeOK /\ DOMAIN pending = Conns

\* The broadcast that an operation owes is the only one of its connection.
LEMMA OneBroadcast ==
    ASSUME OverviewTypes, NEW c \in Conns, NEW m,
           pending' = [pending EXCEPT ![c] = <<m>>] \/ pending' = [pending EXCEPT ![c] = <<>>]
    PROVE  DOMAIN pending' = Conns /\ \A d \in Conns : Len(pending'[d]) <= 1
<1>1. DOMAIN pending' = Conns
  BY DEF OverviewTypes
<1>2. ASSUME NEW d \in Conns PROVE Len(pending'[d]) <= 1
  <2>1. Len(pending[d]) <= 1
    BY DEF OverviewTypes, OV!TypeOK
  <2>2. CASE pending'[d] = pending[d]
    BY <2>1, <2>2
  <2>3. CASE pending'[d] = <<m>>
    BY <2>3
  <2>4. CASE pending'[d] = <<>>
    BY <2>4
  <2>5. pending'[d] = <<m>> \/ pending'[d] = <<>> \/ pending'[d] = pending[d]
    BY DEF OverviewTypes
  <2>. QED
    BY <2>2, <2>3, <2>4, <2>5
<1>. QED
  BY <1>1, <1>2

LEMMA SelectionTypes ==
    ASSUME OverviewTypes, NEW c \in Conns, NEW m,
           pending' = [pending EXCEPT ![c] = <<m>>] \/ pending' = [pending EXCEPT ![c] = <<>>] \/ pending' = pending,
           open' \in BOOLEAN, workspace' \in OV!Workspaces, selected' \in OV!Tabs \cup {None},
           active' \in OV!Tabs \cup {None}, confirming' \subseteq Conns, UNCHANGED OV!tabs
    PROVE  OverviewTypes'
<1>1. DOMAIN pending' = Conns /\ \A d \in Conns : Len(pending'[d]) <= 1
  BY OneBroadcast DEF OverviewTypes, OV!TypeOK
<1>. QED
  BY <1>1 DEF OverviewTypes, OV!TypeOK, OV!tabs

LEMMA NextWorkspace ==
    ASSUME OverviewAssumption, NEW c \in Conns, NEW up \in BOOLEAN, OV!MoveWorkspace(c, up)
    PROVE  workspace' \in OV!Workspaces
<1>. DEFINE all == <<None>> \o WorkspaceList
            old == IF OV!Position(all, workspace) = 0 THEN 1 ELSE OV!Position(all, workspace)
<1>1. <<None>> \in Seq(OV!Workspaces) /\ WorkspaceList \in Seq(OV!Workspaces)
  BY DEF OverviewAssumption, OV!Workspaces
<1>2. all \in Seq(OV!Workspaces) /\ Len(all) >= 1
  <2>1. all \in Seq(OV!Workspaces) /\ Len(all) = Len(<<None>>) + Len(WorkspaceList)
    BY <1>1, ConcatProperties
  <2>2. Len(WorkspaceList) \in Nat /\ Len(<<None>>) = 1
    BY <1>1, LenProperties
  <2>. QED
    BY <2>1, <2>2
<1>3. old \in 1 .. Len(all)
  <2>1. OV!Position(all, workspace) \in 1 .. Len(all) \/ OV!Position(all, workspace) = 0
    BY DEF OV!Position
  <2>2. Len(all) \in Nat
    BY <1>2, LenProperties
  <2>. QED
    BY <1>2, <2>1, <2>2
<1>. HIDE DEF all, old
<1>4. \E i \in 1 .. Len(all) : workspace' = all[i]
  <2>1. workspace' = all[IF up THEN (IF old = 1 THEN 1 ELSE old - 1) ELSE (IF old = Len(all) THEN old ELSE old + 1)]
    BY DEF OV!MoveWorkspace, all, old
  <2>2. Len(all) \in Nat
    BY <1>2, LenProperties
  <2>. QED
    BY <1>3, <2>1, <2>2
<1>. QED
  BY <1>2, <1>4, ElementOfSeq

\* For any tabs, workspaces, connections and operations: wherever an operation moves the
\* highlight, it is on a card of the workspace that is shown (navigate_tab_in_workspace,
\* seed_mission_control_selection).
THEOREM HighlightIsOnCards ==
    ASSUME OverviewAssumption
    PROVE  OV!Spec => []OV!TypeOK /\ [][OV!HighlightIsShown]_(OV!vars)
<1>1. OV!Init => OverviewTypes
  <2>. SUFFICES ASSUME OV!Init PROVE OverviewTypes
    OBVIOUS
  <2>1. active \in OV!Tabs
    <3>1. Len(TabOrder) \in Nat /\ Len(TabOrder) # 0
      BY EmptySeq, LenProperties DEF OverviewAssumption
    <3>. QED
      BY <3>1 DEF OV!Init, OV!Tabs
  <2>2. \A c \in Conns : Len(pending[c]) <= 1
    BY DEF OV!Init
  <2>. QED
    BY <2>1, <2>2 DEF OV!Init, OverviewTypes, OV!TypeOK, OV!Workspaces
<1>2. ASSUME OverviewTypes, [OV!Next]_(OV!vars) PROVE OverviewTypes'
  <2>1. ASSUME NEW c \in Conns, OV!Switch(c, ~open) \/ OV!Switch(c, TRUE) PROVE OverviewTypes'
    <3>1. /\ open' \in BOOLEAN /\ UNCHANGED <<OV!tabs, active, confirming>>
          /\ OV!Seed /\ \E m : pending' = [pending EXCEPT ![c] = <<m>>]
      BY <1>2, <2>1 DEF OV!Switch, OV!Begin, OV!Toggled, OverviewTypes, OV!TypeOK
    <3>2. workspace' \in OV!Workspaces /\ selected' \in OV!Tabs \cup {None}
      BY <1>2, <3>1 DEF OV!Seed, OverviewTypes, OV!TypeOK
    <3>3. PICK m : pending' = [pending EXCEPT ![c] = <<m>>]
      BY <3>1
    <3>. QED
      BY <1>2, <3>1, <3>2, <3>3, SelectionTypes DEF OverviewTypes, OV!TypeOK
  <2>2. ASSUME NEW c \in Conns, NEW b \in BOOLEAN, OV!MoveWorkspace(c, b) \/ OV!MoveTab(c, b)
        PROVE  OverviewTypes'
    <3>1. /\ open' = open /\ UNCHANGED <<OV!tabs, active, confirming>>
          /\ \E m : pending' = [pending EXCEPT ![c] = <<m>>]
      BY <2>2 DEF OV!MoveWorkspace, OV!MoveTab, OV!Begin, OV!Reselected
    <3>2. workspace' \in OV!Workspaces
      BY <1>2, <2>2, NextWorkspace DEF OV!MoveTab, OverviewTypes, OV!TypeOK
    <3>3. selected' \in OV!Tabs \cup {None}
      BY <2>2 DEF OV!MoveWorkspace, OV!MoveTab, OV!Step, OV!Tabs
    <3>4. PICK m : pending' = [pending EXCEPT ![c] = <<m>>]
      BY <3>1
    <3>. QED
      BY <1>2, <3>1, <3>2, <3>3, <3>4, SelectionTypes DEF OverviewTypes, OV!TypeOK
  <2>3. ASSUME NEW c \in Conns, NEW w \in OV!Workspaces,
               OV!Jump(c, w) \/ OV!CloseConfirmed(c) \/ OV!Cancel(c)
        PROVE  OverviewTypes'
    <3>1. /\ UNCHANGED <<OV!tabs, active>> /\ confirming' \subseteq Conns /\ open' \in BOOLEAN
          /\ \E m : pending' = [pending EXCEPT ![c] = <<m>>]
          /\ workspace' \in OV!Workspaces /\ selected' \in OV!Tabs \cup {None}
      BY <1>2, <2>3 DEF OV!Jump, OV!CloseConfirmed, OV!Cancel, OV!Begin, OV!Reselected, OV!Toggled,
                        OverviewTypes, OV!TypeOK
    <3>2. PICK m : pending' = [pending EXCEPT ![c] = <<m>>]
      BY <3>1
    <3>. QED
      BY <1>2, <3>1, <3>2, SelectionTypes DEF OverviewTypes, OV!TypeOK
  <2>4. ASSUME NEW c \in Conns, OV!Confirm(c) \/ OV!Broadcast(c) PROVE OverviewTypes'
    <3>1. /\ UNCHANGED OV!tabs /\ UNCHANGED OV!mc /\ confirming' \subseteq Conns
          /\ pending' = pending \/ pending' = [pending EXCEPT ![c] = <<>>]
          /\ active' \in OV!Tabs \cup {None}
      BY <1>2, <2>4 DEF OV!Confirm, OV!Broadcast, OverviewTypes, OV!TypeOK, OV!Tabs
    <3>. QED
      BY <1>2, <3>1, SelectionTypes DEF OverviewTypes, OV!TypeOK, OV!mc
  <2>5. ASSUME NEW t \in OV!Tabs, NEW w \in OV!Workspaces,
               OV!Close(t) \/ OV!Open(t, w) \/ OV!ChangeDirectory(t, w)
        PROVE  OverviewTypes'
    <3>1. /\ UNCHANGED OV!mc /\ UNCHANGED <<confirming, pending>>
          /\ present' \subseteq OV!Tabs /\ home' \in [OV!Tabs -> OV!Workspaces] /\ active' \in OV!Tabs \cup {None}
      BY <1>2, <2>5 DEF OV!Close, OV!Open, OV!ChangeDirectory, OverviewTypes, OV!TypeOK
    <3>. QED
      BY <1>2, <3>1 DEF OverviewTypes, OV!TypeOK, OV!mc
  <2>6. ASSUME UNCHANGED OV!vars PROVE OverviewTypes'
    BY <1>2, <2>6 DEF OV!vars, OV!mc, OV!tabs, OverviewTypes, OV!TypeOK
  <2>7. \E w : w \in OV!Workspaces
    BY DEF OV!Workspaces
  <2>. QED
    BY <1>2, <2>1, <2>2, <2>3, <2>4, <2>5, <2>6, <2>7 DEF OV!Next
<1>3. ASSUME OV!Next PROVE OV!HighlightIsShown
  <2>1. ASSUME NEW c \in Conns, OV!Switch(c, ~open) \/ OV!Switch(c, TRUE) PROVE OV!HighlightIsShown
    BY <2>1 DEF OV!Switch, OV!Seed, OV!tabs, OV!HighlightIsShown
  <2>2. ASSUME NEW c \in Conns, NEW b \in BOOLEAN, OV!MoveTab(c, b) PROVE OV!HighlightIsShown
    BY <2>2 DEF OV!MoveTab, OV!Step, OV!HighlightIsShown
  <2>3. ASSUME NEW c \in Conns, NEW b \in BOOLEAN, NEW w \in OV!Workspaces,
               OV!MoveWorkspace(c, b) \/ OV!Jump(c, w)
        PROVE  OV!HighlightIsShown
    BY <2>3 DEF OV!MoveWorkspace, OV!Jump, OV!HighlightIsShown
  <2>4. ASSUME NEW c \in Conns, OV!Confirm(c) \/ OV!CloseConfirmed(c) \/ OV!Cancel(c) \/ OV!Broadcast(c)
        PROVE  OV!HighlightIsShown
    BY <2>4 DEF OV!Confirm, OV!CloseConfirmed, OV!Cancel, OV!Broadcast, OV!mc, OV!HighlightIsShown
  <2>5. ASSUME NEW t \in OV!Tabs, NEW w \in OV!Workspaces,
               OV!Close(t) \/ OV!Open(t, w) \/ OV!ChangeDirectory(t, w)
        PROVE  OV!HighlightIsShown
    BY <2>5 DEF OV!Close, OV!Open, OV!ChangeDirectory, OV!mc, OV!HighlightIsShown
  <2>6. \E w : w \in OV!Workspaces
    BY DEF OV!Workspaces
  <2>. QED
    BY <1>3, <2>1, <2>2, <2>3, <2>4, <2>5, <2>6 DEF OV!Next
<1>4. OverviewTypes => OV!TypeOK
  BY DEF OverviewTypes
<1>. QED
  BY <1>1, <1>2, <1>3, <1>4, PTL DEF OV!Spec

=============================================================================

---------------------- MODULE InspectionSessions_proofs ----------------------
(***************************************************************************)
(* The tables of the package inspections agree with each other and with    *)
(* what the clients were told, and an inspection that is over stays over,  *)
(* for every number of inspections, clients and limits.                    *)
(*                                                                         *)
(* The invariant looks at one token at a time.  What the launcher waits    *)
(* for is stated without the reply to a start: that reply names the job,   *)
(* but only the end of the job, or a start that failed, completes a launch,*)
(* so a launch whose unit has ended has one of these two on its way.       *)
(***************************************************************************)
EXTENDS InspectionSessions, TLAPS, FiniteSetTheorems

\* A launch that waits for the subscription waits for one that is asked for; a
\* submitted one has a unit that has not ended, or an answer that will end it.
Caused(t) ==
    launcher[t] # None =>
        IF ~launcher[t].submitted THEN subscription = "pending"
        ELSE \/ units[t] \in {"requested", "running"}
             \/ \E m \in bus : m.token = t /\ (m.kind = "job" \/ ~m.ok)

\* What the client was told of an inspection fits what becomes of it.
Told(t) ==
    /\ t > begun => sessions[t] = None /\ told[t] = {}
    /\ t \in ended => sessions[t] = None
    /\ sessions[t] # None =>
           told[t] = IF sessions[t].complete THEN {"review"} ELSE {}

Waits(t) == launcher[t] # None <=> sessions[t] # None /\ ~sessions[t].complete

Types ==
    /\ up \in BOOLEAN
    /\ sessions \in [Token -> Session \cup {None}]
    /\ lease \in Token \cup {None}
    /\ launcher \in [Token -> Launch \cup {None}]
    /\ subscription \in {"none", "pending", "ready", "failed"}
    /\ units \in [Token -> {"none", "requested", "running", "ended"}]
    /\ bus \subseteq Message
    /\ directories \subseteq Token
    /\ gone \subseteq Sender
    /\ begun \in 0..MaxToken /\ ended \subseteq 1..begun
    /\ told \in [Token -> SUBSET {"review", "failure"}]

Owned(s) == {t \in Active(sessions) : sessions[t].owner = s}
Limits ==
    /\ Cardinality(Active(sessions)) <= MaxActive
    /\ \A s \in Sender : Cardinality(Owned(s)) <= MaxPerSender

Leased == lease # None => lease \in ended /\ told[lease] = {"review"}

\* A manager that is down has no sessions, and nobody is answered.
DownIsEmpty ==
    ~up => lease = None /\ bus = {} /\ \A t \in Token : sessions[t] = None

SessionInv ==
    /\ Types
    /\ Limits
    /\ \A t \in Token : Waits(t) /\ Told(t) /\ Caused(t)
    /\ DirectoriesBelong
    /\ Leased
    /\ DownIsEmpty

-----------------------------------------------------------------------------
(* Lemmas *)

LEMMA TokensAreFinite ==
    ASSUME NEW S \in SUBSET Token
    PROVE  IsFiniteSet(S) /\ Cardinality(S) \in Nat
<1>1. IsFiniteSet(Token)
    BY FS_Interval, InspectionAssumption DEF Token
<1> QED BY <1>1, FS_Subset, FS_CardinalityType

\* Sessions that are not more, and not of other owners, keep the limits.
LEMMA FewerSessions ==
    ASSUME Limits, Active(sessions') \subseteq Active(sessions),
           \A t \in Active(sessions') : sessions'[t].owner = sessions[t].owner
    PROVE  Limits'
<1>1. ASSUME NEW S \in SUBSET Token, NEW T \in SUBSET S, NEW n \in Nat,
             Cardinality(S) <= n
      PROVE  Cardinality(T) <= n
    <2>1. Cardinality(T) <= Cardinality(S)
        BY TokensAreFinite, FS_Subset
    <2> QED BY <1>1, <2>1, TokensAreFinite
<1>2. Active(sessions) \in SUBSET Token /\ Active(sessions') \in SUBSET Token
    BY DEF Active
<1>3. \A s \in Sender : Owned(s)' \in SUBSET Owned(s)
                        /\ Owned(s) \in SUBSET Token
    BY <1>2 DEF Owned
<1>4. Cardinality(Active(sessions')) <= MaxActive
    BY <1>1, <1>2, InspectionAssumption DEF Limits
<1>5. ASSUME NEW s \in Sender PROVE Cardinality(Owned(s)') <= MaxPerSender
    BY <1>1, <1>3, InspectionAssumption DEF Limits
<1> QED BY <1>4, <1>5 DEF Limits

\* Sessions that end, for whatever reason: the launcher forgets them, their
\* directories go, and no answer that is still awaited is lost.
LEMMA CloseIsSound ==
    ASSUME SessionInv, up, lease = None,
           NEW expired \in SUBSET Active(sessions),
           NEW others \in SUBSET Active(sessions),
           Close(expired, others),
           UNCHANGED <<up, lease, units, begun>>,
           gone' \subseteq Sender,
           subscription' \in {"none", "pending", "ready", "failed"},
           \/ subscription' = subscription
           \/ \A t \in Active(launcher) :
                  t \in expired \cup others \/ launcher[t].submitted,
           bus' \subseteq bus,
           \A m \in bus \ bus' : \/ m.kind = "reply" /\ m.ok
                                 \/ launcher'[m.token] = None
    PROVE  SessionInv'
<1> DEFINE closed == expired \cup others
<1>t. Types
    BY DEF SessionInv
<1>1. /\ closed \in SUBSET Token
      /\ \A t \in Token :
             /\ sessions'[t] = IF t \in closed THEN None ELSE sessions[t]
             /\ launcher'[t] = IF t \in closed THEN None ELSE launcher[t]
             /\ told'[t] = IF t \in expired THEN told[t] \cup {"failure"}
                           ELSE told[t]
      /\ directories' = directories \ closed /\ ended' = ended \cup closed
    BY <1>t DEF Types, Close, Active, Failed, Without
<1>2. closed \subseteq 1..begun
    BY <1>t DEF SessionInv, Told, Active, Types, Token
<1>3. Types'
    <2>1. /\ sessions' \in [Token -> Session \cup {None}]
          /\ launcher' \in [Token -> Launch \cup {None}]
        BY <1>t DEF Types, Close, Without
    <2>2. told' \in [Token -> SUBSET {"review", "failure"}]
        BY <1>t DEF Types, Close, Failed
    <2>3. ended' \subseteq 1..begun
        BY <1>t, <1>1, <1>2 DEF Types
    <2> QED BY <1>t, <1>1, <2>1, <2>2, <2>3 DEF Types
<1>4. Limits'
    BY <1>1, FewerSessions DEF SessionInv, Active
<1>5. ASSUME NEW t \in Token PROVE Waits(t)' /\ Told(t)'
    BY <1>1, <1>2 DEF SessionInv, Waits, Told, Active
<1>6. ASSUME NEW t \in Token PROVE Caused(t)'
    <2>1. Caused(t)
        BY DEF SessionInv
    <2>2. CASE t \in closed
        BY <1>1, <2>2 DEF Caused
    <2>3. CASE t \notin closed /\ launcher[t] # None
        <3>1. launcher'[t] = launcher[t] /\ t \in Active(launcher)
            BY <1>1, <2>3 DEF Active
        <3>2. \A m \in bus : m.token = t /\ (m.kind = "job" \/ ~m.ok)
                             => m \in bus'
            BY <1>t, <2>3, <3>1 DEF Types, Message
        <3> QED BY <2>1, <2>3, <3>1, <3>2 DEF Caused
    <2>4. CASE t \notin closed /\ launcher[t] = None
        BY <1>1, <2>4 DEF Caused
    <2> QED BY <2>2, <2>3, <2>4
<1>7. DirectoriesBelong'
    BY <1>1 DEF SessionInv, DirectoriesBelong, Active
<1>8. Leased' /\ DownIsEmpty'
    BY DEF Leased, DownIsEmpty
<1> QED BY <1>3, <1>4, <1>5, <1>6, <1>7, <1>8 DEF SessionInv

\* Only inspections that have begun are known, and those that are over are not.
LEMMA Known ==
    ASSUME SessionInv
    PROVE  /\ Active(sessions) \subseteq 1..begun
           /\ Active(sessions) \cap ended = {}
           /\ \A t \in Token : t > begun => t \notin 1..begun
           /\ ended \subseteq Token
BY InspectionAssumption DEF SessionInv, Told, Active, Types, Token

LEMMA SessionInit == Init => SessionInv
<1> SUFFICES ASSUME Init PROVE SessionInv
    OBVIOUS
<1>1. Active(sessions) = {} /\ \A s \in Sender : Owned(s) = {}
    BY DEF Init, Active, Owned
<1>2. Limits
    BY <1>1, FS_EmptySet, InspectionAssumption DEF Limits
<1>3. begun \in 0..MaxToken /\ ended \subseteq 1..begun
    BY InspectionAssumption DEF Init
<1>4. Types
    BY <1>3 DEF Init, Types
<1> QED
    BY <1>2, <1>4 DEF Init, SessionInv, Waits, Told, Caused,
       DirectoriesBelong, Leased, DownIsEmpty, Active

-----------------------------------------------------------------------------
(* The steps *)

\* An inspection begins: its number is new, and there is room for it.
LEMMA BeginIsSound ==
    ASSUME SessionInv, NEW s \in Sender, Begin(s)
    PROVE  SessionInv'
<1> DEFINE new == begun + 1
           kept == Active(sessions) \ Due
<1>t. Types /\ up /\ lease = None
    BY DEF SessionInv, Begin, Idle
<1>d. Due \in SUBSET Active(sessions) /\ {} \in SUBSET Active(sessions)
    BY DEF Due
<1>n. /\ new \in Token /\ new \notin 1..begun /\ begun' = new
      /\ begun \in Nat /\ new \in 1..begun' /\ 1..begun \subseteq 1..begun'
      /\ begun' \in 0..MaxToken
    BY <1>t, InspectionAssumption DEF Types, Begin, Token
<1>1. CASE Close(Due, {}) /\ UNCHANGED <<subscription, units>>
    \* The number is lost, and with it nothing else.
    <2>1. /\ \A t \in Token :
                 /\ sessions'[t] = IF t \in Due THEN None ELSE sessions[t]
                 /\ launcher'[t] = IF t \in Due THEN None ELSE launcher[t]
                 /\ told'[t] = IF t \in Due THEN told[t] \cup {"failure"}
                               ELSE told[t]
          /\ directories' = directories \ Due /\ ended' = ended \cup Due
          /\ UNCHANGED <<up, lease, bus, gone>>
        BY <1>1, <1>t DEF Types, Close, Without, Failed, Begin
    <2>2. Due \subseteq 1..begun
        BY <1>t, <1>d DEF SessionInv, Told, Active, Types, Token
    <2>3. Types'
        <3>1. /\ sessions' \in [Token -> Session \cup {None}]
              /\ launcher' \in [Token -> Launch \cup {None}]
            BY <1>1, <1>t DEF Types, Close, Without
        <3>2. told' \in [Token -> SUBSET {"review", "failure"}]
            BY <1>1, <1>t DEF Types, Close, Failed
        <3>3. ended' \subseteq 1..begun'
            BY <1>t, <1>n, <2>1, <2>2 DEF Types
        <3> QED BY <1>1, <1>t, <1>n, <2>1, <3>1, <3>2, <3>3 DEF Types
    <2>4. Limits'
        BY <2>1, FewerSessions DEF SessionInv, Active
    <2>5. ASSUME NEW t \in Token
          PROVE  t > begun' => t > begun /\ t \notin Due
        BY <1>n, <2>2 DEF Token
    <2>6. ASSUME NEW t \in Token PROVE Waits(t)' /\ Told(t)' /\ Caused(t)'
        <3>1. Waits(t)'
            BY <1>d, <2>1 DEF SessionInv, Waits
        <3>2. Told(t)'
            BY <1>d, <2>1, <2>5 DEF SessionInv, Told
        <3>3. Caused(t)'
            BY <1>1, <2>1 DEF SessionInv, Caused
        <3> QED BY <3>1, <3>2, <3>3
    <2>7. DirectoriesBelong'
        BY <1>t, <2>1, <1>d DEF SessionInv, DirectoriesBelong, Active
    <2>8. Leased' /\ DownIsEmpty'
        BY <1>t, <2>1 DEF Leased, DownIsEmpty
    <2> QED BY <2>3, <2>4, <2>6, <2>7, <2>8 DEF SessionInv
<1>2. CASE ~(Close(Due, {}) /\ UNCHANGED <<subscription, units>>)
    <2> DEFINE session == [owner |-> s, complete |-> FALSE, due |-> FALSE]
               launch == [submitted |-> subscription = "ready",
                          replied |-> FALSE]
    <2>0. /\ subscription # "failed"
          /\ sessions' = [Without(sessions, Due) EXCEPT ![new] = session]
          /\ launcher' = [Without(launcher, Due) EXCEPT ![new] = launch]
          /\ directories' = (directories \ Due) \cup {new}
          /\ told' = Failed(Due)
          /\ ended' = ended \cup Due
          /\ subscription' =
                 IF subscription = "none" THEN "pending" ELSE subscription
          /\ units' = IF subscription = "ready"
                      THEN [units EXCEPT ![new] = "requested"] ELSE units
          /\ UNCHANGED <<up, lease, bus, gone>>
        <3> HIDE DEF new, session, launch
        <3>1. \/ Close(Due, {}) /\ UNCHANGED <<subscription, units>>
              \/ /\ subscription # "failed"
                 /\ sessions' = [Without(sessions, Due) EXCEPT ![new] = session]
                 /\ launcher' = [Without(launcher, Due) EXCEPT ![new] = launch]
                 /\ directories' = (directories \ Due) \cup {new}
                 /\ told' = Failed(Due)
                 /\ ended' = ended \cup Due
                 /\ subscription' =
                       IF subscription = "none" THEN "pending" ELSE subscription
                 /\ units' = IF subscription = "ready"
                             THEN [units EXCEPT ![new] = "requested"] ELSE units
            BY Zenon DEF Begin, new, session, launch
        <3>2. UNCHANGED <<up, lease, bus, gone>>
            BY DEF Begin
        <3> QED BY <1>2, <3>1, <3>2, Zenon
    <2>s. session \in Session /\ launch \in Launch
          /\ session # None /\ launch # None
        <3>1. session \in Session
            BY DEF Session
        <3>2. launch \in Launch
            <4>1. CASE subscription = "ready"
                <5>1. launch = [submitted |-> TRUE, replied |-> FALSE]
                    BY <4>1
                <5> QED BY <5>1 DEF Launch
            <4>2. CASE subscription # "ready"
                <5>1. launch = [submitted |-> FALSE, replied |-> FALSE]
                    BY <4>2
                <5> QED BY <5>1 DEF Launch
            <4> QED BY <4>1, <4>2
        <3> QED BY <3>1, <3>2, EntryAssumption
    <2>f. /\ session.owner = s /\ ~session.complete
          /\ launch.submitted <=> subscription = "ready"
        OBVIOUS
    <2> HIDE DEF session, launch
    <2>1. \A t \in Token :
              /\ sessions'[t] = IF t = new THEN session
                                ELSE IF t \in Due THEN None ELSE sessions[t]
              /\ launcher'[t] = IF t = new THEN launch
                                ELSE IF t \in Due THEN None ELSE launcher[t]
              /\ told'[t] = IF t \in Due THEN told[t] \cup {"failure"}
                            ELSE told[t]
              /\ units'[t] = IF t = new /\ subscription = "ready"
                             THEN "requested" ELSE units[t]
        BY <1>t, <2>0 DEF Types, Without, Failed
    <2>2. Due \subseteq 1..begun /\ new \notin Due
        BY <1>t, <1>d, <1>n DEF SessionInv, Told, Active, Types, Token
    <2>3. Types'
        <3>1. /\ sessions' \in [Token -> Session \cup {None}]
              /\ launcher' \in [Token -> Launch \cup {None}]
            BY <1>t, <1>n, <2>0, <2>s DEF Types, Without
        <3>2. told' \in [Token -> SUBSET {"review", "failure"}]
            BY <1>t, <2>0 DEF Types, Failed
        <3>3. ended' \subseteq 1..begun'
            BY <1>t, <1>n, <2>0, <2>2 DEF Types
        <3>4. /\ units' \in [Token -> {"none", "requested", "running", "ended"}]
              /\ subscription' \in {"none", "pending", "ready", "failed"}
              /\ directories' \subseteq Token
            BY <1>t, <1>n, <2>0 DEF Types
        <3> QED BY <1>t, <1>n, <2>0, <3>1, <3>2, <3>3, <3>4 DEF Types
    <2>4. Limits'
        <3>0. Room(s)
            BY DEF Begin
        <3>1. /\ Cardinality(kept) < MaxActive
              /\ Cardinality({u \in kept : sessions[u].owner = s})
                     < MaxPerSender
            BY <3>0 DEF Room
        <3>2. Active(sessions') = kept \cup {new}
            BY <1>n, <2>1, <2>2, <2>s DEF Active
        <3>3. Owned(s)' = {u \in kept : sessions[u].owner = s} \cup {new}
            BY <1>n, <2>1, <2>2, <2>f, <3>2 DEF Owned, Active
        <3>4. ASSUME NEW S \in SUBSET Token, NEW n \in Nat, Cardinality(S) < n
              PROVE  Cardinality(S \cup {new}) <= n
            <4>1. Cardinality(S \cup {new}) =
                      IF new \in S THEN Cardinality(S) ELSE Cardinality(S) + 1
                BY TokensAreFinite, FS_AddElement
            <4> QED BY <3>4, <4>1, TokensAreFinite
        <3>5. /\ kept \in SUBSET Token
              /\ {u \in kept : sessions[u].owner = s} \in SUBSET Token
            BY DEF Active
        <3>6. Cardinality(Active(sessions')) <= MaxActive
            BY <3>1, <3>2, <3>4, <3>5, InspectionAssumption
        <3>7. Cardinality(Owned(s)') <= MaxPerSender
            BY <3>1, <3>3, <3>4, <3>5, InspectionAssumption
        <3>8. ASSUME NEW r \in Sender, r # s
              PROVE  Cardinality(Owned(r)') <= MaxPerSender
            <4>1. Owned(r)' \in SUBSET Owned(r) /\ Owned(r) \in SUBSET Token
                BY <1>n, <2>1, <2>f, <3>2, <3>8 DEF Owned, Active
            <4>2. Cardinality(Owned(r)') <= Cardinality(Owned(r))
                BY <4>1, TokensAreFinite, FS_Subset
            <4>3. Cardinality(Owned(r)) <= MaxPerSender
                BY DEF SessionInv, Limits
            <4>4. Owned(r)' \in SUBSET Token
                BY <4>1
            <4>5. Cardinality(Owned(r)') \in Nat /\ Cardinality(Owned(r)) \in Nat
                BY <4>1, <4>4, TokensAreFinite
            <4> QED BY <4>2, <4>3, <4>5, InspectionAssumption
        <3> QED BY <3>6, <3>7, <3>8 DEF Limits
    <2>5. ASSUME NEW t \in Token PROVE t > begun' => t > begun /\ t # new
        BY <1>n DEF Token
    <2>6. ASSUME NEW t \in Token PROVE Waits(t)'
        BY <2>1, <2>s, <2>f DEF SessionInv, Waits, Active, Due
    <2>7. ASSUME NEW t \in Token PROVE Told(t)'
        <3>1. CASE t = new
            <4>1. t > begun /\ t \notin ended
                BY <1>t, <1>n, <3>1 DEF Types
            <4>2. told[t] = {}
                BY <4>1 DEF SessionInv, Told
            <4>3. told'[t] = {} /\ sessions'[t] = session /\ t \notin ended'
                BY <2>0, <2>1, <2>2, <3>1, <4>1, <4>2
            <4>4. ~(t > begun')
                BY <1>n, <3>1
            <4> QED BY <2>f, <4>3, <4>4 DEF Told
        <3>2. CASE t # new
            <4>1. t > begun' => t > begun /\ t \notin Due
                BY <2>2, <2>5, Known
            <4> QED BY <2>0, <2>1, <3>2, <4>1 DEF SessionInv, Told
        <3> QED BY <3>1, <3>2
    <2>8. ASSUME NEW t \in Token PROVE Caused(t)'
        <3>1. CASE t = new /\ subscription = "ready"
            BY <2>1, <2>f, <3>1 DEF Caused
        <3>2. CASE t = new /\ subscription # "ready"
            <4>1. ~launcher'[t].submitted /\ subscription' = "pending"
                BY ZenonT(60), <1>t, <2>0, <2>1, <2>f, <3>2 DEF Types
            <4> QED BY <4>1 DEF Caused
        <3>3. CASE t # new /\ t \notin Due
            <4>1. /\ launcher'[t] = launcher[t] /\ units'[t] = units[t]
                  /\ bus' = bus
                  /\ subscription = "pending" => subscription' = "pending"
                BY <2>0, <2>1, <3>3
            <4> QED BY <4>1 DEF SessionInv, Caused
        <3>4. CASE t # new /\ t \in Due
            BY <2>1, <3>4 DEF Caused
        <3> QED BY <3>1, <3>2, <3>3, <3>4
    <2>9. DirectoriesBelong'
        BY ZenonT(60), <1>t, <1>n, <1>d, <2>0, <2>1, <2>s
           DEF SessionInv, DirectoriesBelong, Active
    <2>10. Leased' /\ DownIsEmpty'
        BY <1>t, <2>0 DEF Leased, DownIsEmpty
    <2> QED BY <2>3, <2>4, <2>6, <2>7, <2>8, <2>9, <2>10 DEF SessionInv
<1> QED BY <1>1, <1>2

\* The package is taken for an installation, with its directory.
LEMMA TakeIsSound ==
    ASSUME SessionInv, NEW t \in Token, TakeForInstall(t)
    PROVE  SessionInv'
<1>t. /\ Types /\ up /\ lease = None /\ t \in Active(sessions) \ Due
      /\ sessions[t].complete
    BY DEF SessionInv, TakeForInstall, Idle
<1>d. Due \in SUBSET Active(sessions) /\ {t} \in SUBSET Active(sessions)
    BY <1>t DEF Due
<1>1. CASE Close(Due, {t}) /\ UNCHANGED lease
    <2>1. UNCHANGED <<up, lease, units, begun, gone, bus, subscription>>
        BY <1>1 DEF TakeForInstall
    <2>2. /\ gone' \subseteq Sender /\ bus' \subseteq bus /\ bus \ bus' = {}
          /\ subscription' \in {"none", "pending", "ready", "failed"}
        BY <1>t, <2>1 DEF Types
    <2> QED BY <1>1, <1>t, <1>d, <2>1, <2>2, CloseIsSound
<1>2. CASE ~(Close(Due, {t}) /\ UNCHANGED lease)
    <2>0. /\ sessions' = Without(sessions, Due \cup {t})
          /\ launcher' = Without(launcher, Due \cup {t})
          /\ directories' = directories \ Due
          /\ told' = Failed(Due)
          /\ ended' = ended \cup Due \cup {t}
          /\ lease' = t
          /\ UNCHANGED <<up, subscription, units, bus, gone, begun>>
        BY <1>2 DEF TakeForInstall
    <2>1. \A u \in Token :
              /\ sessions'[u] = IF u \in Due \cup {t} THEN None ELSE sessions[u]
              /\ launcher'[u] = IF u \in Due \cup {t} THEN None ELSE launcher[u]
              /\ told'[u] = IF u \in Due THEN told[u] \cup {"failure"}
                            ELSE told[u]
        BY <1>t, <2>0 DEF Types, Without, Failed
    <2>2. Due \cup {t} \subseteq 1..begun
        BY <1>d, Known
    <2>3. Types'
        <3>1. /\ sessions' \in [Token -> Session \cup {None}]
              /\ launcher' \in [Token -> Launch \cup {None}]
            BY <1>t, <2>0 DEF Types, Without
        <3>2. told' \in [Token -> SUBSET {"review", "failure"}]
            BY <1>t, <2>0 DEF Types, Failed
        <3>3. ended' \subseteq 1..begun
            BY <1>t, <2>0, <2>2 DEF Types
        <3> QED BY <1>t, <2>0, <3>1, <3>2, <3>3 DEF Types
    <2>4. Limits'
        BY <2>1, FewerSessions DEF SessionInv, Active
    <2>5. ASSUME NEW u \in Token PROVE Waits(u)' /\ Told(u)' /\ Caused(u)'
        <3>1. Waits(u)'
            BY ZenonT(60), <1>d, <2>0, <2>1, <2>2
               DEF SessionInv, Waits, Active, Token
        <3>2. Told(u)'
            BY ZenonT(60), <1>d, <2>0, <2>1, <2>2 DEF SessionInv, Told, Active, Token
        <3>3. Caused(u)'
            BY ZenonT(60), <1>d, <2>0, <2>1, <2>2 DEF SessionInv, Caused, Token
        <3> QED BY <3>1, <3>2, <3>3
    <2>6. DirectoriesBelong'
        BY ZenonT(60), <1>t, <1>d, <2>0, <2>1, InspectionAssumption
           DEF SessionInv, DirectoriesBelong, Active
    <2>7. told'[t] = {"review"} /\ t \in ended'
        BY <1>t, <2>0, <2>1 DEF SessionInv, Told, Active
    <2>8. Leased' /\ DownIsEmpty'
        BY <1>t, <2>0, <2>7 DEF Leased, DownIsEmpty
    <2> QED BY <2>3, <2>4, <2>5, <2>6, <2>8 DEF SessionInv
<1> QED BY <1>1, <1>2

\* The installation returns, and with it the last directory of its inspection.
LEMMA ReturnIsSound ==
    ASSUME SessionInv, InstallReturns
    PROVE  SessionInv'
<1>1. /\ up /\ lease # None /\ directories' = directories \ {lease}
      /\ lease' = None /\ lease \in ended
      /\ UNCHANGED <<up, sessions, launcher, subscription, units, bus, gone,
                     begun, told, ended>>
    BY DEF InstallReturns, history, SessionInv, Leased
<1>2. Types' /\ Limits'
    BY <1>1 DEF SessionInv, Types, Limits, Active, Owned
<1>3. ASSUME NEW t \in Token PROVE Waits(t)' /\ Told(t)' /\ Caused(t)'
    BY <1>1 DEF SessionInv, Waits, Told, Caused
<1>4. directories = Active(sessions) \cup {lease} /\ lease \notin Active(sessions)
    BY <1>1, Known DEF SessionInv, DirectoriesBelong
<1>5. DirectoriesBelong' /\ Leased' /\ DownIsEmpty'
    BY <1>1, <1>4 DEF DirectoriesBelong, Leased, DownIsEmpty, Active
<1> QED BY <1>2, <1>3, <1>5 DEF SessionInv

\* Only the units, the answers on their way and the flag of a launch change.
LEMMA AnswerIsSound ==
    ASSUME SessionInv, Types',
           UNCHANGED <<up, sessions, lease, directories, begun, told, ended>>,
           \A t \in Token : launcher'[t] # None <=> launcher[t] # None,
           \A t \in Token : Caused(t)',
           ~up => bus' = bus
    PROVE  SessionInv'
<1>1. Limits'
    BY DEF SessionInv, Limits, Active, Owned
<1>2. ASSUME NEW t \in Token PROVE Waits(t)' /\ Told(t)'
    BY DEF SessionInv, Waits, Told
<1>3. DirectoriesBelong' /\ Leased' /\ DownIsEmpty'
    BY DEF SessionInv, DirectoriesBelong, Leased, DownIsEmpty, Active
<1> QED BY <1>1, <1>2, <1>3 DEF SessionInv

\* A completed inspection waits for its installation or its expiry.
LEMMA ReviewIsSound ==
    ASSUME SessionInv, up, lease = None, NEW t \in Active(launcher),
           sessions' = [sessions EXCEPT ![t].complete = TRUE],
           launcher' = Without(launcher, {t}),
           told' = [told EXCEPT ![t] = @ \cup {"review"}],
           UNCHANGED <<up, lease, subscription, units, directories, gone, begun,
                       ended>>,
           bus' \subseteq bus,
           \A m \in bus \ bus' : launcher'[m.token] = None
    PROVE  SessionInv'
<1>t. /\ Types /\ t \in Token /\ sessions[t] # None /\ sessions[t] \in Session
      /\ ~sessions[t].complete /\ told[t] = {}
    BY DEF SessionInv, Types, Active, Waits, Told
<1> DEFINE reviewed == [sessions[t] EXCEPT !.complete = TRUE]
<1>r. /\ reviewed \in Session /\ reviewed # None
      /\ reviewed.complete /\ reviewed.owner = sessions[t].owner
    BY <1>t, EntryAssumption DEF Session
<1>s. sessions' = [sessions EXCEPT ![t] = reviewed]
    OBVIOUS
<1> HIDE DEF reviewed
<1>1. \A u \in Token :
          /\ sessions'[u] = IF u = t THEN reviewed ELSE sessions[u]
          /\ launcher'[u] = IF u = t THEN None ELSE launcher[u]
          /\ told'[u] = IF u = t THEN {"review"} ELSE told[u]
    BY <1>t, <1>s DEF Types, Without
<1>2. Types'
    <2>1. /\ sessions' \in [Token -> Session \cup {None}]
          /\ launcher' \in [Token -> Launch \cup {None}]
          /\ told' \in [Token -> SUBSET {"review", "failure"}]
        BY ZenonT(60), <1>t, <1>r, <1>s DEF Types, Without
    <2> QED BY <1>t, <2>1 DEF Types
<1>e. sessions[t] # None /\ reviewed # None
    BY <1>t, <1>r
<1>3. Active(sessions') = Active(sessions)
    <2>1. \A u \in Token : sessions'[u] # None <=> sessions[u] # None
        BY <1>e, <1>1
    <2> QED BY <2>1 DEF Active
<1>4. Limits'
    <2>1. \A u \in Token : u \in Active(sessions') =>
              sessions'[u].owner = sessions[u].owner
        BY <1>1, <1>r
    <2> QED BY <1>3, <2>1, FewerSessions DEF SessionInv, Active
<1>5. ASSUME NEW u \in Token PROVE Waits(u)' /\ Told(u)'
    <2>1. CASE u = t
        <3>1. launcher'[u] = None /\ sessions'[u] = reviewed
              /\ told'[u] = {"review"}
            BY <1>1, <2>1
        <3>2. ~(u > begun) /\ u \notin ended
            BY <1>e, <2>1 DEF SessionInv, Told
        <3> QED BY <1>r, <3>1, <3>2 DEF Waits, Told
    <2>2. CASE u # t
        <3>1. launcher'[u] = launcher[u] /\ sessions'[u] = sessions[u]
              /\ told'[u] = told[u]
            BY <1>1, <2>2
        <3> QED BY <3>1 DEF SessionInv, Waits, Told
    <2> QED BY <2>1, <2>2
<1>6. ASSUME NEW u \in Token PROVE Caused(u)'
    <2>1. CASE u = t
        BY <1>1, <2>1 DEF Caused
    <2>2. CASE u # t /\ launcher[u] # None
        <3>1. launcher'[u] = launcher[u]
            BY <1>1, <2>2
        <3>2. \A m \in bus : m.token = u => m \in bus'
            BY <2>2, <3>1
        <3> QED BY <2>2, <3>1, <3>2 DEF SessionInv, Caused
    <2>3. CASE u # t /\ launcher[u] = None
        BY <1>1, <2>3 DEF Caused
    <2> QED BY <2>1, <2>2, <2>3
<1>7. DirectoriesBelong' /\ Leased' /\ DownIsEmpty'
    BY <1>3 DEF SessionInv, DirectoriesBelong, Leased, DownIsEmpty
<1> QED BY <1>2, <1>4, <1>5, <1>6, <1>7 DEF SessionInv

\* The reply to Subscribe submits every launch, or fails every launch.
LEMMA SubscribeIsSound ==
    ASSUME SessionInv, NEW ok \in BOOLEAN, SubscribeReplies(ok)
    PROVE  SessionInv'
<1>t. /\ Types /\ up /\ lease = None
      /\ UNCHANGED <<up, lease, bus, gone, begun>>
    BY DEF SessionInv, SubscribeReplies, Idle
<1>1. CASE ok
    <2>1. /\ subscription' = "ready"
          /\ launcher' = [t \in Token |->
                 IF t \in Active(launcher)
                 THEN [launcher[t] EXCEPT !.submitted = TRUE] ELSE None]
          /\ units' = [t \in Token |->
                 IF t \in Active(launcher) THEN "requested" ELSE units[t]]
          /\ UNCHANGED <<sessions, directories, told, ended>>
        BY <1>1 DEF SubscribeReplies
    <2>2. ASSUME NEW t \in Active(launcher)
          PROVE  /\ launcher'[t] \in Launch /\ launcher'[t] # None
                 /\ launcher'[t].submitted /\ units'[t] = "requested"
        <3>1. t \in Token /\ launcher[t] \in Launch
            BY <1>t DEF Active, Types
        <3>2. launcher'[t] = [launcher[t] EXCEPT !.submitted = TRUE]
              /\ units'[t] = "requested"
            BY <2>1, <3>1
        <3> QED BY <3>1, <3>2, EntryAssumption DEF Launch
    <2>3. ASSUME NEW t \in Token, t \notin Active(launcher)
          PROVE  launcher'[t] = None
        BY <2>1, <2>3
    <2>4. Types'
        <3>1. /\ launcher' \in [Token -> Launch \cup {None}]
              /\ units' \in [Token -> {"none", "requested", "running", "ended"}]
            BY <1>t, <2>1, <2>2, <2>3 DEF Types
        <3> QED BY <1>t, <2>1, <3>1 DEF Types
    <2>5. ASSUME NEW t \in Token PROVE Caused(t)'
        BY <2>2, <2>3 DEF Caused
    <2>6. \A t \in Token : launcher'[t] # None <=> launcher[t] # None
        BY <2>2, <2>3 DEF Active
    <2> QED BY <1>t, <2>1, <2>4, <2>5, <2>6, AnswerIsSound
<1>2. CASE ~ok
    <2> DEFINE waiting == Active(launcher)
               expired == waiting \cup (IF waiting \cap Due = {} THEN {} ELSE Due)
    <2>1. subscription' = "failed" /\ Close(expired, {}) /\ UNCHANGED units
        BY <1>2 DEF SubscribeReplies, Fails
    <2>2. expired \in SUBSET Active(sessions) /\ {} \in SUBSET Active(sessions)
        BY DEF SessionInv, Waits, Active, Due
    <2>3. /\ gone' \subseteq Sender /\ bus' \subseteq bus /\ bus \ bus' = {}
          /\ \A t \in Active(launcher) : t \in expired \cup {}
        BY <1>t DEF Types
    <2> HIDE DEF expired
    <2> QED BY <1>t, <2>1, <2>2, <2>3, CloseIsSound
<1> QED BY <1>1, <1>2

\* Everything that can end together is in the table of sessions.
LEMMA FailedAreSessions ==
    ASSUME SessionInv, NEW tokens \in SUBSET Active(launcher)
    PROVE  /\ tokens \cup (IF tokens \cap Due = {} THEN {} ELSE Due)
                  \in SUBSET Active(sessions)
           /\ Due \in SUBSET Active(sessions)
           /\ {} \in SUBSET Active(sessions)
BY DEF SessionInv, Waits, Active, Due

\* A failure of launches, one of which an answer on the bus may have reported.
LEMMA FailsIsSound ==
    ASSUME SessionInv, up, lease = None,
           NEW tokens \in SUBSET Active(launcher), Fails(tokens),
           UNCHANGED <<up, lease, subscription, units, gone, begun>>,
           bus' \subseteq bus, \A m \in bus \ bus' : m.token \in tokens
    PROVE  SessionInv'
<1> DEFINE expired == tokens \cup (IF tokens \cap Due = {} THEN {} ELSE Due)
<1>1. expired \in SUBSET Active(sessions) /\ {} \in SUBSET Active(sessions)
    BY FailedAreSessions
<1>2. Close(expired, {}) /\ tokens \subseteq expired
    BY DEF Fails
<1>3. \A t \in tokens : launcher'[t] = None
    BY <1>2 DEF Close, Without, Active
<1>4. gone' \subseteq Sender
      /\ subscription' \in {"none", "pending", "ready", "failed"}
    BY DEF SessionInv, Types
<1> HIDE DEF expired
<1> QED BY <1>1, <1>2, <1>3, <1>4, CloseIsSound

\* The outcome of an inspection, of a launch that is still waited for.
LEMMA CompletesIsSound ==
    ASSUME SessionInv, up, lease = None,
           NEW t \in Active(launcher), NEW ok, Completes(t, ok),
           UNCHANGED <<up, lease, subscription, units, gone, begun>>,
           bus' \subseteq bus, \A m \in bus \ bus' : m.token = t
    PROVE  SessionInv'
<1>1. {t} \in SUBSET Active(launcher)
    OBVIOUS
<1>2. /\ Due \in SUBSET Active(sessions) /\ {} \in SUBSET Active(sessions)
      /\ {t} \in SUBSET Active(sessions)
    BY FailedAreSessions DEF SessionInv, Waits, Active
<1>3. gone' \subseteq Sender
      /\ subscription' \in {"none", "pending", "ready", "failed"}
    BY DEF SessionInv, Types
<1>4. CASE ~ok
    <2>1. Fails({t})
        BY <1>4 DEF Completes
    <2> QED BY <1>1, <2>1, FailsIsSound
<1>5. ASSUME NEW expired \in SUBSET Active(sessions),
             NEW others \in SUBSET Active(sessions),
             Close(expired, others), t \in expired \cup others
      PROVE  SessionInv'
    <2>1. launcher'[t] = None
        BY <1>2, <1>5 DEF Close, Without, Active
    <2> QED BY <1>3, <1>5, <2>1, CloseIsSound
<1>6. CASE ok /\ sessions[t].due
    <2>1. Close(Due, {}) /\ t \in Due
        BY <1>2, <1>6 DEF Completes, Succeeds, Due
    <2> QED BY <1>2, <1>5, <2>1
<1>7. CASE ok /\ ~sessions[t].due
    <2>1. \/ Close({t}, {})
          \/ /\ sessions' = [sessions EXCEPT ![t].complete = TRUE]
             /\ launcher' = Without(launcher, {t})
             /\ told' = [told EXCEPT ![t] = @ \cup {"review"}]
             /\ UNCHANGED <<directories, ended>>
          \/ Close(Due, {t})
        BY <1>7 DEF Completes, Succeeds
    <2>2. CASE Close({t}, {})
        BY <1>2, <1>5, <2>2
    <2>3. CASE Close(Due, {t})
        BY <1>2, <1>5, <2>3
    <2>4. CASE /\ sessions' = [sessions EXCEPT ![t].complete = TRUE]
               /\ launcher' = Without(launcher, {t})
               /\ told' = [told EXCEPT ![t] = @ \cup {"review"}]
               /\ UNCHANGED <<directories, ended>>
        <3>1. launcher'[t] = None
            BY <2>4 DEF Without, Active
        <3> QED BY <2>4, <3>1, ReviewIsSound
    <2> QED BY <2>1, <2>2, <2>3, <2>4
<1> QED BY <1>4, <1>6, <1>7

\* An answer is taken off the bus and changes nothing.
LEMMA IgnoredIsSound ==
    ASSUME SessionInv, up, NEW m \in bus, bus' = bus \ {m},
           launcher[m.token] = None, Ignore,
           UNCHANGED <<up, lease, subscription, units, gone, begun>>
    PROVE  SessionInv'
<1>1. Types'
    BY DEF SessionInv, Types, Ignore
<1>2. ASSUME NEW t \in Token PROVE Caused(t)'
    <2>1. CASE launcher[t] = None
        BY <2>1 DEF Caused, Ignore
    <2>2. CASE launcher[t] # None
        <3>1. \A n \in bus : n.token = t => n \in bus'
            BY <2>2
        <3> QED BY <3>1 DEF SessionInv, Caused, Ignore
    <2> QED BY <2>1, <2>2
<1> QED BY <1>1, <1>2, AnswerIsSound DEF Ignore

LEMMA StartRepliesIsSound ==
    ASSUME SessionInv, NEW m \in bus, StartReplies(m)
    PROVE  SessionInv'
<1>t. /\ Types /\ up /\ lease = None /\ m.token \in Token /\ m.kind = "reply"
      /\ bus' = bus \ {m} /\ m.ok \in BOOLEAN
      /\ UNCHANGED <<up, lease, subscription, units, gone, begun>>
    BY DEF SessionInv, StartReplies, Idle, Types, Message
<1>1. CASE launcher[m.token] = None
    BY <1>1, <1>t, IgnoredIsSound DEF StartReplies
<1>2. CASE launcher[m.token] # None /\ ~m.ok
    <2>1. Fails({m.token}) /\ {m.token} \in SUBSET Active(launcher)
        BY <1>2, <1>t DEF StartReplies, Active
    <2> QED BY <1>t, <2>1, FailsIsSound
<1>3. CASE launcher[m.token] # None /\ m.ok
    <2> DEFINE replied == [launcher[m.token] EXCEPT !.replied = TRUE]
    <2>1. /\ launcher' = [launcher EXCEPT ![m.token] = replied]
          /\ UNCHANGED <<sessions, directories, told, ended>>
        BY <1>3 DEF StartReplies
    <2>2. /\ launcher[m.token] \in Launch /\ replied \in Launch
          /\ replied.submitted = launcher[m.token].submitted
        BY <1>t, <1>3 DEF Types, Launch
    <2>e. replied # None
        BY <2>2, EntryAssumption
    <2> HIDE DEF replied
    <2>3. \A t \in Token :
              launcher'[t] = IF t = m.token THEN replied ELSE launcher[t]
        BY <1>t, <2>1 DEF Types
    <2>4. Types'
        <3>1. launcher' \in [Token -> Launch \cup {None}]
            BY <1>t, <2>1, <2>2 DEF Types
        <3> QED BY <1>t, <2>1, <3>1 DEF Types
    <2>5. \A t \in Token : launcher'[t] # None <=> launcher[t] # None
        BY <1>3, <2>3, <2>e
    <2>6. ASSUME NEW t \in Token PROVE Caused(t)'
        <3>1. /\ launcher'[t] # None <=> launcher[t] # None
              /\ launcher'[t].submitted = launcher[t].submitted
            BY <2>2, <2>3, <2>5
        <3>2. \A n \in bus : n.kind = "job" \/ ~n.ok => n \in bus'
            BY <1>t, <1>3
        <3>3. Caused(t)
            BY DEF SessionInv
        <3>4. units'[t] = units[t] /\ subscription' = subscription
            BY <1>t
        <3> QED BY <3>1, <3>2, <3>3, <3>4 DEF Caused
    <2> QED BY <1>t, <2>1, <2>4, <2>5, <2>6, AnswerIsSound
<1> QED BY <1>t, <1>1, <1>2, <1>3

LEMMA JobRemovedIsSound ==
    ASSUME SessionInv, NEW m \in bus, JobRemoved(m)
    PROVE  SessionInv'
<1>t. /\ up /\ lease = None /\ m.token \in Token
      /\ bus' = bus \ {m}
      /\ UNCHANGED <<up, lease, subscription, units, gone, begun>>
    BY DEF SessionInv, JobRemoved, Idle, Types, Message
<1>1. CASE launcher[m.token] = None
    BY <1>1, <1>t, IgnoredIsSound DEF JobRemoved
<1>2. CASE launcher[m.token] # None
    <2>1. Completes(m.token, m.ok) /\ m.token \in Active(launcher)
        BY <1>2, <1>t DEF JobRemoved, Active
    <2> QED BY <1>t, <2>1, CompletesIsSound
<1> QED BY <1>1, <1>2

\* A step of a unit: its answer reaches a manager that runs.
LEMMA UnitIsSound ==
    ASSUME SessionInv, NEW t \in Token, UnitStarts(t) \/ UnitEnds(t)
    PROVE  SessionInv'
<1>t. /\ Types
      /\ UNCHANGED <<up, sessions, lease, launcher, subscription, directories,
                     gone, begun, told, ended>>
    BY DEF SessionInv, UnitStarts, UnitEnds, manager, history
<1>1. PICK state, kind, ok :
          /\ state \in {"running", "ended"} /\ kind \in {"reply", "job"}
          /\ ok \in BOOLEAN
          /\ units' = [units EXCEPT ![t] = state]
          /\ Send(kind, t, ok)
          /\ state = "running" \/ kind = "job" \/ ~ok
    <2>1. CASE UnitStarts(t)
        <3>1. \/ units' = [units EXCEPT ![t] = "running"]
                 /\ Send("reply", t, TRUE)
              \/ units' = [units EXCEPT ![t] = "ended"]
                 /\ Send("reply", t, FALSE)
            BY <2>1 DEF UnitStarts
        <3> HIDE DEF Send
        <3> QED BY <3>1
    <2>2. CASE UnitEnds(t)
        <3>1. units' = [units EXCEPT ![t] = "ended"]
              /\ \E ok \in BOOLEAN : Send("job", t, ok)
            BY <2>2 DEF UnitEnds
        <3> QED BY <3>1
    <2> QED BY <2>1, <2>2
<1> DEFINE message == [kind |-> kind, token |-> t, ok |-> ok]
<1>2. /\ message \in Message /\ message.token = t
      /\ message.kind = kind /\ message.ok = ok
    BY <1>1 DEF Message
<1>3. bus' = IF up THEN bus \cup {message} ELSE bus
    BY <1>1 DEF Send
<1> HIDE DEF message
<1>4. Types'
    <2>1. units' \in [Token -> {"none", "requested", "running", "ended"}]
        BY <1>1, <1>t DEF Types
    <2>2. bus' \subseteq Message
        BY <1>2, <1>3, <1>t DEF Types
    <2> QED BY <1>t, <2>1, <2>2 DEF Types
<1>5. ASSUME NEW u \in Token PROVE Caused(u)'
    <2>1. CASE launcher[u] = None
        BY <1>t, <2>1 DEF Caused
    <2>2. CASE launcher[u] # None /\ u # t
        <3>1. units'[u] = units[u] /\ bus \subseteq bus'
            BY <1>1, <1>3, <1>t, <2>2 DEF Types
        <3> QED BY <1>t, <3>1 DEF SessionInv, Caused
    <2>3. CASE launcher[u] # None /\ u = t
        <3>1. up
            BY <2>3 DEF SessionInv, DownIsEmpty, Waits
        <3>2. units'[u] = state /\ message \in bus'
            BY <1>1, <1>3, <1>t, <2>3, <3>1 DEF Types
        <3>3. \/ units'[u] = "running"
              \/ message.token = u /\ (message.kind = "job" \/ ~message.ok)
            BY <1>1, <1>2, <2>3, <3>2
        <3>4. \/ units'[u] \in {"requested", "running"}
              \/ \E m \in bus' : m.token = u /\ (m.kind = "job" \/ ~m.ok)
            BY <3>2, <3>3
        <3>5. ~launcher'[u].submitted => subscription' = "pending"
            BY <1>t, <2>3 DEF SessionInv, Caused
        <3> QED BY <3>4, <3>5 DEF Caused
    <2> QED BY <2>1, <2>2, <2>3
<1>6. ~up => bus' = bus
    BY <1>3
<1> QED BY <1>t, <1>4, <1>5, <1>6, AnswerIsSound

LEMMA TimeIsSound ==
    ASSUME SessionInv, NEW t \in Token, TimePasses(t)
    PROVE  SessionInv'
<1> DEFINE late == [sessions[t] EXCEPT !.due = TRUE]
<1>t. /\ Types /\ up /\ sessions[t] # None /\ sessions[t] \in Session
      /\ sessions' = [sessions EXCEPT ![t] = late]
      /\ UNCHANGED <<up, lease, launcher, subscription, units, bus, directories,
                     gone, begun, told, ended>>
    BY DEF SessionInv, TimePasses, Types, history
<1>1. /\ late \in Session /\ late.complete = sessions[t].complete
      /\ late.owner = sessions[t].owner
    BY <1>t DEF Session
<1>2. late # None
    BY <1>1, EntryAssumption
<1> HIDE DEF late
<1>3. \A u \in Token : sessions'[u] = IF u = t THEN late ELSE sessions[u]
    BY <1>t DEF Types
<1>4. \A u \in Token :
          /\ sessions'[u] # None <=> sessions[u] # None
          /\ sessions'[u].complete = sessions[u].complete
          /\ sessions'[u].owner = sessions[u].owner
    BY <1>t, <1>1, <1>2, <1>3
<1>5. Active(sessions') = Active(sessions)
    BY <1>4 DEF Active
<1>6. Types'
    <2>1. sessions' \in [Token -> Session \cup {None}]
        BY <1>t, <1>1 DEF Types
    <2> QED BY <1>t, <2>1 DEF Types
<1>7. Limits'
    <2>1. \A u \in Active(sessions') :
              sessions'[u].owner = sessions[u].owner
        BY <1>4 DEF Active
    <2> QED BY <1>5, <2>1, FewerSessions DEF SessionInv
<1>8. ASSUME NEW u \in Token PROVE Waits(u)' /\ Told(u)' /\ Caused(u)'
    BY <1>t, <1>4 DEF SessionInv, Waits, Told, Caused
<1>9. DirectoriesBelong' /\ Leased' /\ DownIsEmpty'
    BY <1>t, <1>5 DEF SessionInv, DirectoriesBelong, Leased, DownIsEmpty
<1> QED BY <1>6, <1>7, <1>8, <1>9 DEF SessionInv

LEMMA CrashIsSound ==
    ASSUME SessionInv, Crash
    PROVE  SessionInv'
<1>1. /\ Types /\ ~up' /\ up' \in BOOLEAN
      /\ sessions' = [t \in Token |-> None]
      /\ launcher' = [t \in Token |-> None]
      /\ lease' = None /\ subscription' = "none" /\ bus' = {}
      /\ ended' = 1..begun
      /\ UNCHANGED <<units, directories, gone, begun, told>>
    BY DEF SessionInv, Crash
<1>2. Types'
    BY <1>1 DEF Types
<1>3. Limits'
    BY <1>1, FewerSessions DEF SessionInv, Active
<1>4. ASSUME NEW t \in Token PROVE Waits(t)' /\ Told(t)' /\ Caused(t)'
    BY <1>1 DEF SessionInv, Waits, Told, Caused
<1>5. DirectoriesBelong' /\ Leased' /\ DownIsEmpty'
    BY <1>1 DEF DirectoriesBelong, Leased, DownIsEmpty
<1> QED BY <1>2, <1>3, <1>4, <1>5 DEF SessionInv

LEMMA StartIsSound ==
    ASSUME SessionInv, Start
    PROVE  SessionInv'
<1>1. /\ Types /\ ~up /\ up' /\ up' \in BOOLEAN /\ directories' = {}
      /\ UNCHANGED <<sessions, lease, launcher, subscription, units, bus, gone,
                     begun, told, ended>>
    BY DEF SessionInv, Start, manager, history
<1>2. Types' /\ Limits'
    BY <1>1 DEF SessionInv, Types, Limits, Active, Owned
<1>3. ASSUME NEW t \in Token PROVE Waits(t)' /\ Told(t)' /\ Caused(t)'
    BY <1>1 DEF SessionInv, Waits, Told, Caused
<1>4. DirectoriesBelong' /\ Leased' /\ DownIsEmpty'
    BY <1>1 DEF SessionInv, DirectoriesBelong, Leased, DownIsEmpty, Active
<1> QED BY <1>2, <1>3, <1>4 DEF SessionInv

\* Sessions that end for no reason of the launcher's.
LEMMA EndsAreSound ==
    ASSUME SessionInv,
           \/ \E t \in Token : Cancel(t) \/ StartTimesOut(t)
           \/ \E s \in Sender : Vanish(s)
           \/ TimerExpires
    PROVE  SessionInv'
<1>t. /\ Types /\ Due \in SUBSET Active(sessions)
      /\ {} \in SUBSET Active(sessions) /\ up /\ lease = None
      /\ UNCHANGED <<up, lease, subscription, units, bus, begun>>
    BY DEF SessionInv, Cancel, StartTimesOut, Vanish, TimerExpires, Idle, Due
<1>b. /\ bus' \subseteq bus /\ bus \ bus' = {}
      /\ subscription' \in {"none", "pending", "ready", "failed"}
    BY <1>t DEF Types
<1>1. ASSUME NEW t \in Token, Cancel(t) PROVE SessionInv'
    <2>1. Close(Due, {t}) /\ {t} \in SUBSET Active(sessions) /\ gone' \subseteq Sender
        BY <1>1, <1>t DEF Cancel, Types
    <2> QED BY <1>t, <1>b, <2>1, CloseIsSound
<1>2. ASSUME NEW t \in Token, StartTimesOut(t) PROVE SessionInv'
    <2>1. Fails({t}) /\ {t} \in SUBSET Active(launcher) /\ UNCHANGED gone
        BY <1>2 DEF StartTimesOut, Active
    <2> QED BY <1>t, <1>b, <2>1, FailsIsSound
<1>3. ASSUME NEW s \in Sender, Vanish(s) PROVE SessionInv'
    <2>1. /\ Close({}, Owned(s)) /\ Owned(s) \in SUBSET Active(sessions)
          /\ gone' \subseteq Sender
        BY <1>3, <1>t DEF Vanish, Types, Owned
    <2> QED BY <1>t, <1>b, <2>1, CloseIsSound
<1>4. CASE TimerExpires
    <2>1. Close(Due, {}) /\ gone' \subseteq Sender
        BY <1>4, <1>t DEF TimerExpires, Types
    <2> QED BY <1>t, <1>b, <2>1, CloseIsSound
<1> QED BY <1>1, <1>2, <1>3, <1>4

LEMMA SessionStep == SessionInv /\ [Next]_vars => SessionInv'
<1> SUFFICES ASSUME SessionInv, [Next]_vars PROVE SessionInv'
    OBVIOUS
<1>1. CASE UNCHANGED vars
    <2>1. UNCHANGED <<up, sessions, lease, launcher, subscription, units, bus,
                      directories, gone, begun, told, ended>>
        BY <1>1 DEF vars, manager, history
    <2> QED
        BY <2>1 DEF SessionInv, Types, Limits, Active, Owned, Waits, Told,
           Caused, DirectoriesBelong, Leased, DownIsEmpty
<1> QED
    BY <1>1, BeginIsSound, TakeIsSound, ReturnIsSound, SubscribeIsSound,
       StartRepliesIsSound, JobRemovedIsSound, UnitIsSound, TimeIsSound,
       CrashIsSound, StartIsSound, EndsAreSound DEF Next

-----------------------------------------------------------------------------
(* The theorems *)

LEMMA AlwaysSound == Spec => []SessionInv
BY SessionInit, SessionStep, PTL DEF Spec

\* The manager's table of inspections, the launcher's, the spool directory,
\* the limits and what the clients have been told always agree: no completion
\* is lost because its signal came before the reply, and what is installed
\* was reviewed by its owner (component_inspector_launcher.cpp,
\* component_manager_service.cpp).
THEOREM TablesAlwaysAgree == Spec => []TablesAgree
<1>1. ASSUME SessionInv PROVE TablesAgree
    <2>1. Types /\ Limits
        BY <1>1 DEF SessionInv
    <2>2. TypeOK
        BY <2>1 DEF Types, Limits, Owned, TypeOK
    <2>3. LauncherFollowsSessions /\ DirectoriesBelong /\ InstalledIsReviewed
        BY <1>1 DEF SessionInv, Waits, LauncherFollowsSessions, Leased,
           InstalledIsReviewed
    <2>4. PendingHasACause
        BY <1>1 DEF SessionInv, Caused, PendingHasACause, Active
    <2> QED BY <2>2, <2>3, <2>4 DEF TablesAgree
<1> QED BY AlwaysSound, <1>1, PTL

\* What is over is not told of again and not taken for an installation.
Over ==
    /\ ended \subseteq ended'
    /\ \A t \in ended : told'[t] = told[t] /\ (lease' = t => lease = t)

LEMMA CloseLeaves ==
    ASSUME SessionInv, NEW expired \in SUBSET Active(sessions), NEW others,
           Close(expired, others), UNCHANGED lease
    PROVE  Over
<1>1. \A t \in ended : t \in Token /\ t \notin expired
    BY Known
<1> QED BY <1>1 DEF Over, Close, Failed

LEMMA CompletesLeaves ==
    ASSUME SessionInv, NEW t \in Active(launcher), NEW ok, Completes(t, ok),
           UNCHANGED lease
    PROVE  Over
<1>1. /\ Due \in SUBSET Active(sessions) /\ {} \in SUBSET Active(sessions)
      /\ {t} \in SUBSET Active(sessions)
      /\ {t} \cup (IF {t} \cap Due = {} THEN {} ELSE Due)
             \in SUBSET Active(sessions)
    BY FailedAreSessions DEF SessionInv, Waits, Active
<1>2. \/ \E others : Close(Due, others) \/ Close({t}, others)
      \/ Close({t} \cup (IF {t} \cap Due = {} THEN {} ELSE Due), {})
      \/ told' = [told EXCEPT ![t] = @ \cup {"review"}] /\ UNCHANGED ended
    BY DEF Completes, Succeeds, Fails
<1>3. CASE told' = [told EXCEPT ![t] = @ \cup {"review"}] /\ UNCHANGED ended
    <2>1. t \notin ended
        BY <1>1, Known
    <2> QED BY <1>3, <2>1 DEF Over, SessionInv, Types
<1> HIDE DEF Over
<1> QED BY <1>1, <1>2, <1>3, CloseLeaves

LEMMA OverIsOver == ASSUME SessionInv, [Next]_vars PROVE Over
<1>d. /\ Due \in SUBSET Active(sessions) /\ {} \in SUBSET Active(sessions)
    BY DEF Due
<1>s. ASSUME UNCHANGED <<told, ended, lease>> PROVE Over
    BY <1>s DEF Over
<1>1. ASSUME NEW s \in Sender, Begin(s) PROVE Over
    <2>1. ended \subseteq ended' /\ told' = Failed(Due) /\ UNCHANGED lease
        BY <1>1 DEF Begin, Close
    <2>2. \A t \in ended : t \in Token /\ t \notin Due
        BY <1>d, Known
    <2> QED BY <2>1, <2>2 DEF Over, Failed
<1>2. ASSUME NEW t \in Token, TakeForInstall(t) PROVE Over
    <2>1. /\ ended \subseteq ended' /\ told' = Failed(Due)
          /\ lease' = lease \/ lease' = t
          /\ t \in Active(sessions)
        BY <1>2 DEF TakeForInstall, Close
    <2>2. \A u \in ended : u \in Token /\ u \notin Due /\ u # t
        BY <1>d, <2>1, Known
    <2> QED BY <2>1, <2>2 DEF Over, Failed
<1>3. ASSUME \/ TimerExpires \/ \E t \in Token : Cancel(t)
      PROVE  Over
    BY <1>3, <1>d, CloseLeaves DEF TimerExpires, Cancel
<1>4. ASSUME NEW s \in Sender, Vanish(s) PROVE Over
    BY <1>4, <1>d, CloseLeaves DEF Vanish
<1>5. ASSUME NEW tokens \in SUBSET Active(launcher), Fails(tokens),
             UNCHANGED lease
      PROVE  Over
    BY <1>5, FailedAreSessions, CloseLeaves DEF Fails
<1>6. ASSUME NEW t \in Token, StartTimesOut(t) PROVE Over
    <2>1. {t} \in SUBSET Active(launcher) /\ Fails({t}) /\ UNCHANGED lease
        BY <1>6 DEF StartTimesOut, Active
    <2> QED BY <1>5, <2>1
<1>7. ASSUME NEW ok \in BOOLEAN, SubscribeReplies(ok) PROVE Over
    <2>1. CASE ok
        BY <1>7, <1>s, <2>1 DEF SubscribeReplies
    <2>2. CASE ~ok
        <3>1. Fails(Active(launcher)) /\ UNCHANGED lease
            BY <1>7, <2>2 DEF SubscribeReplies
        <3> QED BY <1>5, <3>1
    <2> QED BY <2>1, <2>2
<1>8. ASSUME NEW m \in bus, StartReplies(m) PROVE Over
    <2>1. m.token \in Token /\ UNCHANGED lease
        BY <1>8 DEF SessionInv, Types, Message, StartReplies
    <2>2. \/ UNCHANGED <<told, ended>>
          \/ Fails({m.token}) /\ launcher[m.token] # None
        BY <1>8 DEF StartReplies, Ignore
    <2>3. launcher[m.token] # None => {m.token} \in SUBSET Active(launcher)
        BY <2>1 DEF Active
    <2> QED BY <1>5, <1>s, <2>1, <2>2, <2>3
<1>9. ASSUME NEW m \in bus, JobRemoved(m) PROVE Over
    <2>1. m.token \in Token /\ UNCHANGED lease
        BY <1>9 DEF SessionInv, Types, Message, JobRemoved
    <2>2. \/ UNCHANGED <<told, ended>>
          \/ Completes(m.token, m.ok) /\ launcher[m.token] # None
        BY <1>9 DEF JobRemoved, Ignore
    <2>3. launcher[m.token] # None => m.token \in Active(launcher)
        BY <2>1 DEF Active
    <2> QED BY <1>s, <2>1, <2>2, <2>3, CompletesLeaves
<1>10. CASE Crash
    <2>1. lease' = None /\ ended' = 1..begun /\ UNCHANGED told
        BY <1>10 DEF Crash
    <2>2. ended \subseteq 1..begun /\ ended \subseteq Token
        BY Known DEF SessionInv, Types
    <2> QED BY <2>1, <2>2, InspectionAssumption DEF Over
<1>11. CASE InstallReturns
    <2>1. lease' = None /\ UNCHANGED <<told, ended>>
        BY <1>11 DEF InstallReturns, history
    <2>2. ended \subseteq Token
        BY Known DEF SessionInv, Types
    <2> QED BY <2>1, <2>2, InspectionAssumption DEF Over
<1>12. ASSUME \/ Start \/ UNCHANGED vars
              \/ \E t \in Token : UnitStarts(t) \/ UnitEnds(t) \/ TimePasses(t)
       PROVE  Over
    BY <1>12, <1>s DEF Start, UnitStarts, UnitEnds, TimePasses, vars, manager,
       history
<1> HIDE DEF Over
<1> QED
    BY <1>1, <1>2, <1>3, <1>4, <1>6, <1>7, <1>8, <1>9, <1>10, <1>11, <1>12
       DEF Next

\* An inspection that was cancelled, installed, lost or reported as failed is
\* over: no reply, signal or timer that comes late revives it, reports it to
\* its client again or installs its package again.
THEOREM OverStaysOver == Spec => EndedStaysEnded
<1> DEFINE Stays ==
        \A t \in ended : /\ sessions'[t] = None
                         /\ told'[t] = told[t]
                         /\ lease' = t => lease = t
<1>1. ASSUME SessionInv, SessionInv', [Next]_vars PROVE Stays
    <2>1. Over
        BY <1>1, OverIsOver
    <2>2. \A t \in ended' : t \in Token /\ sessions'[t] = None
        BY <1>1, InspectionAssumption DEF SessionInv, Told, Types, Token
    <2> QED BY <2>1, <2>2 DEF Over
<1>2. SessionInv /\ SessionInv' /\ [Next]_vars => [Stays]_vars
    BY <1>1
<1> QED
    BY SessionInit, SessionStep, <1>2, PTL DEF Spec, EndedStaysEnded
=============================================================================

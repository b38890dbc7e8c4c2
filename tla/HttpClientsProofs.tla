------------------------- MODULE HttpClientsProofs --------------------------
(***************************************************************************)
(* Theorems about HttpClients, for any number of threads and bodies of any *)
(* length: libcurl is up while it is used, nothing leaks, a response is    *)
(* whole or not returned, and a call is over after finitely many steps.    *)
(***************************************************************************)
EXTENDS HttpClients, FiniteSetTheorems, TLAPS

-----------------------------------------------------------------------------
(* The invariant: libcurl's count is the number of the clients there are.  *)

Users == {t \in Thread : pc[t] # "outside"}

Counted == initialized = Cardinality(Users) /\ (up <=> Users # {})

Labels == {"outside", "client", "setup", "perform", "performed", "failed", "over"}

Locals ==
  /\ up \in BOOLEAN
  /\ pc \in [Thread -> Labels]
  /\ held \in [Thread -> SUBSET {"handle", "headers"}]
  /\ body \in [Thread -> 0 .. MaxChunks]
  /\ response \in [Thread -> 0 .. MaxChunks]
  /\ result \in [Thread -> {Thrown} \cup 0 .. MaxChunks]

\* Nothing is held before there is a handle and after it is freed; there is a
\* result only in the end.
Owned ==
  \A t \in Thread :
    /\ pc[t] \in {"outside", "client", "over"} => held[t] = {}
    /\ pc[t] # "over" => result[t] = Thrown
    /\ pc[t] = "performed" => response[t] = body[t]
    /\ pc[t] = "over" => result[t] \in {Thrown, body[t]}

IInv == Locals /\ Owned /\ Counted

LEMMA InitHolds == Init => IInv
<1> SUFFICES ASSUME Init PROVE IInv
  OBVIOUS
<1>1. Locals /\ Owned
  <2>1. 0 \in 0 .. MaxChunks
    BY HttpAssumption
  <2>2. QED
    BY <2>1 DEF Init, Locals, Labels, Owned
<1>2. Users = {}
  BY DEF Init, Users
<1>3. Counted
  BY <1>2, FS_EmptySet DEF Init, Counted
<1>4. QED
  BY <1>1, <1>3 DEF IInv

-----------------------------------------------------------------------------
\* A thread that moves on with its client changes nobody's count.
LEMMA SameUsers ==
  ASSUME Counted, UNCHANGED curlVars, Users' = Users
  PROVE  Counted'
  BY DEF Counted, curlVars

LEMMA UsersFinite ==
  /\ IsFiniteSet(Users) /\ Cardinality(Users) \in Nat
  /\ Cardinality(Users) <= Cardinality(Thread) /\ Cardinality(Thread) \in Nat
<1>1. Users \in SUBSET Thread
  BY DEF Users
<1>2. IsFiniteSet(Users) /\ Cardinality(Users) <= Cardinality(Thread)
  BY <1>1, HttpAssumption, FS_Subset
<1>3. QED
  BY <1>2, HttpAssumption, FS_CardinalityType

LEMMA LocalsStep == IInv /\ [Next]_vars => Locals' /\ Owned'
<1> SUFFICES ASSUME IInv, [Next]_vars PROVE Locals' /\ Owned'
  OBVIOUS
<1>1. Locals /\ Owned
  BY DEF IInv
<1>2. CASE UNCHANGED vars
  BY <1>1, <1>2 DEF vars, curlVars, Locals, Owned
<1>3. ASSUME NEW t \in Thread, Step(t) PROVE Locals' /\ Owned'
  <2>1. CASE Construct(t)
    BY <1>1, <2>1 DEF Construct, GlobalInit, Goto, Locals, Labels, Owned
  <2>2. CASE EasyInit(t)
    BY <1>1, <2>2 DEF EasyInit, curlVars, Goto, Locals, Labels, Owned
  <2>3. CASE EasyInitFails(t)
    BY <1>1, <2>3 DEF EasyInitFails, curlVars, Goto, Locals, Labels, Owned
  <2>4. CASE \E headers \in BOOLEAN, chunks \in 0 .. MaxChunks : Setup(t, headers, chunks)
    BY <1>1, <2>4 DEF Setup, curlVars, Goto, Locals, Labels, Owned
  <2>5. CASE Receive(t)
    BY <1>1, <2>5, HttpAssumption DEF Receive, curlVars, Locals, Labels, Owned
  <2>6. CASE Performed(t)
    BY <1>1, <2>6 DEF Performed, curlVars, Goto, Locals, Labels, Owned
  <2>7. CASE PerformFails(t)
    BY <1>1, <2>7 DEF PerformFails, curlVars, Goto, Locals, Labels, Owned
  <2>8. CASE Finish(t)
    BY <1>1, <2>8 DEF Finish, curlVars, Goto, Locals, Labels, Owned
  <2>9. CASE Destroy(t)
    BY <1>1, <2>9, HttpAssumption DEF Destroy, GlobalCleanup, Goto, Locals, Labels, Owned
  <2>10. QED
    BY <1>3, <2>1, <2>2, <2>3, <2>4, <2>5, <2>6, <2>7, <2>8, <2>9 DEF Step, Proceed
<1>4. QED
  BY <1>2, <1>3 DEF Next

LEMMA CountedStep == IInv /\ [Next]_vars => Counted'
<1> SUFFICES ASSUME IInv, [Next]_vars PROVE Counted'
  OBVIOUS
<1>1. Locals /\ Counted
  BY DEF IInv
<1>2. IsFiniteSet(Users) /\ Cardinality(Users) \in Nat
  BY UsersFinite
<1>3. CASE UNCHANGED vars
  <2>1. Users' = Users /\ UNCHANGED curlVars
    BY <1>3 DEF vars, Users
  <2>2. QED
    BY <1>1, <2>1, SameUsers
<1>4. ASSUME NEW t \in Thread, Step(t) PROVE Counted'
  <2>1. CASE Construct(t)
    <3>1. Users' = Users \cup {t} /\ t \notin Users
      BY <1>1, <2>1 DEF Construct, Goto, Users, Locals
    <3>2. Cardinality(Users') = Cardinality(Users) + 1
      BY <1>2, <3>1, FS_AddElement
    <3>3. QED
      BY <1>1, <2>1, <3>1, <3>2 DEF Construct, GlobalInit, Counted
  <2>2. CASE Destroy(t)
    <3>1. Users' = Users \ {t} /\ t \in Users
      BY <1>1, <2>2 DEF Destroy, Goto, Users, Locals
    <3>2. Cardinality(Users') = Cardinality(Users) - 1 /\ IsFiniteSet(Users')
      BY <1>2, <3>1, FS_RemoveElement
    <3>3. Users' # {} <=> Cardinality(Users') # 0
      BY <3>2, FS_EmptySet
    <3>4. initialized' = initialized - 1 /\ up' = (initialized > 1)
      BY <2>2 DEF Destroy, GlobalCleanup
    <3>5. initialized' = Cardinality(Users')
      BY <1>1, <1>2, <3>2, <3>4 DEF Counted
    <3>6. initialized > 1 <=> Cardinality(Users') # 0
      <4>1. Cardinality(Users') \in Nat
        BY <3>2, FS_CardinalityType
      <4>2. QED
        BY <1>1, <1>2, <3>2, <4>1 DEF Counted
    <3>7. QED
      BY <3>3, <3>4, <3>5, <3>6 DEF Counted
  <2>3. CASE ~Construct(t) /\ ~Destroy(t)
    <3>1. UNCHANGED curlVars
      BY <1>4, <2>3 DEF Step, Proceed, EasyInit, EasyInitFails, Setup, Receive, Performed,
                        PerformFails, Finish
    <3>2. /\ pc[t] # "outside"
          /\ pc' = pc \/ \E label \in Labels \ {"outside"} : pc' = [pc EXCEPT ![t] = label]
      BY <1>4, <2>3 DEF Step, Proceed, EasyInit, EasyInitFails, Setup, Receive, Performed,
                        PerformFails, Finish, Goto, Labels
    <3>3. Users' = Users
      BY <1>1, <3>2 DEF Users, Locals, Labels
    <3>4. QED
      BY <1>1, <3>1, <3>3, SameUsers
  <2>4. QED
    BY <2>1, <2>2, <2>3
<1>5. QED
  BY <1>3, <1>4 DEF Next

LEMMA Invariance == Spec => []IInv
<1>1. Init => IInv
  BY InitHolds
<1>2. IInv /\ [Next]_vars => IInv'
  BY LocalsStep, CountedStep DEF IInv
<1>3. QED
  BY <1>1, <1>2, PTL DEF Spec

-----------------------------------------------------------------------------
(* Types; in particular libcurl's count never exceeds the threads.          *)
THEOREM Typing == Spec => []TypeOK
<1>1. IInv => TypeOK
  <2> SUFFICES ASSUME IInv PROVE TypeOK
    OBVIOUS
  <2>1. initialized \in 0 .. Cardinality(Thread)
    BY UsersFinite DEF IInv, Counted
  <2>2. up \in BOOLEAN
    BY DEF IInv, Locals
  <2>3. QED
    BY <2>1, <2>2 DEF IInv, Locals, Labels, TypeOK
<1>2. QED
  BY <1>1, Invariance, PTL

(* libcurl is up exactly while some thread has a client.                    *)
THEOREM Usable == Spec => []UpWhileUsed
<1>1. IInv => UpWhileUsed
  BY DEF IInv, Counted, Users, UpWhileUsed
<1>2. QED
  BY <1>1, Invariance, PTL

(* No path out of request leaves a handle or a header list behind.          *)
THEOREM Freeing == Spec => []NothingLeaks
<1>1. IInv => NothingLeaks
  BY DEF IInv, Owned, NothingLeaks
<1>2. QED
  BY <1>1, Invariance, PTL

(* A response is returned whole or not at all.                              *)
THEOREM Wholeness == Spec => []WholeOrNothing
<1>1. IInv => WholeOrNothing
  BY DEF IInv, Owned, WholeOrNothing
<1>2. QED
  BY <1>1, Invariance, PTL

-----------------------------------------------------------------------------
(* How far a call is from its end.  EveryCallEnds needs the fairness of the *)
(* threads, and stays with TLC; what does not need it is that a call cannot *)
(* go on for ever.                                                          *)
Work(t) ==
  CASE pc[t] = "outside" -> 0
    [] pc[t] = "over" -> 1
    [] pc[t] \in {"performed", "failed"} -> 2
    [] pc[t] = "perform" -> 3 + MaxChunks - response[t]
    [] pc[t] = "setup" -> 4 + MaxChunks
    [] pc[t] = "client" -> 5 + MaxChunks

\* A step belongs to one thread, and brings its call nearer to the end.
Nearer ==
  \A t \in Thread :
    pc[t] # "outside" =>
      \/ Work(t)' < Work(t)
      \/ UNCHANGED <<pc[t], held[t], body[t], response[t], result[t]>>

LEMMA WorkLeft ==
  ASSUME Locals, NEW t \in Thread
  PROVE  /\ Work(t) \in 0 .. MaxChunks + 5
         /\ Work(t) = 0 <=> pc[t] = "outside"
<1>1. pc[t] \in Labels /\ response[t] \in 0 .. MaxChunks
  BY DEF Locals
<1>2. QED
  BY <1>1, HttpAssumption DEF Work, Labels

LEMMA OwnStepNearer ==
  ASSUME IInv, NEW t \in Thread, Proceed(t) \/ Receive(t)
  PROVE  Work(t)' < Work(t)
<1>1. /\ pc \in [Thread -> Labels]
      /\ response \in [Thread -> 0 .. MaxChunks] /\ body \in [Thread -> 0 .. MaxChunks]
  BY DEF IInv, Locals
<1>2. MaxChunks \in Nat /\ response[t] \in 0 .. MaxChunks /\ body[t] \in 0 .. MaxChunks
  BY <1>1, HttpAssumption
<1>3. CASE EasyInit(t)
  BY <1>1, <1>2, <1>3 DEF EasyInit, Goto, Work, Labels
<1>4. CASE EasyInitFails(t)
  BY <1>1, <1>2, <1>4 DEF EasyInitFails, Goto, Work, Labels
<1>5. CASE \E headers \in BOOLEAN, chunks \in 0 .. MaxChunks : Setup(t, headers, chunks)
  BY <1>1, <1>2, <1>5 DEF Setup, Goto, Work, Labels
<1>6. CASE Performed(t)
  BY <1>1, <1>2, <1>6 DEF Performed, Goto, Work, Labels
<1>7. CASE PerformFails(t)
  BY <1>1, <1>2, <1>7 DEF PerformFails, Goto, Work, Labels
<1>8. CASE Finish(t)
  BY <1>1, <1>2, <1>8 DEF Finish, Goto, Work, Labels
<1>9. CASE Destroy(t)
  BY <1>1, <1>2, <1>9 DEF Destroy, Goto, Work, Labels
<1>10. CASE Receive(t)
  BY <1>1, <1>2, <1>10 DEF Receive, Work, Labels
<1>11. QED
  BY <1>3, <1>4, <1>5, <1>6, <1>7, <1>8, <1>9, <1>10 DEF Proceed

LEMMA StepNearer == IInv /\ [Next]_vars => Nearer
<1> SUFFICES ASSUME IInv, [Next]_vars, NEW t \in Thread, pc[t] # "outside"
             PROVE  \/ Work(t)' < Work(t)
                    \/ UNCHANGED <<pc[t], held[t], body[t], response[t], result[t]>>
  BY DEF Nearer
<1>1. CASE UNCHANGED vars
  BY <1>1 DEF vars
<1>2. ASSUME NEW u \in Thread, Step(u), u # t
      PROVE  UNCHANGED <<pc[t], held[t], body[t], response[t], result[t]>>
  BY <1>2 DEF Step, Construct, Proceed, EasyInit, EasyInitFails, Setup, Performed, PerformFails,
              Finish, Destroy, Receive, Goto, IInv, Locals
<1>3. ASSUME Step(t) PROVE Work(t)' < Work(t)
  BY <1>3, OwnStepNearer DEF Step, Construct
<1>4. QED
  BY <1>1, <1>2, <1>3 DEF Next

(* Whatever the server does, a call is over after at most MaxChunks + 5     *)
(* steps of its thread: each of them brings it nearer to its end, and no    *)
(* other thread can throw it back.                                          *)
THEOREM Bounded ==
  Spec => /\ [](\A t \in Thread : /\ Work(t) \in 0 .. MaxChunks + 5
                                  /\ Work(t) = 0 <=> pc[t] = "outside")
          /\ [][Nearer]_vars
<1>1. IInv => \A t \in Thread : /\ Work(t) \in 0 .. MaxChunks + 5
                                /\ Work(t) = 0 <=> pc[t] = "outside"
  BY WorkLeft DEF IInv
<1>2. QED
  BY <1>1, StepNearer, Invariance, PTL DEF Spec
=============================================================================

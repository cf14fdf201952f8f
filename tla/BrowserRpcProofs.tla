-------------------------- MODULE BrowserRpcProofs --------------------------
(***************************************************************************)
(* Theorems about BrowserRpc, for any set of calling threads: the mutex    *)
(* keeps a caller's connection, and the client implements RemoteCall.      *)
(***************************************************************************)
EXTENDS BrowserRpc, TLAPS

\* The mutex holder is the one thread past the lock, and a request that was
\* run is its.
HolderInside ==
  /\ \A c \in Caller : pc[c] \in {"connect", "ping", "request"} <=> holder = c
  /\ ran => holder # None /\ pc[holder] = "request"

IInv == TypeOK /\ ConnectionKept /\ HolderInside

\* The invariant holds initially.
LEMMA InitIInv == Init => IInv
  BY NoneAssumption DEF Init, IInv, TypeOK, ConnectionKept, HolderInside

\* No step of a caller, and no coming or going of the browser, breaks it.
LEMMA StepIInv == IInv /\ [Next]_vars => IInv'
<1> SUFFICES ASSUME IInv, [Next]_vars PROVE IInv'
  OBVIOUS
<1> USE NoneAssumption DEF IInv, TypeOK, ConnectionKept, HolderInside
<1>1. ASSUME NEW c \in Caller, Call(c) PROVE IInv'
  BY <1>1 DEF Call, Goto
<1>2. ASSUME NEW c \in Caller, Lock(c) PROVE IInv'
  BY <1>2 DEF Lock, Goto
<1>3. ASSUME NEW c \in Caller, Connect(c) PROVE IInv'
  BY <1>3 DEF Connect, Leave, Goto
<1>4. ASSUME NEW c \in Caller, Ping(c) PROVE IInv'
  BY <1>4 DEF Ping, Goto
<1>5. ASSUME NEW c \in Caller, Run(c) PROVE IInv'
  BY <1>5 DEF Run
<1>6. ASSUME NEW c \in Caller, Answer(c) PROVE IInv'
  BY <1>6 DEF Answer, Leave, Goto
<1>7. ASSUME NEW c \in Caller, Broken(c) PROVE IInv'
  BY <1>7 DEF Broken, Leave, Goto
<1>8. ASSUME NEW c \in Caller, Raise(c) PROVE IInv'
  BY <1>8 DEF Raise, Leave, Goto
<1>9. CASE BrowserStops
  <2>1. UNCHANGED <<pc, holder, ran, answer>> /\ browser' = FALSE
    BY <1>9 DEF BrowserStops
  <2>2. link' \in {"closed", "open", "broken"} /\ (link # "closed" => link' # "closed")
    BY <1>9 DEF BrowserStops
  <2> QED
    BY <2>1, <2>2
<1>10. CASE BrowserStarts
  BY <1>10 DEF BrowserStarts
<1>11. CASE UNCHANGED vars
  BY <1>11 DEF vars
<1> QED
  BY <1>1, <1>2, <1>3, <1>4, <1>5, <1>6, <1>7, <1>8, <1>9, <1>10, <1>11
     DEF Next, Steps

\* The invariant the others follow from.
LEMMA RpcInvariant == Spec => []IInv
  BY InitIInv, StepIInv, PTL DEF Spec

\* While a caller waits for its answer nobody else touches its connection.
THEOREM ConnectionStaysKept == Spec => []ConnectionKept
<1>1. IInv => ConnectionKept
  BY DEF IInv
<1> QED
  BY <1>1, RpcInvariant, PTL

-----------------------------------------------------------------------------
\* The initial states are RemoteCall's.
LEMMA InitRefines == Init => Remote!Init
  BY DEF Init, Remote!Init, Phase

\* Every step is one of RemoteCall, or none.
LEMMA StepRefines == IInv /\ [Next]_vars => [Remote!Next]_(Remote!vars)
<1> SUFFICES ASSUME IInv, [Next]_vars PROVE [Remote!Next]_(Remote!vars)
  OBVIOUS
<1> USE NoneAssumption DEF IInv, TypeOK, ConnectionKept, HolderInside
<1>1. ASSUME NEW c \in Caller, Call(c) PROVE Remote!Call(c)
  BY <1>1 DEF Call, Goto, Remote!Call, Phase
<1>2. ASSUME NEW c \in Caller, Lock(c) \/ Ping(c) PROVE UNCHANGED Remote!vars
  BY <1>2 DEF Lock, Ping, Goto, Remote!vars, Phase
<1>3. ASSUME NEW c \in Caller, Connect(c)
      PROVE Remote!Return(c, "failed") \/ UNCHANGED Remote!vars
  <2>1. CASE link = "closed" /\ ~browser
    <3>1. pc[c] = "connect" /\ ~ran
      BY <1>3 DEF Connect
    <3>2. Phase' = [Phase EXCEPT ![c] = "out"] /\ Phase[c] = "called"
      BY <1>3, <2>1, <3>1 DEF Connect, Leave, Goto, Phase
    <3> QED
      BY <1>3, <2>1, <3>2 DEF Connect, Leave, Remote!Return
  <2>2. CASE ~(link = "closed" /\ ~browser)
    <3>1. Phase' = Phase
      BY <1>3, <2>2 DEF Connect, Goto, Phase
    <3> QED
      BY <1>3, <2>2, <3>1 DEF Connect, Remote!vars
  <2> QED
    BY <2>1, <2>2
<1>4. ASSUME NEW c \in Caller, Raise(c) PROVE Remote!Return(c, "failed")
  BY <1>4 DEF Raise, Leave, Goto, Remote!Return, Phase
<1>5. ASSUME NEW c \in Caller, Run(c) PROVE Remote!Run(c)
  BY <1>5 DEF Run, Remote!Run, Phase
<1>6. ASSUME NEW c \in Caller, Answer(c)
      PROVE \E a \in Remote!Answers : Remote!Return(c, a)
  <2>1. PICK a \in {"true", "false"} : Leave(c, a)
    BY <1>6 DEF Answer
  <2>2. Phase[c] = "ran" /\ Phase' = [Phase EXCEPT ![c] = "out"]
    BY <1>6, <2>1 DEF Answer, Leave, Goto, Phase
  <2>3. Remote!Return(c, a)
    BY <2>1, <2>2 DEF Leave, Remote!Return
  <2> QED
    BY <2>3 DEF Remote!Answers
<1>7. ASSUME NEW c \in Caller, Broken(c) PROVE Remote!Return(c, "failed")
  BY <1>7 DEF Broken, Leave, Goto, Remote!Return, Phase
<1>8. CASE BrowserStops \/ BrowserStarts
  BY <1>8 DEF BrowserStops, BrowserStarts, Remote!vars, Phase
<1>9. CASE UNCHANGED vars
  BY <1>9 DEF vars, Remote!vars, Phase
<1> QED
  BY <1>1, <1>2, <1>3, <1>4, <1>5, <1>6, <1>7, <1>8, <1>9
     DEF Next, Steps, Remote!Next, Remote!Answers

\* The client implements RemoteCall: at most one run per call, one at a time,
\* and no "true" without a run.
THEOREM RpcImplementsRemoteCall == Spec => ImplementsRemoteCall
  BY InitRefines, StepRefines, RpcInvariant, PTL
     DEF Spec, ImplementsRemoteCall, Remote!Spec
=============================================================================

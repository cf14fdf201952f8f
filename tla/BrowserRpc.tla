----------------------------- MODULE BrowserRpc -----------------------------
(***************************************************************************)
(* BrowserClient (thrift-services/src-client/BrowserClient.cpp), which     *)
(* VDR's main loop, the request handlers and the section handler share:    *)
(* each call takes the send mutex, connects if there is no connection,     *)
(* pings, and sends its request over the one transport.  The browser may   *)
(* go away and come back at any time; the transport does not know until    *)
(* something is sent or read.  VdrClient and TranscoderClient, the other   *)
(* ends' clients, are built the same way.                                  *)
(***************************************************************************)
CONSTANTS
  Caller,   \* the threads that call
  None

ASSUME NoneAssumption == None \notin Caller

VARIABLES
  pc,       \* where a caller is in processInternal
  holder,   \* who holds browser_send_mutex
  link,     \* the transport: closed, "open", or open but "broken"
  browser,  \* the peer is up
  ran,      \* the browser has run the request in hand
  answer    \* what the last call returned; "failed" stands for the false
            \* of an exception, "false" for the browser's own answer

vars == <<pc, holder, link, browser, ran, answer>>

Init == /\ pc = [c \in Caller |-> "idle"] /\ holder = None
        /\ link = "closed" /\ browser \in BOOLEAN /\ ran = FALSE
        /\ answer = [c \in Caller |-> "none"]

-----------------------------------------------------------------------------
Goto(c, l) == pc' = [pc EXCEPT ![c] = l]

\* Leave processInternal: the lock guard gives the mutex back.
Leave(c, a) == /\ Goto(c, "idle")
               /\ answer' = [answer EXCEPT ![c] = a]
               /\ holder' = None
               /\ ran' = FALSE

\* RedButton, ReloadOSD, StartApplication, ProcessKey, InsertHbbtv ...
Call(c) == /\ pc[c] = "idle"
           /\ Goto(c, "lock")
           /\ answer' = [answer EXCEPT ![c] = "none"]
           /\ UNCHANGED <<holder, link, browser, ran>>

\* Mutant: no mutex.
LockNothing(c) == /\ pc[c] = "lock"
                  /\ holder' = c
                  /\ Goto(c, "connect")
                  /\ UNCHANGED <<link, browser, ran, answer>>

Lock(c) == /\ pc[c] = "lock" /\ holder = None
           /\ holder' = c
           /\ Goto(c, "connect")
           /\ UNCHANGED <<link, browser, ran, answer>>

\* Mutant: the mutex is kept when the browser cannot be reached.
ConnectHolds(c) ==
  /\ pc[c] = "connect"
  /\ IF link = "closed" /\ ~browser
     THEN /\ Goto(c, "idle")
          /\ answer' = [answer EXCEPT ![c] = "failed"]
          /\ UNCHANGED <<holder, ran, link>>
     ELSE /\ link' = IF link = "closed" THEN "open" ELSE link
          /\ Goto(c, "ping")
          /\ UNCHANGED <<holder, ran, answer>>
  /\ UNCHANGED browser

\* An open transport counts as a connection, broken or not.
Connect(c) ==
  /\ pc[c] = "connect"
  /\ IF link = "closed" /\ ~browser
     THEN Leave(c, "failed") /\ UNCHANGED link
     ELSE /\ link' = IF link = "closed" THEN "open" ELSE link
          /\ Goto(c, "ping")
          /\ UNCHANGED <<holder, ran, answer>>
  /\ UNCHANGED browser

\* What has arrived is read even if the browser has gone since.
Ping(c) == /\ pc[c] = "ping" /\ link # "closed"
           /\ Goto(c, "request")
           /\ UNCHANGED <<holder, link, browser, ran, answer>>

\* The request reaches the browser, which runs it ...
Run(c) == /\ pc[c] = "request" /\ link = "open" /\ ~ran
          /\ ran' = TRUE
          /\ UNCHANGED <<pc, holder, link, browser, answer>>

\* ... and answers: true, false or OperationFailed.
Answer(c) == /\ pc[c] = "request" /\ link # "closed" /\ ran
             /\ \E a \in {"true", "false"} : Leave(c, a)
             /\ UNCHANGED <<link, browser>>

\* The browser fails and answers with an exception of its own, whether it has
\* run the request or not: a TException too.
Raise(c) == /\ pc[c] \in {"ping", "request"} /\ link = "open"
            /\ link' = "closed"
            /\ Leave(c, "failed")
            /\ UNCHANGED browser

\* Mutants: the transport stays open, or the exception is taken for success.
BrokenKeeps(c) == /\ pc[c] \in {"ping", "request"} /\ link = "broken"
                  /\ Leave(c, "failed")
                  /\ UNCHANGED <<link, browser>>
BrokenTrue(c) == /\ pc[c] \in {"ping", "request"} /\ link = "broken"
                 /\ link' = "closed"
                 /\ Leave(c, "true")
                 /\ UNCHANGED browser

\* A TException while pinging, sending or waiting: close, and give up.
Broken(c) == /\ pc[c] \in {"ping", "request"} /\ link = "broken"
             /\ link' = "closed"
             /\ Leave(c, "failed")
             /\ UNCHANGED browser

Steps(c) == Lock(c) \/ Connect(c) \/ Ping(c) \/ Run(c) \/ Answer(c) \/ Broken(c)

BrowserStops == /\ browser /\ browser' = FALSE
                /\ link' = IF link = "open" THEN "broken" ELSE link
                /\ UNCHANGED <<pc, holder, ran, answer>>

BrowserStarts == /\ ~browser /\ browser' = TRUE
                 /\ UNCHANGED <<pc, holder, link, ran, answer>>

Next == \/ \E c \in Caller : Call(c) \/ Steps(c) \/ Raise(c)
        \/ BrowserStops \/ BrowserStarts

Spec == Init /\ [][Next]_vars

\* The threads go on and get the mutex in the end; a browser that is up
\* serves what it is asked.
FairSpec == Spec /\ \A c \in Caller : WF_vars(Steps(c)) /\ SF_vars(Lock(c))
-----------------------------------------------------------------------------
\* The variables keep to their types.
TypeOK ==
  /\ pc \in [Caller -> {"idle", "lock", "connect", "ping", "request"}]
  /\ holder \in Caller \cup {None}
  /\ link \in {"closed", "open", "broken"}
  /\ browser \in BOOLEAN /\ ran \in BOOLEAN
  /\ answer \in [Caller -> {"none", "true", "false", "failed"}]

\* A caller that has pinged or sent its request still has its connection: no
\* other caller closes it or opens another one meanwhile, so that an answer is
\* always the answer to the request that waits for it.
ConnectionKept ==
  \A c \in Caller : pc[c] \in {"ping", "request"} => link # "closed" /\ holder = c

\* RemoteCall's view of a caller.
Phase == [c \in Caller |-> IF pc[c] = "idle" THEN "out"
                           ELSE IF ran /\ holder = c THEN "ran" ELSE "called"]
Remote == INSTANCE RemoteCall WITH phase <- Phase

\* The calls are what RemoteCall promises.
ImplementsRemoteCall == Remote!Spec

\* Every call returns: no caller waits for the mutex for ever, whatever breaks.
CallsReturn == \A c \in Caller : pc[c] # "idle" ~> pc[c] = "idle"

\* Once the browser stays up and raises no exceptions, calls get through again:
\* a connection that broke does not make them fail for ever.
Recovers == <>[]browser /\ <>[][~\E c \in Caller : Raise(c)]_vars
              => \A c \in Caller : <>[](answer[c] # "failed") \/ <>[](pc[c] = "idle")
=============================================================================

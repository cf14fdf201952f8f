-------------------------- MODULE WebSessionSerial --------------------------
(***************************************************************************)
(* The session when a thread starts a handler only while every other       *)
(* thread is idle, as if one lock were held around each handler.  It       *)
(* separates what goes wrong because handlers interleave from what goes    *)
(* wrong in a sequence of complete handlers.                               *)
(***************************************************************************)
EXTENDS WebSession

Alone(t) == \A u \in Thread \ {t} : pc[u] = "idle"

SerialStep ==
  \/ /\ Running
     /\ \/ Alone("browser") /\ Browser
        \/ Alone("transcoder") /\ Transcoder
        \/ Alone("worker") /\ Worker
        \/ Alone("main") /\ Main
        \/ UserOpens
  \/ \E t \in Thread : Alone(t) /\ Fault(t)

SerialSpec == Init /\ [][fault = "none" /\ SerialStep]_vars

\* Complete handlers, one after the other, never make a peer's request or the
\* worker touch a deleted object.  Only the main loop still can: VDR attaches
\* a control whose player StopVideo deleted before it was attached, or keeps
\* as its menu (GetInfo) a page that the control deletes.
SerialFaultsInMainOnly == fault \in {"none", "main"}

\* Between handlers the player VDR's control plays is the global player, as
\* long as there is one.
SerialControlPlaysGlobal ==
  (\A t \in Thread : pc[t] = "idle") /\ control # Null /\ videoPlayer # Null
    => pages[control].player = videoPlayer
=============================================================================

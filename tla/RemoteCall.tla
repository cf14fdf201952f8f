----------------------------- MODULE RemoteCall -----------------------------
(***************************************************************************)
(* What the plugin's callers may rely on when they call the browser: a     *)
(* call is run at most once, one at a time, and "true" is only answered    *)
(* when it was run.  "failed" leaves open whether it was.                  *)
(***************************************************************************)
CONSTANT Caller

VARIABLES phase, answer

vars == <<phase, answer>>

Answers == {"true", "false", "failed"}

Init == /\ phase = [c \in Caller |-> "out"]
        /\ answer = [c \in Caller |-> "none"]

Call(c) == /\ phase[c] = "out"
           /\ phase' = [phase EXCEPT ![c] = "called"]
           /\ answer' = [answer EXCEPT ![c] = "none"]

Run(c) == /\ phase[c] = "called"
          /\ \A d \in Caller : phase[d] # "ran"
          /\ phase' = [phase EXCEPT ![c] = "ran"]
          /\ UNCHANGED answer

Return(c, a) == /\ phase[c] = "ran" \/ (phase[c] = "called" /\ a = "failed")
                /\ phase' = [phase EXCEPT ![c] = "out"]
                /\ answer' = [answer EXCEPT ![c] = a]

Next == \E c \in Caller : Call(c) \/ Run(c) \/ (\E a \in Answers : Return(c, a))

Spec == Init /\ [][Next]_vars
=============================================================================

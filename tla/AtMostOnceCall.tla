--------------------------- MODULE AtMostOnceCall ---------------------------
(***************************************************************************)
(* What one call to the MCP server promises the agent that makes it,      *)
(* whatever the daemon's socket does meanwhile.                            *)
(*                                                                         *)
(* A call is opened, may take effect on the daemon at most once, and is    *)
(* answered at most once or lost with the session.  The answer says what   *)
(* the agent may conclude: "done" (it took effect), "not_done" (it did not *)
(* and never will), or "unknown", after which it may still take effect.    *)
(***************************************************************************)

CONSTANT Calls

VARIABLES phase,    \* [Calls -> {"idle", "open", "answered", "lost"}]
          applied,  \* [Calls -> BOOLEAN]: the daemon carried the call out
          verdict   \* [Calls -> {"none", "done", "not_done", "unknown"}]

vars == <<phase, applied, verdict>>

Init ==
    /\ phase   = [c \in Calls |-> "idle"]
    /\ applied = [c \in Calls |-> FALSE]
    /\ verdict = [c \in Calls |-> "none"]

Open(c) ==
    /\ phase[c] = "idle"
    /\ phase' = [phase EXCEPT ![c] = "open"]
    /\ UNCHANGED <<applied, verdict>>

\* A call that is lost, or whose outcome the agent was told is unknown, may
\* still take effect: its bytes can be in the daemon's socket.
Apply(c) ==
    /\ \/ phase[c] \in {"open", "lost"}
       \/ phase[c] = "answered" /\ verdict[c] = "unknown"
    /\ ~applied[c]
    /\ applied' = [applied EXCEPT ![c] = TRUE]
    /\ UNCHANGED <<phase, verdict>>

Answer(c, v) ==
    /\ phase[c] = "open"
    /\ v = "done"     => applied[c]
    /\ v = "not_done" => ~applied[c]
    /\ phase'   = [phase EXCEPT ![c] = "answered"]
    /\ verdict' = [verdict EXCEPT ![c] = v]
    /\ UNCHANGED applied

\* The session ends under every open call at once.
LoseAll ==
    /\ phase' = [c \in Calls |-> IF phase[c] = "open" THEN "lost" ELSE phase[c]]
    /\ UNCHANGED <<applied, verdict>>

Lose(c) ==
    /\ phase[c] = "open"
    /\ phase' = [phase EXCEPT ![c] = "lost"]
    /\ UNCHANGED <<applied, verdict>>

Next ==
    \/ \E c \in Calls : Open(c) \/ Apply(c) \/ Lose(c)
    \/ \E c \in Calls, v \in {"done", "not_done", "unknown"} : Answer(c, v)
    \/ LoseAll

Spec == Init /\ [][Next]_vars
=============================================================================

------------------------------- MODULE NetPort -------------------------------
(***************************************************************************)
(* What the NetworkProvisioner port promises to any number of callers, as  *)
(* its recording double MockProvisioner keeps it: an apply or a teardown   *)
(* takes effect at one moment between its call and its answer.  The double *)
(* has call, effect and answer of a teardown together, an implementation   *)
(* may have other calls in between.                                        *)
(***************************************************************************)
CONSTANTS Sessions, Callers, None

VARIABLES applied, \* sessions with config in the network
          call,    \* caller -> the session whose teardown it waits for, or None
          told,    \* <<caller, session>>: its last teardown, answered with ok
          clear    \* callers whose session had no config at a moment since they called

portVars == <<applied, call, told, clear>>

PortInit == /\ applied = {}
            /\ call = [c \in Callers |-> None]
            /\ told = {}
            /\ clear = {}

\* Every step keeps the record of who may be answered ok.
Noted == clear' = {c \in Callers : call'[c] # None /\ (c \in clear \/ call'[c] \notin applied')}

\* apply_bandwidth or apply_telemetry, of any name at any time.
Apply(s) ==
  /\ applied' = applied \cup {s}
  /\ UNCHANGED <<call, told>>

Begin(c, s) ==
  /\ call[c] = None
  /\ call' = [call EXCEPT ![c] = s]
  /\ told' = {p \in told : p[1] # c}
  /\ UNCHANGED applied

\* The effect of a teardown.
Remove(c) ==
  /\ call[c] # None
  /\ applied' = applied \ {call[c]}
  /\ UNCHANGED <<call, told>>

\* ok: now, or at a moment since the call, nothing of the session was left.
\* The teardown of a session without config is the same success.
Succeed(c) ==
  /\ call[c] # None
  /\ \/ applied' = applied \ {call[c]}
     \/ c \in clear /\ UNCHANGED applied
  /\ call' = [call EXCEPT ![c] = None]
  /\ told' = told \cup {<<c, call[c]>>}

\* Not ok, or no answer because the caller died: the config is there or not.
Fail(c) ==
  /\ call[c] # None
  /\ applied' \in {applied, applied \ {call[c]}}
  /\ call' = [call EXCEPT ![c] = None]
  /\ UNCHANGED told

PortNext == /\ \/ \E s \in Sessions : Apply(s) \/ \E c \in Callers : Begin(c, s)
               \/ \E c \in Callers : Remove(c) \/ Succeed(c) \/ Fail(c)
            /\ Noted

PortSpec == PortInit /\ [][PortNext]_portVars
=============================================================================

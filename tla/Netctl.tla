------------------------------- MODULE Netctl -------------------------------
(***************************************************************************)
(* GnmiProvisioner and the routers it drives.  A session leaves its name   *)
(* on the router and nothing in this process: teardown reads three parts   *)
(* of the config, then sends one Set with what it found, device by device. *)
(* Every call to a router may fail, and a Set may be applied although its  *)
(* answer is lost.  Any number of threads call the provisioner, with names *)
(* that were torn down before too: after a restart of the controller they  *)
(* start over.  A caller that dies is one whose call fails.                *)
(***************************************************************************)
EXTENDS Integers, Sequences, FiniteSets

CONSTANTS Sessions,
          Plan,     \* session -> [kind, device, ingress_if], from the resource map
          Targets,  \* the devices this provisioner knows, in the order of its dict
          Callers   \* threads that call teardown

Kinds == {"bandwidth", "telemetry"}
Interfaces == {Plan[s].ingress_if : s \in Sessions}
Devices == {Targets[i] : i \in DOMAIN Targets} \cup {Plan[s].device : s \in Sessions}

ASSUME PlanAssumption ==
  \A s \in Sessions : /\ DOMAIN Plan[s] = {"kind", "device", "ingress_if"}
                      /\ Plan[s].kind \in Kinds
ASSUME TargetsAssumption == Targets \in Seq(Devices) /\ Targets # <<>>

VARIABLES config,   \* device -> the nodes with a session's name on it
          job,      \* teardown thread -> where it is
          live,     \* history: sessions whose apply succeeded, and no teardown since
          told,     \* history: <<thread, session>>, its last teardown answered ok
          again,    \* history: threads whose session was applied since they called
          clear     \* history: threads whose session had no config since they called

vars == <<config, job, live, told, again, clear>>

(* The four kinds of node a session can leave.  The key of an attachment is *)
(* the interface, the key of the others is the session's name.  An          *)
(* attachment refers to a template, a tunnel to a destination.              *)

Path(kind, key) == <<kind, key>>

Nodes(s) ==
  IF Plan[s].kind = "bandwidth"
  THEN {[path |-> Path("template", s), of |-> s, refers |-> {}],
        [path |-> Path("attachment", Plan[s].ingress_if), of |-> s,
         refers |-> {Path("template", s)}]}
  ELSE {[path |-> Path("destination", s), of |-> s, refers |-> {}],
        [path |-> Path("tunnel", s), of |-> s, refers |-> {Path("destination", s)}]}

Node == UNION {Nodes(s) : s \in Sessions}
Paths == {n.path : n \in Node}

NoJob == [phase |-> "idle"]

ASSUME SessionsAssumption == NoJob \notin Sessions

Job == [phase : {"attachments", "templates", "tunnels", "set"}, sid : Sessions,
        at : DOMAIN Targets, deletes : SUBSET Paths]

TypeOK == /\ config \in [Devices -> SUBSET Node]
          /\ job \in [Callers -> Job \cup {NoJob}]
          /\ live \subseteq Sessions
          /\ told \subseteq Callers \X Sessions
          /\ again \subseteq Callers
          /\ clear \subseteq Callers

Init == /\ config = [d \in Devices |-> {}]
        /\ job = [c \in Callers |-> NoJob]
        /\ live = {}
        /\ told = {}
        /\ again = {}
        /\ clear = {}

\* Threads with a teardown of this session at work.
Ending(s) == {c \in Callers : job[c] # NoJob /\ job[c].sid = s}

Configured == {s \in Sessions : \E d \in Devices : \E n \in config[d] : n.of = s}

\* History of every step: at this moment the session of these has no config.
Noted == clear' = {c \in Callers : job'[c] # NoJob
                                   /\ (c \in clear \/ job'[c].sid \notin Configured')}

\* A Set of updates: a node replaces the one at its path.
Updated(d, nodes) ==
  {n \in config[d] : \A m \in nodes : n.path # m.path} \cup nodes

\* Mutant: the address book without the tunnel that dials it.
WrittenHalf(s) ==
  IF Plan[s].kind = "bandwidth" THEN Nodes(s) ELSE {n \in Nodes(s) : n.refers = {}}

\* What one apply writes, in one Set.
Written(s) == Nodes(s)

Known(d) == \E i \in DOMAIN Targets : Targets[i] = d

\* apply_bandwidth, apply_telemetry: an exception is reported, not raised.
Apply(s, ok) ==
  /\ \/ /\ Known(Plan[s].device)
        /\ config' = [config EXCEPT ![Plan[s].device] = Updated(Plan[s].device, Written(s))]
        /\ again' = again \cup Ending(s) \cup {c \in Callers : <<c, s>> \in told}
     \/ /\ ~ok
        /\ UNCHANGED <<config, again>>
  /\ live' = IF ok /\ Ending(s) = {} THEN live \cup {s} ELSE live
  /\ UNCHANGED <<job, told>>

Start(c, s) ==
  /\ job[c] = NoJob
  /\ job' = [job EXCEPT ![c] = [phase |-> "attachments", sid |-> s, at |-> 1,
                               deletes |-> {}]]
  /\ live' = live \ {s}
  /\ told' = {p \in told : p[1] # c}
  /\ again' = again \ {c}
  /\ UNCHANGED config

\* The nodes of one kind a thread looks at.
Read(c, kinds) == {n \in config[Targets[job[c].at]] : n.path[1] \in kinds}

\* Mutant: whatever one of our sessions attached is taken for this session's.
FoundAny(c, kinds) == {n.path : n \in Read(c, kinds)}

Found(c, kinds) == {n.path : n \in {m \in Read(c, kinds) : m.of = job[c].sid}}

Reads(c, from, to, kinds) ==
  /\ job[c].phase = from
  /\ job' = [job EXCEPT ![c].phase = to, ![c].deletes = @ \cup Found(c, kinds)]
  /\ UNCHANGED <<config, live, told, again>>

ReadAttachments(c) == Reads(c, "attachments", "templates", {"attachment"})
ReadTemplates(c) == Reads(c, "templates", "tunnels", {"template"})
ReadTunnels(c) == Reads(c, "tunnels", "set", {"tunnel", "destination"})

\* Mutant: the list in the order the nodes were written.
PlaceAsWritten(path) ==
  CASE path[1] \in {"template", "destination"} -> 1
    [] path[1] \in {"attachment", "tunnel"} -> 2

\* Where the delete list has a path: what refers before what is referred to.
Place(path) ==
  CASE path[1] = "attachment" -> 1
    [] path[1] = "template" -> 2
    [] path[1] = "tunnel" -> 3
    [] path[1] = "destination" -> 4

\* The router refuses to delete a node another still refers to, deletes in the
\* same Set counted in their order.
Refused(d, deletes) ==
  \E p \in deletes, n \in config[d] :
    /\ p \in n.refers
    /\ ~(n.path \in deletes /\ Place(n.path) < Place(p))

Delete(d, deletes) == {n \in config[d] : n.path \notin deletes}

\* Mutant: one device too many.
GoOnPast(c) ==
  IF job[c].at <= Len(Targets)
  THEN /\ job' = [job EXCEPT ![c] = [phase |-> "attachments", sid |-> @.sid,
                                    at |-> @.at + 1, deletes |-> {}]]
       /\ UNCHANGED told
  ELSE /\ job' = [job EXCEPT ![c] = NoJob]
       /\ told' = told \cup {<<c, job[c].sid>>}

\* To the next device, or done: ok.
GoOn(c) ==
  IF job[c].at < Len(Targets)
  THEN /\ job' = [job EXCEPT ![c] = [phase |-> "attachments", sid |-> @.sid,
                                    at |-> @.at + 1, deletes |-> {}]]
       /\ UNCHANGED told
  ELSE /\ job' = [job EXCEPT ![c] = NoJob]
       /\ told' = told \cup {<<c, job[c].sid>>}

\* Mutant: a router that refuses is taken for one with nothing to delete.
FinishForgiving(c) ==
  LET d == Targets[job[c].at]
  IN  /\ job[c].phase = "set"
      /\ config' = IF Refused(d, job[c].deletes) THEN config
                   ELSE [config EXCEPT ![d] = Delete(d, job[c].deletes)]
      /\ GoOn(c)
      /\ UNCHANGED <<live, again>>

\* Nothing found on this device, or one Set with all of it.
Finish(c) ==
  LET d == Targets[job[c].at]
  IN  /\ job[c].phase = "set"
      /\ ~Refused(d, job[c].deletes)
      /\ config' = [config EXCEPT ![d] = Delete(d, job[c].deletes)]
      /\ GoOn(c)
      /\ UNCHANGED <<live, again>>

\* Mutant: a device that fails is skipped.
FailSkips(c) ==
  /\ job[c] # NoJob
  /\ GoOn(c)
  /\ UNCHANGED <<config, live, again>>

\* A router does not answer, or refuses: teardown answers ok=False and the
\* devices after it are not visited.  The Set may have been applied.
Fail(c) ==
  /\ job[c] # NoJob
  /\ \/ UNCHANGED config
     \/ LET d == Targets[job[c].at]
        IN  /\ job[c].phase = "set"
            /\ ~Refused(d, job[c].deletes)
            /\ config' = [config EXCEPT ![d] = Delete(d, job[c].deletes)]
  /\ job' = [job EXCEPT ![c] = NoJob]
  /\ UNCHANGED <<live, told, again>>

TeardownStep(c) == \/ ReadAttachments(c) \/ ReadTemplates(c) \/ ReadTunnels(c)
                   \/ Finish(c) \/ Fail(c)

Next == /\ \/ \E s \in Sessions, ok \in BOOLEAN : Apply(s, ok)
           \/ \E c \in Callers, s \in Sessions : Start(c, s)
           \/ \E c \in Callers : TeardownStep(c)
        /\ Noted

Spec == Init /\ [][Next]_vars

-----------------------------------------------------------------------------
(* Properties. *)

\* No other session uses the same interface: an attachment is keyed by it.
Alone(s) ==
  Plan[s].kind = "bandwidth" =>
    \A t \in Sessions \ {s} : \/ Plan[t].kind # "bandwidth"
                              \/ Plan[t].device # Plan[s].device
                              \/ Plan[t].ingress_if # Plan[s].ingress_if

\* A teardown that answers ok has left nothing with the session's name on any
\* device, whatever other threads, lost answers and failed routers did, until
\* the name is applied again.
OkMeansGone == \A p \in told : p[1] \in again \/ p[2] \notin Configured

\* The order of the delete list keeps the router from refusing a teardown, as
\* long as nobody applies the session between its reads and its Set.
NeverRefused ==
  \A c \in Callers \ again : job[c] # NoJob /\ job[c].phase = "set"
    => ~Refused(Targets[job[c].at], job[c].deletes)

\* telemetry_config: the exports on a device, with or without their tunnel.
TelemetryConfig(d) ==
  {[name |-> n.of, tunnel |-> \E m \in config[d] : m.path = Path("tunnel", n.of)] :
     n \in {m \in config[d] : m.path[1] = "destination"}}

\* Every export the readout lists is one the router dials.
ExportsAreReal == \A d \in Devices : \A e \in TelemetryConfig(d) : e.tunnel

\* teardown removes what is named after its session and nothing else, whatever
\* was written between its reads and its Set, and an apply replaces nodes and
\* removes none.  Where two sessions share an interface the attachment a
\* teardown read may be another's when the Set is sent.
Lost(d) == {n \in config[d] : \A m \in config'[d] : m.path # n.path}

OwnConfigOnly ==
  [][\A d \in Devices : \A n \in Lost(d) :
       \E c \in Callers : /\ job[c] # NoJob /\ job'[c] # job[c]
                         /\ (job[c].sid = n.of \/ ~Alone(n.of))]_vars

\* The policer of a session that was applied, and that nobody has asked to
\* tear down, is attached, unless another session uses its interface.
LiveIsShaped ==
  \A s \in live : Alone(s) => Nodes(s) \subseteq config[Plan[s].device]

\* The gNMI adapter keeps what the port promises: each teardown that answers ok
\* had a moment between its call and its answer at which nothing of its session
\* was left, also when the session is applied meanwhile, and no session loses
\* its config but by a teardown of it.
Port == INSTANCE NetPort
          WITH applied <- Configured, None <- NoJob,
               call <- [c \in Callers |-> IF job[c] = NoJob THEN NoJob ELSE job[c].sid]

ImplementsPort == Port!PortSpec
=============================================================================

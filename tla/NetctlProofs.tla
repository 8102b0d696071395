---------------------------- MODULE NetctlProofs ----------------------------
(***************************************************************************)
(* Proofs about Netctl, for any plan, any devices and any threads: what a  *)
(* teardown reports gone is gone, a teardown is never refused by the       *)
(* router, a live session's config is whole, an export that is listed is   *)
(* dialled, and the adapter implements NetPort.                            *)
(***************************************************************************)
EXTENDS Netctl, SequenceTheorems, TLAPS

-----------------------------------------------------------------------------
(* The shape of the nodes a session leaves. *)

LEMMA NodeFacts ==
  ASSUME NEW s \in Sessions, NEW n \in Nodes(s)
  PROVE  /\ n \in Node /\ n.of = s /\ n.path \in Paths
         /\ n.path[1] \in {"template", "attachment", "destination", "tunnel"}
         /\ n.path[1] = "attachment" => n.refers = {Path("template", s)}
         /\ n.path[1] = "tunnel" => n.refers = {Path("destination", s)}
         /\ n.path[1] \in {"template", "destination"} => n.refers = {}
         /\ n.path[1] # "attachment" => n.path = Path(n.path[1], s)
         /\ n.path[1] = "attachment" => /\ n.path = Path("attachment", Plan[s].ingress_if)
                                        /\ Plan[s].kind = "bandwidth"
<1>1. n \in Node /\ n.path \in Paths BY DEF Node, Paths
<1>2. QED BY <1>1 DEF Nodes, Path

LEMMA NodeOf ==
  ASSUME NEW n \in Node PROVE n.of \in Sessions /\ n \in Nodes(n.of)
<1>1. PICK s \in Sessions : n \in Nodes(s) BY DEF Node
<1>2. QED BY <1>1, NodeFacts

LEMMA Kind ==
  ASSUME NEW n \in Node
  PROVE  /\ n.path \in Paths
         /\ n.path[1] \in {"template", "attachment", "destination", "tunnel"}
BY NodeOf, NodeFacts

LEMMA DeviceFacts ==
  /\ Len(Targets) \in Nat \ {0} /\ DOMAIN Targets = 1..Len(Targets)
  /\ \A i \in DOMAIN Targets : Targets[i] \in Devices
  /\ \A s \in Sessions : Plan[s].device \in Devices
BY TargetsAssumption, EmptySeq DEF Devices

LEMMA JobFacts ==
  ASSUME TypeOK, NEW c \in Callers, job[c] # NoJob
  PROVE  /\ job[c] \in Job
         /\ job[c].sid \in Sessions /\ job[c].at \in DOMAIN Targets
         /\ job[c].deletes \subseteq Paths
         /\ job[c].phase \in {"attachments", "templates", "tunnels", "set"}
         /\ Targets[job[c].at] \in Devices
<1>1. job[c] \in Job BY DEF TypeOK
<1>2. QED BY <1>1, DeviceFacts DEF Job

LEMMA NoJobIdle == \A p \in {"attachments", "templates", "tunnels", "set"} : NoJob.phase # p
BY DEF NoJob

\* A job is a job whatever the order in which its fields are set.
LEMMA NewJob ==
  ASSUME NEW s \in Sessions, NEW i \in DOMAIN Targets
  PROVE  LET j == [phase |-> "attachments", sid |-> s, at |-> i, deletes |-> {}]
         IN  j \in Job /\ j # NoJob
<1> DEFINE j == [phase |-> "attachments", sid |-> s, at |-> i, deletes |-> {}]
<1>1. j \in Job BY DEF Job
<1>2. j.phase = "attachments" /\ NoJob.phase = "idle" BY DEF NoJob
<1>3. j # NoJob BY <1>2
<1>4. QED BY <1>1, <1>3

-----------------------------------------------------------------------------
(* Every step is an apply, the start of a teardown, a read, or the end of a *)
(* device. *)

Deleted(c) ==
  LET d == Targets[job[c].at]
  IN  config' = [config EXCEPT ![d] = Delete(d, job[c].deletes)]

LEMMA ReadStep ==
  ASSUME TypeOK, NEW c \in Callers, NEW from, NEW to \in {"templates", "tunnels", "set"},
         from \in {"attachments", "templates", "tunnels"}, NEW kinds, Reads(c, from, to, kinds)
  PROVE  /\ job[c] # NoJob /\ job'[c] # NoJob
         /\ job'[c] \in Job
         /\ job'[c].phase = to /\ job'[c].sid = job[c].sid /\ job'[c].at = job[c].at
         /\ job'[c].deletes = job[c].deletes \cup Found(c, kinds)
         /\ job' \in [Callers -> Job \cup {NoJob}]
         /\ \A x \in Callers : x # c => job'[x] = job[x]
<1>1. job[c] # NoJob BY NoJobIdle DEF Reads
<1>2. job[c] \in Job BY <1>1, JobFacts
<1>3. Found(c, kinds) \subseteq Paths
  <2>1. config[Targets[job[c].at]] \subseteq Node BY <1>1, JobFacts DEF TypeOK
  <2>2. QED BY <2>1, Kind DEF Found, Read
<1> DEFINE j == [job[c] EXCEPT !.phase = to, !.deletes = @ \cup Found(c, kinds)]
<1>4. /\ j \in Job /\ j.phase = to /\ j.sid = job[c].sid /\ j.at = job[c].at
      /\ j.deletes = job[c].deletes \cup Found(c, kinds)
  BY <1>2, <1>3 DEF Job
<1>5. job' = [job EXCEPT ![c] = j] BY DEF Reads
<1> HIDE DEF j
<1>6. job'[c] = j /\ \A x \in Callers : x # c => job'[x] = job[x]
  BY <1>5 DEF TypeOK
<1>7. job' \in [Callers -> Job \cup {NoJob}] BY <1>4, <1>5 DEF TypeOK
<1>8. j # NoJob BY <1>4, NoJobIdle
<1>9. QED BY <1>1, <1>4, <1>6, <1>7, <1>8

LEMMA GoOnStep ==
  ASSUME TypeOK, NEW c \in Callers, job[c] # NoJob, GoOn(c)
  PROVE  /\ job' \in [Callers -> Job \cup {NoJob}]
         /\ \A x \in Callers : x # c => job'[x] = job[x]
         /\ \/ /\ job[c].at + 1 \in DOMAIN Targets
               /\ job'[c] = [phase |-> "attachments", sid |-> job[c].sid,
                             at |-> job[c].at + 1, deletes |-> {}]
               /\ job'[c] # NoJob
               /\ told' = told
            \/ /\ job[c].at = Len(Targets)
               /\ job'[c] = NoJob
               /\ told' = told \cup {<<c, job[c].sid>>}
<1>1. /\ job[c].at \in 1..Len(Targets) /\ job[c].sid \in Sessions
      /\ Len(Targets) \in Nat /\ DOMAIN Targets = 1..Len(Targets)
  BY JobFacts, DeviceFacts
<1>2. CASE job[c].at < Len(Targets)
  <2> DEFINE j == [phase |-> "attachments", sid |-> job[c].sid,
                   at |-> job[c].at + 1, deletes |-> {}]
  <2>1. job[c].at + 1 \in DOMAIN Targets BY <1>1, <1>2
  <2>2. j \in Job /\ j # NoJob BY <1>1, <2>1, NewJob
  <2>3. job' = [job EXCEPT ![c] = j] /\ told' = told BY <1>2 DEF GoOn
  <2>4. job' \in [Callers -> Job \cup {NoJob}] /\ job'[c] = j
        /\ \A x \in Callers : x # c => job'[x] = job[x]
    <3> HIDE DEF j
    <3>1. QED BY <2>2, <2>3 DEF TypeOK
  <2>5. QED BY <2>1, <2>2, <2>3, <2>4
<1>3. CASE ~(job[c].at < Len(Targets))
  <2>1. job[c].at = Len(Targets) BY <1>1, <1>3
  <2>2. job' = [job EXCEPT ![c] = NoJob] /\ told' = told \cup {<<c, job[c].sid>>}
    BY <1>3 DEF GoOn
  <2>3. QED BY <2>1, <2>2 DEF TypeOK
<1>4. QED BY <1>2, <1>3

LEMMA DeletedFacts ==
  ASSUME TypeOK, NEW c \in Callers, job[c] # NoJob, Deleted(c)
  PROVE  /\ config' \in [Devices -> SUBSET Node]
         /\ \A d \in Devices : config'[d] \subseteq config[d]
         /\ config'[Targets[job[c].at]] =
              {n \in config[Targets[job[c].at]] : n.path \notin job[c].deletes}
         /\ \A d \in Devices : d # Targets[job[c].at] => config'[d] = config[d]
BY JobFacts DEF Deleted, Delete, TypeOK

-----------------------------------------------------------------------------
(* The inductive invariant. *)

\* A node is on the device its session was planned for, one the adapter knows.
Planned ==
  \A d \in Devices : \A n \in config[d] : Plan[n.of].device = d /\ Known(d)

\* The kinds a thread has read when it is in a phase.
HasRead(phase) ==
  CASE phase = "templates" -> {"attachment"}
    [] phase = "tunnels" -> {"attachment", "template"}
    [] phase = "set" -> {"attachment", "template", "tunnel", "destination"}
    [] OTHER -> {}

\* A thread has on its list nodes of its session only, found where it looks.
Listed(c) ==
  /\ job[c].deletes \subseteq {n.path : n \in Nodes(job[c].sid)}
  /\ job[c].deletes # {} => Plan[job[c].sid].device = Targets[job[c].at]

\* And every one of the kinds it has read here, unless the session was applied
\* since.
Swept(c) ==
  \A n \in config[Targets[job[c].at]] :
    n.of = job[c].sid /\ n.path[1] \in HasRead(job[c].phase) => n.path \in job[c].deletes

AllSwept == \A c \in Callers : job[c] # NoJob => Listed(c) /\ (c \notin again => Swept(c))

IInv == TypeOK /\ Planned /\ AllSwept

LEMMA SweptSurvives ==
  ASSUME IInv, NEW c \in Callers, job[c] # NoJob, job'[c] = job[c],
         c \notin again' =>
           /\ c \notin again
           /\ \A d \in Devices : \A n \in config'[d] : n \in config[d] \/ n.of # job[c].sid
  PROVE  Listed(c)' /\ (c \notin again' => Swept(c)')
<1>1. Listed(c) /\ (c \notin again => Swept(c)) /\ Targets[job[c].at] \in Devices
  BY JobFacts DEF IInv, AllSwept
<1>2. Listed(c)' BY <1>1 DEF Listed
<1>3. QED BY <1>1, <1>2 DEF Swept

LEMMA ApplyStep ==
  ASSUME IInv, NEW s \in Sessions, NEW ok \in BOOLEAN, Apply(s, ok), clear' \subseteq Callers
  PROVE  IInv'
<1> DEFINE d == Plan[s].device
<1>0. TypeOK /\ d \in Devices BY DeviceFacts DEF IInv
<1>1. job' = job /\ told' = told /\ live' \subseteq Sessions BY <1>0 DEF Apply, TypeOK
<1>2. \/ config' = config /\ again' = again
      \/ /\ Known(d) /\ config' = [config EXCEPT ![d] = Updated(d, Written(s))]
         /\ again' = again \cup Ending(s) \cup {c \in Callers : <<c, s>> \in told}
  BY DEF Apply
<1>3. \A n \in Nodes(s) : n \in Node /\ n.of = s BY NodeFacts
<1>4. \A x \in Devices : \A n \in config'[x] :
         n \in config[x] \/ (n \in Nodes(s) /\ x = d /\ Known(d) /\ Ending(s) \subseteq again')
  BY <1>0, <1>2 DEF Updated, Written, TypeOK
<1>5. config' \in [Devices -> SUBSET Node]
  <2>1. Updated(d, Written(s)) \subseteq Node
    BY <1>0, <1>3 DEF Updated, Written, TypeOK
  <2>2. QED BY <1>0, <1>2, <2>1 DEF TypeOK
<1>6. again' \subseteq Callers /\ again \subseteq again' BY <1>0, <1>2 DEF TypeOK, Ending
<1>7. TypeOK' BY <1>0, <1>1, <1>5, <1>6 DEF TypeOK
<1>8. Planned' BY <1>3, <1>4 DEF IInv, Planned
<1>9. ASSUME NEW c \in Callers, job'[c] # NoJob
      PROVE  Listed(c)' /\ (c \notin again' => Swept(c)')
  <2>1. job[c] # NoJob /\ job'[c] = job[c] BY <1>1, <1>9
  <2>2. ASSUME c \notin again', NEW x \in Devices, NEW n \in config'[x], n \notin config[x]
        PROVE  n.of # job[c].sid
    <3>1. n.of = s /\ c \notin Ending(s) BY <1>3, <1>4, <2>2
    <3>2. QED BY <2>1, <3>1 DEF Ending
  <2>3. QED BY <1>6, <2>1, <2>2, SweptSurvives
<1>10. QED BY <1>7, <1>8, <1>9 DEF IInv, AllSwept

\* Steps that write nothing new: the thread that moved is all there is to
\* look at.
LEMMA Quiet ==
  ASSUME IInv, live' \subseteq Sessions, told' \subseteq Callers \X Sessions,
         again' \subseteq Callers, clear' \subseteq Callers,
         config' \in [Devices -> SUBSET Node],
         \A d \in Devices : config'[d] \subseteq config[d],
         job' \in [Callers -> Job \cup {NoJob}],
         NEW c \in Callers,
         \A x \in Callers : x # c => job'[x] = job[x] /\ (x \in again => x \in again'),
         job'[c] # NoJob => Listed(c)' /\ (c \notin again' => Swept(c)')
  PROVE  IInv'
<1>1. \A d \in Devices : \A n \in config'[d] : n \in config[d] OBVIOUS
<1>2. TypeOK' BY DEF TypeOK
<1>3. Planned' BY <1>1 DEF IInv, Planned
<1>4. AllSwept' BY <1>1, SweptSurvives DEF AllSwept
<1>5. QED BY <1>2, <1>3, <1>4 DEF IInv

\* A thread that begins to look at a device has an empty list.
LEMMA Begins ==
  ASSUME NEW c \in Callers, job'[c].phase = "attachments", job'[c].deletes = {}
  PROVE  Listed(c)' /\ Swept(c)'
<1>1. HasRead("attachments") = {} BY DEF HasRead
<1>2. QED BY <1>1 DEF Listed, Swept

LEMMA StartStep ==
  ASSUME IInv, NEW c \in Callers, NEW s \in Sessions, Start(c, s), clear' \subseteq Callers
  PROVE  IInv'
<1> DEFINE j == [phase |-> "attachments", sid |-> s, at |-> 1, deletes |-> {}]
<1>0. TypeOK BY DEF IInv
<1>1. j \in Job /\ j # NoJob BY NewJob, DeviceFacts
<1>2. /\ job' = [job EXCEPT ![c] = j] /\ config' = config /\ live' \subseteq live
      /\ told' \subseteq told /\ again' = again \ {c}
  BY DEF Start
<1>3. j.phase = "attachments" /\ j.deletes = {} OBVIOUS
<1> HIDE DEF j
<1>4. /\ job' \in [Callers -> Job \cup {NoJob}] /\ job'[c] = j
      /\ \A x \in Callers : x # c => job'[x] = job[x]
  BY <1>0, <1>1, <1>2 DEF TypeOK
<1>5. Listed(c)' /\ Swept(c)' BY <1>3, <1>4, Begins
<1>6. /\ live' \subseteq Sessions /\ told' \subseteq Callers \X Sessions
      /\ again' \subseteq Callers /\ config' \in [Devices -> SUBSET Node]
      /\ \A d \in Devices : config'[d] \subseteq config[d]
  BY <1>0, <1>2 DEF TypeOK
<1>7. \A x \in Callers : x # c => (x \in again => x \in again') BY <1>2
<1>8. QED BY <1>4, <1>5, <1>6, <1>7, Quiet

LEMMA ReadKeeps ==
  ASSUME IInv, NEW c \in Callers, NEW from, NEW to, NEW kinds, Reads(c, from, to, kinds),
         clear' \subseteq Callers,
         \/ from = "attachments" /\ to = "templates" /\ kinds = {"attachment"}
         \/ from = "templates" /\ to = "tunnels" /\ kinds = {"template"}
         \/ from = "tunnels" /\ to = "set" /\ kinds = {"tunnel", "destination"}
  PROVE  IInv'
<1>0. TypeOK BY DEF IInv
<1>1. /\ job[c] # NoJob /\ job'[c] # NoJob
      /\ job'[c].phase = to /\ job'[c].sid = job[c].sid /\ job'[c].at = job[c].at
      /\ job'[c].deletes = job[c].deletes \cup Found(c, kinds)
      /\ job' \in [Callers -> Job \cup {NoJob}]
      /\ \A x \in Callers : x # c => job'[x] = job[x]
  <2>1. from \in {"attachments", "templates", "tunnels"} /\ to \in {"templates", "tunnels", "set"}
    OBVIOUS
  <2>2. Reads(c, from, to, kinds) OBVIOUS
  <2>3. QED BY ONLY <1>0, <2>1, <2>2, ReadStep
<1>2. Listed(c) /\ (c \notin again => Swept(c)) BY <1>1 DEF IInv, AllSwept
<1>3. UNCHANGED <<config, live, told, again>> /\ job[c].phase = from BY DEF Reads
<1>4. HasRead(to) = HasRead(from) \cup kinds BY DEF HasRead
<1>5. ASSUME c \notin again, NEW n \in config[Targets[job[c].at]], n.of = job[c].sid,
             n.path[1] \in HasRead(to)
      PROVE  n.path \in job[c].deletes \cup Found(c, kinds)
  <2>1. CASE n.path[1] \in HasRead(from) BY <1>2, <1>3, <1>5, <2>1 DEF Swept
  <2>2. CASE n.path[1] \in kinds BY <1>5, <2>2 DEF Found, Read
  <2>3. QED BY <1>4, <1>5, <2>1, <2>2
<1>6. Found(c, kinds) \subseteq {n.path : n \in Nodes(job[c].sid)}
  <2>1. config[Targets[job[c].at]] \subseteq Node BY <1>0, <1>1, JobFacts DEF TypeOK
  <2>2. QED BY <2>1, NodeOf DEF Found, Read
<1>7. Found(c, kinds) # {} => Plan[job[c].sid].device = Targets[job[c].at]
  <2>1. Targets[job[c].at] \in Devices BY <1>0, <1>1, JobFacts
  <2>2. QED BY <2>1 DEF Found, Read, IInv, Planned
<1>8. Listed(c)' BY <1>1, <1>2, <1>6, <1>7 DEF Listed
<1>9. c \notin again' => Swept(c)' BY <1>1, <1>3, <1>5 DEF Swept
<1>10. /\ config' \in [Devices -> SUBSET Node] /\ \A d \in Devices : config'[d] \subseteq config[d]
       /\ live' \subseteq Sessions /\ told' \subseteq Callers \X Sessions /\ again' \subseteq Callers
  BY <1>0, <1>3 DEF TypeOK
<1>11. \A x \in Callers : x # c => (x \in again => x \in again') BY <1>3
<1>12. QED BY <1>1, <1>8, <1>9, <1>10, <1>11, Quiet

LEMMA FailStep ==
  ASSUME IInv, NEW c \in Callers, Fail(c), clear' \subseteq Callers PROVE IInv'
<1>0. TypeOK BY DEF IInv
<1>1. /\ job[c] # NoJob /\ job' = [job EXCEPT ![c] = NoJob]
      /\ UNCHANGED <<live, told, again>>
      /\ config' = config \/ Deleted(c)
  BY DEF Fail, Deleted
<1>2. config' \in [Devices -> SUBSET Node] /\ \A d \in Devices : config'[d] \subseteq config[d]
  BY <1>0, <1>1, DeletedFacts DEF TypeOK
<1>3. /\ job' \in [Callers -> Job \cup {NoJob}] /\ job'[c] = NoJob
      /\ \A x \in Callers : x # c => job'[x] = job[x]
  BY <1>0, <1>1 DEF TypeOK
<1>4. live' \subseteq Sessions /\ told' \subseteq Callers \X Sessions /\ again' \subseteq Callers
  BY <1>0, <1>1 DEF TypeOK
<1>5. QED BY <1>1, <1>2, <1>3, <1>4, Quiet

LEMMA FinishFacts ==
  ASSUME IInv, NEW c \in Callers, Finish(c)
  PROVE  /\ job[c] # NoJob /\ job[c].phase = "set" /\ Deleted(c)
         /\ ~Refused(Targets[job[c].at], job[c].deletes)
         /\ GoOn(c) /\ UNCHANGED <<live, again>>
BY NoJobIdle DEF Finish, Deleted

LEMMA FinishStep ==
  ASSUME IInv, NEW c \in Callers, Finish(c), clear' \subseteq Callers PROVE IInv'
<1>0. TypeOK BY DEF IInv
<1>1. job[c] # NoJob /\ Deleted(c) /\ GoOn(c) /\ UNCHANGED <<live, again>> BY FinishFacts
<1>2. config' \in [Devices -> SUBSET Node] /\ \A d \in Devices : config'[d] \subseteq config[d]
  BY <1>0, <1>1, DeletedFacts
<1>3. /\ job' \in [Callers -> Job \cup {NoJob}]
      /\ \A x \in Callers : x # c => job'[x] = job[x]
      /\ \/ /\ job'[c] = [phase |-> "attachments", sid |-> job[c].sid,
                          at |-> job[c].at + 1, deletes |-> {}]
            /\ told' = told
         \/ job'[c] = NoJob /\ told' = told \cup {<<c, job[c].sid>>}
  BY ONLY <1>0, <1>1, GoOnStep
<1>4. job'[c] = NoJob \/ (job'[c].phase = "attachments" /\ job'[c].deletes = {})
  BY ONLY <1>3
<1>5. job'[c] # NoJob => Listed(c)' /\ Swept(c)' BY <1>4, Begins
<1>6. job[c].sid \in Sessions BY <1>0, <1>1, JobFacts
<1>7. live' \subseteq Sessions /\ told' \subseteq Callers \X Sessions /\ again' \subseteq Callers
  BY <1>0, <1>1, <1>3, <1>6 DEF TypeOK
<1>8. QED BY <1>1, <1>2, <1>3, <1>5, <1>7, Quiet

LEMMA IInvStep ==
  ASSUME IInv, [Next]_vars PROVE IInv'
<1>0. CASE UNCHANGED vars
  BY <1>0 DEF vars, IInv, TypeOK, Planned, AllSwept, Listed, Swept
<1>1. CASE Next
  <2>0. clear' \subseteq Callers BY <1>1 DEF Next, Noted
  <2>1. ASSUME NEW c \in Callers, TeardownStep(c) PROVE IInv'
    <3>1. CASE ReadAttachments(c) BY <2>0, <3>1, ReadKeeps DEF ReadAttachments
    <3>2. CASE ReadTemplates(c) BY <2>0, <3>2, ReadKeeps DEF ReadTemplates
    <3>3. CASE ReadTunnels(c) BY <2>0, <3>3, ReadKeeps DEF ReadTunnels
    <3>4. CASE Finish(c) BY <2>0, <3>4, FinishStep
    <3>5. CASE Fail(c) BY <2>0, <3>5, FailStep
    <3>6. QED BY <2>1, <3>1, <3>2, <3>3, <3>4, <3>5 DEF TeardownStep
  <2>2. QED BY <1>1, <2>0, <2>1, ApplyStep, StartStep DEF Next
<1>2. QED BY <1>0, <1>1

LEMMA IInvInit == Init => IInv
BY DEF Init, IInv, TypeOK, Planned, AllSwept

\* Every reachable state is well typed.
THEOREM TypeCorrect == Spec => []TypeOK
BY IInvInit, IInvStep, PTL DEF Spec, IInv

-----------------------------------------------------------------------------
(* The order of the delete list. *)

LEMMA RefersFacts ==
  ASSUME NEW n \in Node, NEW p \in n.refers
  PROVE  \/ n.path[1] = "attachment" /\ p = Path("template", n.of)
         \/ n.path[1] = "tunnel" /\ p = Path("destination", n.of)
BY NodeOf, NodeFacts

LEMMA DeletesFacts ==
  ASSUME IInv, NEW c \in Callers, job[c] # NoJob, NEW p \in job[c].deletes
  PROVE  /\ p[1] \in {"template", "attachment", "destination", "tunnel"}
         /\ p[1] # "attachment" => p = Path(p[1], job[c].sid)
         /\ p[1] = "attachment" => /\ p = Path("attachment", Plan[job[c].sid].ingress_if)
                                   /\ Plan[job[c].sid].kind = "bandwidth"
<1>1. Listed(c) /\ job[c].sid \in Sessions BY JobFacts DEF IInv, AllSwept
<1>2. PICK m \in Nodes(job[c].sid) : p = m.path BY <1>1 DEF Listed
<1>3. QED BY <1>1, <1>2, NodeFacts

LEMMA InOrder == IInv => NeverRefused
<1> SUFFICES ASSUME IInv, NEW c \in Callers \ again, job[c] # NoJob, job[c].phase = "set",
                    NEW p \in job[c].deletes, NEW n \in config[Targets[job[c].at]],
                    p \in n.refers
             PROVE  n.path \in job[c].deletes /\ Place(n.path) < Place(p)
  BY DEF NeverRefused, Refused
<1>1. n \in Node /\ n.path[1] \in {"template", "attachment", "destination", "tunnel"}
  BY JobFacts, Kind DEF IInv, TypeOK
<1>2. \/ n.path[1] = "attachment" /\ p = Path("template", n.of)
      \/ n.path[1] = "tunnel" /\ p = Path("destination", n.of)
  BY <1>1, RefersFacts
<1>3. p[1] \in {"template", "destination"} /\ p[2] = n.of BY <1>2 DEF Path
<1>4. p = Path(p[1], job[c].sid) BY <1>3, DeletesFacts
<1>5. n.of = job[c].sid BY <1>3, <1>4 DEF Path
<1>6. n.path \in job[c].deletes
  <2>1. Swept(c) BY DEF IInv, AllSwept
  <2>2. QED BY <1>1, <1>5, <2>1 DEF Swept, HasRead
<1>7. Place(n.path) < Place(p)
  <2>1. CASE n.path[1] = "attachment" BY <1>2, <2>1 DEF Place, Path
  <2>2. CASE n.path[1] = "tunnel" BY <1>2, <2>2 DEF Place, Path
  <2>3. QED BY <1>2, <2>1, <2>2
<1>8. QED BY <1>6, <1>7

\* No teardown is ever refused by a router for what still refers to what it
\* deletes, unless its own session was applied after it read.
THEOREM TeardownsGoThrough == Spec => []NeverRefused
BY IInvInit, IInvStep, InOrder, PTL DEF Spec

-----------------------------------------------------------------------------
(* A teardown touches nobody else that has an interface of its own. *)

TouchesOwn ==
  \A d \in Devices : \A n \in Lost(d) :
    \E c \in Callers : /\ job[c] # NoJob /\ job'[c] # job[c]
                      /\ (job[c].sid = n.of \/ ~Alone(n.of))

LEMMA DeletedOwn ==
  ASSUME IInv, NEW c \in Callers, job[c] # NoJob, Deleted(c),
         NEW d \in Devices, NEW n \in config[d], n \notin config'[d]
  PROVE  job[c].sid = n.of \/ ~Alone(n.of)
<1>0. TypeOK BY DEF IInv
<1>1. d = Targets[job[c].at] /\ n \in config[d] /\ n.path \in job[c].deletes
  BY <1>0, DeletedFacts
<1>2. n \in Node BY <1>0, <1>1 DEF TypeOK
<1>3. n.of \in Sessions /\ n \in Nodes(n.of) /\ job[c].sid \in Sessions
  BY <1>0, <1>2, NodeOf, JobFacts
<1>4. CASE n.path[1] # "attachment"
  <2>1. n.path = Path(n.path[1], n.of) BY <1>3, <1>4, NodeFacts
  <2>2. n.path = Path(n.path[1], job[c].sid) BY <1>1, <1>4, DeletesFacts
  <2>3. QED BY <2>1, <2>2 DEF Path
<1>5. CASE n.path[1] = "attachment"
  <2>1. n.path = Path("attachment", Plan[n.of].ingress_if) /\ Plan[n.of].kind = "bandwidth"
    BY <1>3, <1>5, NodeFacts
  <2>2. /\ n.path = Path("attachment", Plan[job[c].sid].ingress_if)
        /\ Plan[job[c].sid].kind = "bandwidth"
    BY <1>1, <1>5, DeletesFacts
  <2>3. Plan[n.of].ingress_if = Plan[job[c].sid].ingress_if BY <2>1, <2>2 DEF Path
  <2>4. Plan[n.of].device = d BY <1>1 DEF IInv, Planned
  <2>5. Plan[job[c].sid].device = d BY <1>1 DEF IInv, AllSwept, Listed
  <2>6. QED BY <1>3, <2>1, <2>2, <2>3, <2>4, <2>5 DEF Alone
<1>6. QED BY <1>4, <1>5

LEMMA TouchStep ==
  ASSUME IInv, [Next]_vars PROVE TouchesOwn
<1>0. TypeOK BY DEF IInv
<1>1. ASSUME config' = config PROVE TouchesOwn BY <1>1 DEF TouchesOwn, Lost
<1>2. ASSUME NEW s \in Sessions, NEW ok \in BOOLEAN, Apply(s, ok) PROVE TouchesOwn
  <2> DEFINE x == Plan[s].device
  <2>1. CASE config' = config BY <1>1, <2>1
  <2>2. CASE config' = [config EXCEPT ![x] = Updated(x, Written(s))]
    <3>1. /\ config'[x] = Updated(x, Written(s))
          /\ \A d \in Devices : d # x => config'[d] = config[d]
      BY <1>0, <2>2, DeviceFacts DEF TypeOK
    <3>2. \A d \in Devices : \A n \in config[d] : \E m \in config'[d] : m.path = n.path
      BY <3>1 DEF Updated
    <3>3. QED BY <3>2 DEF TouchesOwn, Lost
  <2>3. QED BY <1>2, <2>1, <2>2 DEF Apply
<1>3. ASSUME NEW c \in Callers, Deleted(c), job[c] # NoJob, job'[c] # job[c]
      PROVE  TouchesOwn
  <2>1. \A d \in Devices : \A n \in Lost(d) : n \in config[d] /\ n \notin config'[d]
    BY DEF Lost
  <2>2. QED BY <1>3, <2>1, DeletedOwn DEF TouchesOwn
<1>4. ASSUME NEW c \in Callers, TeardownStep(c) PROVE TouchesOwn
  <2>1. CASE ReadAttachments(c) \/ ReadTemplates(c) \/ ReadTunnels(c)
    BY <1>1, <2>1 DEF ReadAttachments, ReadTemplates, ReadTunnels, Reads
  <2>2. CASE Finish(c)
    <3>1. job[c] # NoJob /\ Deleted(c) /\ job[c].phase = "set"
      BY <2>2, FinishFacts
    <3>2. \/ job'[c] = NoJob
          \/ job'[c] = [phase |-> "attachments", sid |-> job[c].sid,
                        at |-> job[c].at + 1, deletes |-> {}]
      BY <1>0, <2>2, <3>1, GoOnStep DEF Finish
    <3>3. job'[c].phase \in {"attachments", "idle"} BY <3>2 DEF NoJob
    <3>4. job'[c] # job[c] BY <3>1, <3>3
    <3>5. QED BY <1>3, <3>1, <3>4
  <2>3. CASE Fail(c)
    <3>1. job[c] # NoJob /\ job'[c] = NoJob /\ (config' = config \/ Deleted(c))
      BY <1>0, <2>3 DEF Fail, Deleted, TypeOK
    <3>2. QED BY <1>1, <1>3, <3>1
  <2>4. QED BY <1>4, <2>1, <2>2, <2>3 DEF TeardownStep
<1>5. ASSUME NEW c \in Callers, NEW s \in Sessions, Start(c, s) PROVE TouchesOwn
  BY <1>1, <1>5 DEF Start
<1>6. CASE UNCHANGED vars BY <1>1, <1>6 DEF vars
<1>7. QED BY <1>2, <1>4, <1>5, <1>6 DEF Next

\* A teardown removes nothing but its own session's config, whatever runs beside
\* it, except where two sessions share an interface; an apply removes nothing.
THEOREM TeardownIsOwn == Spec => OwnConfigOnly
<1>1. IInv /\ [Next]_vars => IInv' /\ [TouchesOwn]_vars BY IInvStep, TouchStep
<1>2. QED BY <1>1, IInvInit, PTL DEF Spec, OwnConfigOnly, TouchesOwn

-----------------------------------------------------------------------------
(* What is left of a session, also when sessions share an interface: an      *)
(* overwritten attachment leaves its template behind.                        *)

\* What a node refers to is there.
Whole(nodes) == \A n \in nodes : \A p \in n.refers : \E m \in nodes : m.path = p

Backed == \A d \in Devices : Whole(config[d])

\* The node every other node of a session needs.
Root(s) == Path(IF Plan[s].kind = "bandwidth" THEN "template" ELSE "destination", s)

LEMMA Anchor ==
  ASSUME NEW nodes \in SUBSET Node, Whole(nodes), NEW n \in nodes
  PROVE  \E m \in nodes : m.of = n.of /\ m.path = Root(n.of)
<1>1. n.of \in Sessions /\ n \in Nodes(n.of) BY NodeOf
<1>2. n.path = Root(n.of) \/ n.refers = {Root(n.of)} BY <1>1 DEF Nodes, Root, Path
<1>3. CASE n.refers = {Root(n.of)}
  <2>1. PICK m \in nodes : m.path = Root(n.of) BY <1>3 DEF Whole
  <2>2. m \in Nodes(m.of) /\ m.of \in Sessions BY NodeOf
  <2>3. m.path[1] # "attachment" /\ m.path[2] = n.of BY <2>1 DEF Root, Path
  <2>4. m.path = Path(m.path[1], m.of) BY <2>2, <2>3, NodeFacts
  <2>5. m.of = n.of BY <2>3, <2>4 DEF Path
  <2>6. QED BY <2>1, <2>5
<1>4. QED BY <1>2, <1>3

LEMMA BackedStep ==
  ASSUME IInv, Backed, [Next]_vars PROVE Backed'
<1>0. TypeOK BY DEF IInv
<1>1. ASSUME NEW s \in Sessions, NEW ok \in BOOLEAN, Apply(s, ok) PROVE Backed'
  <2> DEFINE x == Plan[s].device
  <2>0. x \in Devices BY DeviceFacts
  <2>1. CASE config' = config BY <2>1 DEF Backed, Whole
  <2>2. CASE config' = [config EXCEPT ![x] = Updated(x, Written(s))]
    <3>1. config'[x] = Updated(x, Nodes(s)) /\ \A d \in Devices : d # x => config'[d] = config[d]
      BY <1>0, <2>0, <2>2 DEF TypeOK, Written
    <3>2. \A n \in Nodes(s) : \A p \in n.refers : \E m \in Nodes(s) : m.path = p
      <4>1. ASSUME NEW a, NEW b
            PROVE  \A n \in {[path |-> a, of |-> s, refers |-> {}],
                             [path |-> b, of |-> s, refers |-> {a}]} :
                     \A p \in n.refers :
                       \E m \in {[path |-> a, of |-> s, refers |-> {}],
                                 [path |-> b, of |-> s, refers |-> {a}]} : m.path = p
        BY SMT
      <4>2. CASE Plan[s].kind = "bandwidth" BY <4>1, <4>2 DEF Nodes
      <4>3. CASE Plan[s].kind # "bandwidth"
        <5>1. Nodes(s) = {[path |-> Path("destination", s), of |-> s, refers |-> {}],
                          [path |-> Path("tunnel", s), of |-> s,
                           refers |-> {Path("destination", s)}]}
          BY <4>3 DEF Nodes
        <5>2. QED BY <4>1, <5>1
      <4>4. QED BY <4>2, <4>3
    <3>3. \A m \in config[x] : \E q \in Updated(x, Nodes(s)) : q.path = m.path
      BY DEF Updated
    <3>4. \A n \in Updated(x, Nodes(s)) : n \in Nodes(s) \/ n \in config[x]
      BY DEF Updated
    <3>5. Nodes(s) \subseteq Updated(x, Nodes(s)) BY DEF Updated
    <3>6. ASSUME NEW n \in config'[x], NEW p \in n.refers
          PROVE  \E m \in config'[x] : m.path = p
      <4>1. CASE n \in Nodes(s) BY <3>1, <3>2, <3>5, <4>1
      <4>2. CASE n \in config[x]
        <5>1. PICK m \in config[x] : m.path = p BY <2>0, <4>2 DEF Backed, Whole
        <5>2. QED BY <3>1, <3>3, <5>1
      <4>3. QED BY <3>1, <3>4, <4>1, <4>2
    <3>7. QED BY <3>1, <3>6 DEF Backed, Whole
  <2>3. QED BY <1>1, <2>1, <2>2 DEF Apply
<1>2. ASSUME NEW c \in Callers, job[c] # NoJob, Deleted(c),
             ~Refused(Targets[job[c].at], job[c].deletes)
      PROVE  Backed'
  <2> DEFINE x == Targets[job[c].at]
  <2>1. /\ x \in Devices /\ config'[x] = {n \in config[x] : n.path \notin job[c].deletes}
        /\ \A d \in Devices : d # x => config'[d] = config[d]
    BY <1>0, <1>2, JobFacts, DeletedFacts
  <2>2. ASSUME NEW n \in config'[x], NEW p \in n.refers
        PROVE  \E m \in config'[x] : m.path = p
    <3>1. n \in config[x] /\ n.path \notin job[c].deletes BY <2>1
    <3>2. p \notin job[c].deletes BY <1>2, <3>1 DEF Refused
    <3>3. PICK m \in config[x] : m.path = p BY <2>1, <3>1 DEF Backed, Whole
    <3>4. QED BY <2>1, <3>2, <3>3
  <2>3. QED BY <2>1, <2>2 DEF Backed, Whole
<1>3. ASSUME config' = config PROVE Backed' BY <1>3 DEF Backed, Whole
<1>4. ASSUME NEW c \in Callers, TeardownStep(c) PROVE Backed'
  <2>1. CASE ReadAttachments(c) \/ ReadTemplates(c) \/ ReadTunnels(c)
    BY <1>3, <2>1 DEF ReadAttachments, ReadTemplates, ReadTunnels, Reads
  <2>2. CASE Finish(c) BY <1>2, <2>2, FinishFacts
  <2>3. CASE Fail(c) BY <1>2, <1>3, <2>3 DEF Fail, Deleted
  <2>4. QED BY <1>4, <2>1, <2>2, <2>3 DEF TeardownStep
<1>5. ASSUME NEW c \in Callers, NEW s \in Sessions, Start(c, s) PROVE Backed'
  BY <1>3, <1>5 DEF Start
<1>6. CASE UNCHANGED vars BY <1>3, <1>6 DEF vars
<1>7. QED BY <1>1, <1>4, <1>5, <1>6 DEF Next

\* An apply adds its session, or changes nothing that the port shows.
LEMMA ApplyMaps ==
  ASSUME IInv, Backed, NEW s \in Sessions, NEW ok \in BOOLEAN, Apply(s, ok)
  PROVE  \/ Configured' = Configured
         \/ /\ Configured' = Configured \cup {s}
            /\ again' = again \cup Ending(s) \cup {c \in Callers : <<c, s>> \in told}
<1> DEFINE x == Plan[s].device
<1>0. TypeOK /\ x \in Devices BY DeviceFacts DEF IInv
<1>1. CASE config' = config BY <1>1 DEF Configured
<1>2. CASE config' = [config EXCEPT ![x] = Updated(x, Written(s))]
  <2>1. config'[x] = Updated(x, Nodes(s)) /\ \A d \in Devices : d # x => config'[d] = config[d]
    BY <1>0, <1>2 DEF TypeOK, Written
  <2>2. \A n \in Nodes(s) : n.of = s BY NodeFacts
  <2>3. s \in Configured'
    <3>1. \E n \in Nodes(s) : TRUE BY DEF Nodes
    <3>2. Nodes(s) \subseteq config'[x] BY <2>1 DEF Updated
    <3>3. QED BY <1>0, <2>2, <3>1, <3>2 DEF Configured
  <2>4. Configured' \subseteq Configured \cup {s}
    BY <2>1, <2>2 DEF Configured, Updated
  <2>5. ASSUME NEW t \in Configured, t # s PROVE t \in Configured'
    <3>0. PICK d \in Devices : \E n \in config[d] : n.of = t BY <2>5 DEF Configured
    <3>1. PICK n \in config[d] : n.of = t BY <3>0
    <3>2. config[d] \in SUBSET Node /\ Whole(config[d]) BY <1>0 DEF TypeOK, Backed
    <3>3. PICK m \in config[d] : m.of = t /\ m.path = Root(t) BY <3>1, <3>2, Anchor
    <3>4. ASSUME NEW q \in Nodes(s), q.path = m.path PROVE FALSE
      <4>1. q.path[1] # "attachment" /\ q.path[2] = t BY <3>3, <3>4 DEF Root, Path
      <4>2. q.path = Path(q.path[1], s) BY <4>1, NodeFacts
      <4>3. QED BY <2>5, <4>1, <4>2 DEF Path
    <3>5. m \in config'[d] BY <2>1, <3>4 DEF Updated
    <3>6. QED BY <2>5, <3>3, <3>5 DEF Configured
  <2>6. Configured' = Configured \cup {s} BY <2>3, <2>4, <2>5
  <2>7. config' = config => Configured' = Configured BY DEF Configured
  <2>8. QED BY <2>6, <2>7 DEF Apply
<1>3. QED BY <1>1, <1>2 DEF Apply

\* A Set of deletes takes its session away, or nothing the port shows.
LEMMA DeleteMaps ==
  ASSUME IInv, Backed, NEW c \in Callers, job[c] # NoJob, Deleted(c)
  PROVE  Configured' = Configured \/ Configured' = Configured \ {job[c].sid}
<1>0. TypeOK BY DEF IInv
<1>1. Configured' \subseteq Configured
  <2>1. \A d \in Devices : config'[d] \subseteq config[d] BY <1>0, DeletedFacts
  <2>2. QED BY <2>1 DEF Configured
<1>2. ASSUME NEW t \in Configured, t # job[c].sid PROVE t \in Configured'
  <2>0. PICK d \in Devices : \E n \in config[d] : n.of = t BY <1>2 DEF Configured
  <2>1. PICK n \in config[d] : n.of = t BY <2>0
  <2>2. config[d] \in SUBSET Node /\ Whole(config[d]) BY <1>0 DEF TypeOK, Backed
  <2>3. PICK m \in config[d] : m.of = t /\ m.path = Root(t) BY <2>1, <2>2, Anchor
  <2>4. m.path[1] # "attachment" /\ m.path[2] = t BY <2>3 DEF Root, Path
  <2>5. m.path \notin job[c].deletes
    <3>1. SUFFICES ASSUME m.path \in job[c].deletes PROVE FALSE OBVIOUS
    <3>2. m.path = Path(m.path[1], job[c].sid) BY <2>4, <3>1, DeletesFacts
    <3>3. QED BY <1>2, <2>4, <3>2 DEF Path
  <2>6. m \in config'[d] BY <1>0, <2>5, DeletedFacts
  <2>7. QED BY <1>2, <2>3, <2>6 DEF Configured
<1>3. QED BY <1>1, <1>2

-----------------------------------------------------------------------------
(* A thread may answer ok: its session had no config at some moment. *)

\* What a thread knows of its session having been gone: it is noted at once;
\* only an apply brings it back; and the thread has been at the session's
\* device, or has read there and not found the node all others need.
ClearFacts(c) ==
  /\ job[c].sid \notin Configured => c \in clear
  /\ c \in clear => c \in again \/ job[c].sid \notin Configured
  /\ \A i \in DOMAIN Targets :
       i < job[c].at /\ Targets[i] = Plan[job[c].sid].device => c \in clear
  /\ /\ Targets[job[c].at] = Plan[job[c].sid].device
     /\ Root(job[c].sid)[1] \in HasRead(job[c].phase)
     /\ Root(job[c].sid) \notin job[c].deletes
     => c \in clear

ClearInv == /\ \A c \in clear : job[c] # NoJob
            /\ \A c \in Callers : job[c] # NoJob => ClearFacts(c)

PortInv == IInv /\ Backed /\ ClearInv /\ OkMeansGone

\* Where no node of the session is found, it has no config.
LEMMA NoRoot ==
  ASSUME NEW nodes \in SUBSET Node, Whole(nodes), NEW s \in Sessions,
         \A n \in nodes : n.path # Root(s)
  PROVE  \A n \in nodes : n.of # s
BY Anchor

\* What the threads that did not move know stays true.
LEMMA ClearSurvives ==
  ASSUME PortInv, Noted, NEW c \in Callers, job[c] # NoJob, job'[c] # NoJob,
         job'[c].sid = job[c].sid, c \in again => c \in again',
         job[c].sid \in Configured' \ Configured => c \in again',
         \A i \in DOMAIN Targets :
            i < job'[c].at /\ Targets[i] = Plan[job[c].sid].device => c \in clear',
         /\ Targets[job'[c].at] = Plan[job[c].sid].device
         /\ Root(job[c].sid)[1] \in HasRead(job'[c].phase)
         /\ Root(job[c].sid) \notin job'[c].deletes
         => c \in clear'
  PROVE  ClearFacts(c)'
<1>1. c \in clear' <=> c \in clear \/ job[c].sid \notin Configured' BY DEF Noted
<1>2. ClearFacts(c) BY DEF PortInv, ClearInv
<1>3. c \in clear' => c \in again' \/ job[c].sid \notin Configured' BY <1>1, <1>2 DEF ClearFacts
<1>4. QED BY <1>1, <1>3 DEF ClearFacts

LEMMA ClearStays ==
  ASSUME PortInv, Noted, NEW c \in Callers, job[c] # NoJob, job'[c] = job[c],
         c \in again => c \in again', job[c].sid \in Configured' \ Configured => c \in again'
  PROVE  ClearFacts(c)'
<1>1. c \in clear => c \in clear' BY DEF Noted
<1>2. ClearFacts(c) BY DEF PortInv, ClearInv
<1>3. QED BY <1>1, <1>2, ClearSurvives DEF ClearFacts

LEMMA ReadClear ==
  ASSUME PortInv, Noted, NEW c \in Callers, NEW from, NEW to, NEW kinds,
         Reads(c, from, to, kinds),
         \/ from = "attachments" /\ to = "templates" /\ kinds = {"attachment"}
         \/ from = "templates" /\ to = "tunnels" /\ kinds = {"template"}
         \/ from = "tunnels" /\ to = "set" /\ kinds = {"tunnel", "destination"}
  PROVE  ClearFacts(c)'
<1>0. IInv /\ TypeOK /\ Backed BY DEF PortInv, IInv
<1>1. /\ job[c] # NoJob /\ job'[c] # NoJob
      /\ job'[c].phase = to /\ job'[c].sid = job[c].sid /\ job'[c].at = job[c].at
      /\ job'[c].deletes = job[c].deletes \cup Found(c, kinds)
  <2>1. from \in {"attachments", "templates", "tunnels"} /\ to \in {"templates", "tunnels", "set"}
    OBVIOUS
  <2>2. Reads(c, from, to, kinds) OBVIOUS
  <2>3. QED BY ONLY <1>0, <2>1, <2>2, ReadStep
<1>2. UNCHANGED <<config, again>> /\ job[c].phase = from BY DEF Reads
<1>3. Configured' = Configured BY <1>2 DEF Configured
<1>4. ClearFacts(c) /\ (c \in clear => c \in clear') BY <1>1 DEF PortInv, ClearInv, Noted
<1>5. HasRead(to) = HasRead(from) \cup kinds BY DEF HasRead
<1> DEFINE s == job[c].sid
           d == Targets[job[c].at]
<1>6. s \in Sessions /\ d \in Devices BY <1>0, <1>1, JobFacts
<1>7. ASSUME d = Plan[s].device, Root(s)[1] \in HasRead(to),
             Root(s) \notin job[c].deletes \cup Found(c, kinds)
      PROVE  c \in clear
  <2>1. CASE Root(s)[1] \in HasRead(from) BY <1>2, <1>4, <1>7, <2>1 DEF ClearFacts
  <2>2. CASE Root(s)[1] \in kinds
    <3>1. ASSUME NEW n \in config[d], n.of = s PROVE FALSE
      <4>1. config[d] \in SUBSET Node /\ Whole(config[d]) BY <1>0, <1>6 DEF TypeOK, Backed
      <4>2. PICK m \in config[d] : m.of = s /\ m.path = Root(s) BY <3>1, <4>1, Anchor
      <4>3. m.path \in Found(c, kinds) BY <2>2, <4>2 DEF Found, Read
      <4>4. QED BY <1>7, <4>2, <4>3
    <3>2. s \notin Configured BY <1>0, <1>7, <3>1 DEF Configured, IInv, Planned
    <3>3. QED BY <1>4, <3>2 DEF ClearFacts
  <2>3. QED BY <1>5, <1>7, <2>1, <2>2
<1>8. QED BY <1>1, <1>2, <1>3, <1>4, <1>7, ClearSurvives DEF ClearFacts

\* At the end of the session's device, the thread knows.
LEMMA DeviceDone ==
  ASSUME PortInv, Backed', TypeOK', NEW c \in Callers, Finish(c),
         Targets[job[c].at] = Plan[job[c].sid].device
  PROVE  c \in clear \/ job[c].sid \notin Configured'
<1>0. IInv /\ TypeOK BY DEF PortInv, IInv
<1>1. job[c] # NoJob /\ job[c].phase = "set" /\ Deleted(c) BY <1>0, FinishFacts
<1> DEFINE s == job[c].sid
           d == Targets[job[c].at]
<1>2. s \in Sessions /\ d \in Devices BY <1>0, <1>1, JobFacts
<1>3. Root(s)[1] \in HasRead("set") BY DEF HasRead, Root, Path
<1>4. CASE Root(s) \notin job[c].deletes
  BY <1>1, <1>3, <1>4 DEF PortInv, ClearInv, ClearFacts
<1>5. CASE Root(s) \in job[c].deletes
  <2>1. \A n \in config'[d] : n.path # Root(s) BY <1>0, <1>1, <1>5, DeletedFacts
  <2>2. config'[d] \in SUBSET Node /\ Whole(config'[d])
    BY <1>2 DEF TypeOK, Backed, Whole
  <2>3. \A n \in config'[d] : n.of # s BY <1>2, <2>1, <2>2, NoRoot
  <2>4. \A x \in Devices : \A n \in config'[x] : n \in config[x]
    BY <1>0, <1>1, DeletedFacts
  <2>5. \A x \in Devices : \A n \in config'[x] : n.of = s => x = d
    BY <1>0, <2>4 DEF IInv, Planned
  <2>6. QED BY <2>3, <2>5 DEF Configured
<1>6. QED BY <1>4, <1>5

\* A thread that answers ok may do so.
LEMMA AllDone ==
  ASSUME PortInv, Backed', TypeOK', NEW c \in Callers, Finish(c), job[c].at = Len(Targets)
  PROVE  c \in clear \/ job[c].sid \notin Configured'
<1>0. IInv /\ TypeOK BY DEF PortInv, IInv
<1>1. job[c] # NoJob /\ Deleted(c) BY <1>0, FinishFacts
<1>2. ClearFacts(c) BY <1>1 DEF PortInv, ClearInv
<1> DEFINE s == job[c].sid
<1>3. CASE s \notin Configured BY <1>2, <1>3 DEF ClearFacts
<1>4. CASE s \in Configured
  <2>1. PICK d \in Devices : \E n \in config[d] : n.of = s BY <1>4 DEF Configured
  <2>2. d = Plan[s].device /\ Known(d) BY <1>0, <2>1 DEF IInv, Planned
  <2>3. PICK i \in DOMAIN Targets : Targets[i] = d BY <2>2 DEF Known
  <2>4. i < job[c].at \/ i = job[c].at BY <2>3, DeviceFacts
  <2>5. CASE i < job[c].at BY <1>2, <2>2, <2>3, <2>5 DEF ClearFacts
  <2>6. CASE i = job[c].at BY <2>2, <2>3, <2>6, DeviceDone
  <2>7. QED BY <2>4, <2>5, <2>6
<1>5. QED BY <1>3, <1>4

LEMMA ClearOthers ==
  ASSUME PortInv, Noted, NEW c \in Callers,
         \A x \in Callers : x # c =>
           /\ job'[x] = job[x]
           /\ x \in again => x \in again'
           /\ job[x] # NoJob /\ job[x].sid \in Configured' \ Configured => x \in again',
         job'[c] # NoJob => ClearFacts(c)'
  PROVE  ClearInv'
<1>1. \A x \in clear' : job'[x] # NoJob BY DEF Noted
<1>2. \A x \in Callers : x # c /\ job'[x] # NoJob => ClearFacts(x)' BY ClearStays
<1>3. QED BY <1>1, <1>2 DEF ClearInv

\* Who was told ok stays right: nothing comes back without an apply.
LEMMA ToldStays ==
  ASSUME PortInv,
         \A p \in told' :
           \/ /\ p \in told
              /\ p[1] \in again => p[1] \in again'
              /\ p[2] \in Configured' \ Configured => p[1] \in again'
           \/ p[1] \in again' \/ p[2] \notin Configured'
  PROVE  OkMeansGone'
BY DEF PortInv, OkMeansGone

LEMMA ApplyPort ==
  ASSUME PortInv, Noted, NEW s \in Sessions, NEW ok \in BOOLEAN, Apply(s, ok)
  PROVE  ClearInv' /\ OkMeansGone'
<1>0. IInv /\ TypeOK /\ Backed BY DEF PortInv, IInv
<1>1. job' = job /\ told' = told /\ again \subseteq again' BY DEF Apply
<1>2. \/ Configured' = Configured
      \/ /\ Configured' = Configured \cup {s}
         /\ again' = again \cup Ending(s) \cup {c \in Callers : <<c, s>> \in told}
  BY <1>0, ApplyMaps
<1>3. \A c \in Callers : job[c] # NoJob /\ job[c].sid \in Configured' \ Configured => c \in again'
  BY <1>2 DEF Ending
<1>4. \A c \in Callers : job'[c] # NoJob => ClearFacts(c)' BY <1>1, <1>3, ClearStays
<1>5. ClearInv' BY <1>4 DEF ClearInv, Noted
<1>6. ASSUME NEW p \in told, p[2] \in Configured' \ Configured PROVE p[1] \in again'
  <2>1. p[1] \in Callers /\ p = <<p[1], p[2]>> BY <1>0 DEF TypeOK
  <2>2. p[2] = s BY <1>2, <1>6
  <2>3. QED BY <1>2, <1>6, <2>1, <2>2
<1>7. OkMeansGone' BY <1>1, <1>6, ToldStays
<1>8. QED BY <1>5, <1>7

LEMMA StartPort ==
  ASSUME PortInv, Noted, NEW c \in Callers, NEW s \in Sessions, Start(c, s)
  PROVE  ClearInv' /\ OkMeansGone'
<1>0. TypeOK BY DEF PortInv, IInv
<1> DEFINE j == [phase |-> "attachments", sid |-> s, at |-> 1, deletes |-> {}]
<1>1. /\ job[c] = NoJob /\ job' = [job EXCEPT ![c] = j] /\ config' = config
      /\ told' = {p \in told : p[1] # c} /\ again' = again \ {c}
  BY DEF Start
<1>2. /\ j.sid = s /\ j.at = 1 /\ j.phase = "attachments" /\ j # NoJob
  BY NewJob, DeviceFacts
<1> HIDE DEF j
<1>3. job'[c] = j /\ \A x \in Callers : x # c => job'[x] = job[x] BY <1>0, <1>1 DEF TypeOK
<1>4. Configured' = Configured BY <1>1 DEF Configured
<1>5. ClearFacts(c)'
  <2>1. c \notin clear BY <1>1 DEF PortInv, ClearInv
  <2>2. c \in clear' <=> s \notin Configured' BY <1>2, <1>3, <2>1 DEF Noted
  <2>3. HasRead("attachments") = {} BY DEF HasRead
  <2>4. \A i \in DOMAIN Targets : ~(i < 1) BY DeviceFacts
  <2>5. QED BY <1>2, <1>3, <2>2, <2>3, <2>4 DEF ClearFacts
<1>6. ClearInv' BY <1>1, <1>3, <1>4, <1>5, ClearOthers
<1>7. OkMeansGone' BY <1>1, <1>4, ToldStays
<1>8. QED BY <1>6, <1>7

LEMMA ReadPort ==
  ASSUME PortInv, Noted, NEW c \in Callers, NEW from, NEW to, NEW kinds,
         Reads(c, from, to, kinds),
         \/ from = "attachments" /\ to = "templates" /\ kinds = {"attachment"}
         \/ from = "templates" /\ to = "tunnels" /\ kinds = {"template"}
         \/ from = "tunnels" /\ to = "set" /\ kinds = {"tunnel", "destination"}
  PROVE  /\ ClearInv' /\ OkMeansGone' /\ UNCHANGED <<config, told>>
         /\ job[c] # NoJob /\ job'[c] # NoJob /\ job'[c].sid = job[c].sid
         /\ \A x \in Callers : x # c => job'[x] = job[x]
<1>0. TypeOK BY DEF PortInv, IInv
<1>1. /\ job[c] # NoJob /\ job'[c] # NoJob /\ job'[c].sid = job[c].sid
      /\ \A x \in Callers : x # c => job'[x] = job[x]
  <2>1. from \in {"attachments", "templates", "tunnels"} /\ to \in {"templates", "tunnels", "set"}
    OBVIOUS
  <2>2. Reads(c, from, to, kinds) OBVIOUS
  <2>3. QED BY ONLY <1>0, <2>1, <2>2, ReadStep
<1>2. UNCHANGED <<config, told, again>> BY DEF Reads
<1>3. Configured' = Configured BY <1>2 DEF Configured
<1>4. ClearInv' BY <1>1, <1>2, <1>3, ReadClear, ClearOthers
<1>5. OkMeansGone' BY <1>2, <1>3, ToldStays
<1>6. QED BY <1>1, <1>2, <1>4, <1>5

LEMMA FailPort ==
  ASSUME PortInv, Noted, NEW c \in Callers, Fail(c)
  PROVE  /\ ClearInv' /\ OkMeansGone' /\ told' = told
         /\ job[c] # NoJob /\ job'[c] = NoJob
         /\ \A x \in Callers : x # c => job'[x] = job[x]
         /\ Configured' = Configured \/ Configured' = Configured \ {job[c].sid}
<1>0. IInv /\ TypeOK /\ Backed BY DEF PortInv, IInv
<1>1. /\ job[c] # NoJob /\ job' = [job EXCEPT ![c] = NoJob]
      /\ UNCHANGED <<told, again>> /\ (config' = config \/ Deleted(c))
  BY DEF Fail, Deleted
<1>2. job'[c] = NoJob /\ \A x \in Callers : x # c => job'[x] = job[x]
  BY <1>0, <1>1 DEF TypeOK
<1>3. Configured' = Configured \/ Configured' = Configured \ {job[c].sid}
  <2>1. CASE config' = config BY <2>1 DEF Configured
  <2>2. CASE Deleted(c) BY <1>0, <1>1, <2>2, DeleteMaps
  <2>3. QED BY <1>1, <2>1, <2>2
<1>4. ClearInv' BY <1>1, <1>2, <1>3, ClearOthers
<1>5. OkMeansGone' BY <1>1, <1>3, ToldStays
<1>6. QED BY <1>1, <1>2, <1>3, <1>4, <1>5

LEMMA FinishPort ==
  ASSUME PortInv, Noted, TypeOK', Backed', NEW c \in Callers, Finish(c)
  PROVE  /\ ClearInv' /\ OkMeansGone'
         /\ job[c] # NoJob /\ \A x \in Callers : x # c => job'[x] = job[x]
         /\ Configured' = Configured \/ Configured' = Configured \ {job[c].sid}
         /\ \/ job'[c] # NoJob /\ job'[c].sid = job[c].sid /\ told' = told
            \/ /\ job'[c] = NoJob /\ told' = told \cup {<<c, job[c].sid>>}
               /\ c \in clear \/ job[c].sid \notin Configured'
<1>0. IInv /\ TypeOK /\ Backed BY DEF PortInv, IInv
<1>1. job[c] # NoJob /\ Deleted(c) /\ GoOn(c) /\ UNCHANGED <<live, again>>
  BY <1>0, FinishFacts
<1>2. /\ \A x \in Callers : x # c => job'[x] = job[x]
      /\ \/ /\ job'[c] = [phase |-> "attachments", sid |-> job[c].sid,
                          at |-> job[c].at + 1, deletes |-> {}]
            /\ job'[c] # NoJob /\ told' = told
         \/ /\ job[c].at = Len(Targets) /\ job'[c] = NoJob
            /\ told' = told \cup {<<c, job[c].sid>>}
  BY ONLY <1>0, <1>1, GoOnStep
<1>3. Configured' = Configured \/ Configured' = Configured \ {job[c].sid}
  BY <1>0, <1>1, DeleteMaps
<1>4. ClearFacts(c) BY <1>1 DEF PortInv, ClearInv
<1>5. CASE /\ job'[c] = [phase |-> "attachments", sid |-> job[c].sid,
                         at |-> job[c].at + 1, deletes |-> {}]
           /\ job'[c] # NoJob /\ told' = told
  <2>1. /\ job'[c].sid = job[c].sid /\ job'[c].at = job[c].at + 1
        /\ job'[c].phase = "attachments"
    BY <1>5
  <2>2. c \in clear' <=> c \in clear \/ job[c].sid \notin Configured' BY <1>5, <2>1 DEF Noted
  <2>3. ASSUME NEW i \in DOMAIN Targets, i < job[c].at + 1,
               Targets[i] = Plan[job[c].sid].device
        PROVE  c \in clear'
    <3>1. i < job[c].at \/ i = job[c].at BY <1>0, <1>1, <2>3, JobFacts, DeviceFacts
    <3>2. CASE i < job[c].at BY <1>4, <2>2, <2>3, <3>2 DEF ClearFacts
    <3>3. CASE i = job[c].at BY <2>2, <2>3, <3>3, DeviceDone
    <3>4. QED BY <3>1, <3>2, <3>3
  <2>4. HasRead("attachments") = {} BY DEF HasRead
  <2>5. ClearFacts(c)' BY <1>1, <1>3, <1>5, <2>1, <2>3, <2>4, ClearSurvives
  <2>6. ClearInv' BY <1>1, <1>2, <1>3, <2>5, ClearOthers
  <2>7. OkMeansGone' BY <1>1, <1>3, <1>5, ToldStays
  <2>8. QED BY <1>1, <1>2, <1>3, <1>5, <2>1, <2>6, <2>7
<1>6. CASE /\ job[c].at = Len(Targets) /\ job'[c] = NoJob
           /\ told' = told \cup {<<c, job[c].sid>>}
  <2>1. c \in clear \/ job[c].sid \notin Configured' BY <1>6, AllDone
  <2>2. ClearInv' BY <1>1, <1>2, <1>3, <1>6, ClearOthers
  <2>3. c \in again' \/ job[c].sid \notin Configured' BY <1>1, <1>3, <1>4, <2>1 DEF ClearFacts
  <2>4. OkMeansGone'
    <3>1. \A p \in told' : p \in told \/ (p[1] = c /\ p[2] = job[c].sid) BY <1>6
    <3>2. QED BY <1>1, <1>3, <2>3, <3>1, ToldStays
  <2>5. QED BY <1>1, <1>2, <1>3, <1>6, <2>1, <2>2, <2>4
<1>7. QED BY <1>2, <1>5, <1>6

LEMMA PortInvStep ==
  ASSUME PortInv, [Next]_vars PROVE PortInv'
<1>0. IInv /\ Backed BY DEF PortInv
<1>1. IInv' /\ Backed' /\ TypeOK' BY <1>0, IInvStep, BackedStep DEF IInv
<1>2. CASE UNCHANGED vars
  <2>1. ClearInv' /\ OkMeansGone'
    BY <1>2 DEF vars, PortInv, ClearInv, ClearFacts, OkMeansGone, Configured
  <2>2. QED BY <1>1, <2>1 DEF PortInv
<1>3. CASE Next
  <2>0. Noted BY <1>3 DEF Next
  <2>1. ASSUME NEW c \in Callers, TeardownStep(c) PROVE ClearInv' /\ OkMeansGone'
    <3>1. CASE ReadAttachments(c) BY <2>0, <3>1, ReadPort DEF ReadAttachments
    <3>2. CASE ReadTemplates(c) BY <2>0, <3>2, ReadPort DEF ReadTemplates
    <3>3. CASE ReadTunnels(c) BY <2>0, <3>3, ReadPort DEF ReadTunnels
    <3>4. CASE Finish(c) BY <1>1, <2>0, <3>4, FinishPort
    <3>5. CASE Fail(c) BY <2>0, <3>5, FailPort
    <3>6. QED BY <2>1, <3>1, <3>2, <3>3, <3>4, <3>5 DEF TeardownStep
  <2>2. ClearInv' /\ OkMeansGone' BY <1>3, <2>0, <2>1, ApplyPort, StartPort DEF Next
  <2>3. QED BY <1>1, <2>2 DEF PortInv
<1>4. QED BY <1>2, <1>3

LEMMA PortInvInit == Init => PortInv
<1>1. Init => Backed /\ ClearInv /\ OkMeansGone
  BY DEF Init, Backed, Whole, ClearInv, OkMeansGone
<1>2. QED BY <1>1, IInvInit DEF PortInv

\* What teardown reports gone is gone, on every device, for any number of
\* sessions, devices and threads, and any failures, until the name is applied
\* again.
THEOREM GoneIsGone == Spec => []OkMeansGone
BY PortInvInit, PortInvStep, PTL DEF Spec, PortInv

-----------------------------------------------------------------------------
(* The adapter implements NetPort. *)

\* The calls at work, as the port has them.
Calls == [c \in Callers |-> IF job[c] = NoJob THEN NoJob ELSE job[c].sid]

LEMMA CallFacts ==
  ASSUME TypeOK
  PROVE  \A c \in Callers : /\ Calls[c] # NoJob <=> job[c] # NoJob
                            /\ job[c] # NoJob => Calls[c] = job[c].sid
<1>1. \A c \in Callers : job[c] # NoJob => job[c].sid \in Sessions BY JobFacts
<1>2. QED BY <1>1, SessionsAssumption DEF Calls

\* One thread moves.
LEMMA CallMoves ==
  ASSUME NEW c \in Callers, NEW s, \A x \in Callers : x # c => job'[x] = job[x],
         s = (IF job'[c] = NoJob THEN NoJob ELSE job'[c].sid)
  PROVE  Calls' = [Calls EXCEPT ![c] = s]
BY DEF Calls

LEMMA NotedMaps ==
  ASSUME TypeOK', Noted PROVE Port!Noted
<1>1. \A c \in Callers : job'[c] # NoJob => job'[c].sid \in Sessions
  <2>1. \A c \in Callers : job'[c] \in Job \cup {NoJob} BY DEF TypeOK
  <2>2. QED BY <2>1 DEF Job
<1>2. \A c \in Callers : /\ Calls'[c] # NoJob <=> job'[c] # NoJob
                         /\ job'[c] # NoJob => Calls'[c] = job'[c].sid
  BY <1>1, SessionsAssumption DEF Calls
<1>3. clear' = {c \in Callers : Calls'[c] # NoJob /\ (c \in clear \/ Calls'[c] \notin Configured')}
  BY <1>2 DEF Noted
<1>4. QED BY <1>3 DEF Port!Noted, Calls

LEMMA PortStep ==
  ASSUME PortInv, [Next]_vars PROVE [Port!PortNext]_(Port!portVars)
<1>0. IInv /\ TypeOK /\ Backed BY DEF PortInv, IInv
<1>1. TypeOK' /\ Backed' BY <1>0, IInvStep, BackedStep DEF IInv
<1>2. CASE UNCHANGED vars
  BY <1>2 DEF vars, Port!portVars, Configured
<1>3. CASE Next
  <2>0. Noted /\ Port!Noted BY <1>1, <1>3, NotedMaps DEF Next
  <2>1. ASSUME NEW s \in Sessions, NEW ok \in BOOLEAN, Apply(s, ok)
        PROVE  [Port!PortNext]_(Port!portVars)
    <3>1. job' = job /\ told' = told BY <2>1 DEF Apply
    <3>2. Calls' = Calls BY <3>1 DEF Calls
    <3>3. CASE Configured' = Configured \cup {s}
      <4>1. Port!Apply(s) BY <3>1, <3>2, <3>3 DEF Port!Apply, Calls
      <4>2. QED BY <2>0, <4>1 DEF Port!PortNext
    <3>4. CASE Configured' = Configured
      <4>1. clear' = clear
        <5>1. \A c \in Callers : c \in clear <=> c \in clear' BY <3>1, <3>4, <2>0
                DEF Noted, PortInv, ClearInv, ClearFacts
        <5>2. clear \subseteq Callers /\ clear' \subseteq Callers BY <1>0, <1>1 DEF TypeOK
        <5>3. QED BY <5>1, <5>2
      <4>2. QED BY <3>1, <3>2, <3>4, <4>1 DEF Port!portVars, Calls
    <3>5. QED BY <1>0, <2>1, <3>3, <3>4, ApplyMaps
  <2>2. ASSUME NEW c \in Callers, NEW s \in Sessions, Start(c, s)
        PROVE  [Port!PortNext]_(Port!portVars)
    <3> DEFINE j == [phase |-> "attachments", sid |-> s, at |-> 1, deletes |-> {}]
    <3>1. /\ job[c] = NoJob /\ job' = [job EXCEPT ![c] = j] /\ config' = config
          /\ told' = {p \in told : p[1] # c}
      BY <2>2 DEF Start
    <3>2. j.sid = s /\ j # NoJob BY NewJob, DeviceFacts
    <3> HIDE DEF j
    <3>3. job'[c] = j /\ \A x \in Callers : x # c => job'[x] = job[x]
      BY <1>0, <3>1 DEF TypeOK
    <3>4. Calls' = [Calls EXCEPT ![c] = s] BY <3>2, <3>3, CallMoves
    <3>5. Calls[c] = NoJob BY <3>1 DEF Calls
    <3>6. Configured' = Configured BY <3>1 DEF Configured
    <3>7. Port!Begin(c, s) BY <3>1, <3>4, <3>5, <3>6 DEF Port!Begin, Calls
    <3>8. QED BY <2>0, <3>7 DEF Port!PortNext
  <2>3. ASSUME NEW c \in Callers, UNCHANGED <<config, told>>, job[c] # NoJob, job'[c] # NoJob,
               job'[c].sid = job[c].sid, \A x \in Callers : x # c => job'[x] = job[x]
        PROVE  [Port!PortNext]_(Port!portVars)
    <3>1. Calls' = Calls BY <2>3 DEF Calls
    <3>2. Configured' = Configured BY <2>3 DEF Configured
    <3>3. clear' = clear
      <4>1. \A x \in Callers : (job'[x] # NoJob <=> job[x] # NoJob)
                               /\ (job[x] # NoJob => job'[x].sid = job[x].sid)
        BY <2>3
      <4>2. \A x \in Callers : x \in clear <=> x \in clear'
        BY <2>0, <3>2, <4>1 DEF Noted, PortInv, ClearInv, ClearFacts
      <4>3. clear \subseteq Callers /\ clear' \subseteq Callers BY <1>0, <1>1 DEF TypeOK
      <4>4. QED BY <4>2, <4>3
    <3>4. QED BY <2>3, <3>1, <3>2, <3>3 DEF Port!portVars, Calls
  <2>4. ASSUME NEW c \in Callers, Fail(c) PROVE [Port!PortNext]_(Port!portVars)
    <3>1. /\ told' = told /\ job[c] # NoJob /\ job'[c] = NoJob
          /\ \A x \in Callers : x # c => job'[x] = job[x]
          /\ Configured' = Configured \/ Configured' = Configured \ {job[c].sid}
      BY <2>0, <2>4, FailPort
    <3>2. Calls' = [Calls EXCEPT ![c] = NoJob] BY <3>1, CallMoves
    <3>3. Calls[c] # NoJob /\ Calls[c] = job[c].sid BY <1>0, <3>1, CallFacts
    <3>4. Port!Fail(c) BY <3>1, <3>2, <3>3 DEF Port!Fail, Calls
    <3>5. QED BY <2>0, <3>4 DEF Port!PortNext
  <2>5. ASSUME NEW c \in Callers, Finish(c) PROVE [Port!PortNext]_(Port!portVars)
    <3>1. /\ job[c] # NoJob /\ \A x \in Callers : x # c => job'[x] = job[x]
          /\ Configured' = Configured \/ Configured' = Configured \ {job[c].sid}
          /\ \/ job'[c] # NoJob /\ job'[c].sid = job[c].sid /\ told' = told
             \/ /\ job'[c] = NoJob /\ told' = told \cup {<<c, job[c].sid>>}
                /\ c \in clear \/ job[c].sid \notin Configured'
      BY <1>1, <2>0, <2>5, FinishPort
    <3>2. Calls[c] # NoJob /\ Calls[c] = job[c].sid BY <1>0, <3>1, CallFacts
    <3>3. CASE job'[c] # NoJob /\ job'[c].sid = job[c].sid /\ told' = told
      <4>1. Calls' = Calls BY <3>1, <3>3 DEF Calls
      <4>2. CASE Configured' = Configured \ {job[c].sid}
        <5>1. Port!Remove(c) BY <3>2, <3>3, <4>1, <4>2 DEF Port!Remove, Calls
        <5>2. QED BY <2>0, <5>1 DEF Port!PortNext
      <4>3. CASE Configured' = Configured
        <5>1. \A x \in Callers : (job'[x] # NoJob <=> job[x] # NoJob)
                                 /\ (job[x] # NoJob => job'[x].sid = job[x].sid)
          BY <3>1, <3>3
        <5>2. \A x \in Callers : x \in clear <=> x \in clear'
          BY <2>0, <4>3, <5>1 DEF Noted, PortInv, ClearInv, ClearFacts
        <5>3. clear \subseteq Callers /\ clear' \subseteq Callers BY <1>0, <1>1 DEF TypeOK
        <5>4. clear' = clear BY <5>2, <5>3
        <5>5. QED BY <3>3, <4>1, <4>3, <5>4 DEF Port!portVars, Calls
      <4>4. QED BY <3>1, <4>2, <4>3
    <3>4. CASE /\ job'[c] = NoJob /\ told' = told \cup {<<c, job[c].sid>>}
               /\ c \in clear \/ job[c].sid \notin Configured'
      <4>1. Calls' = [Calls EXCEPT ![c] = NoJob] BY <3>1, <3>4, CallMoves
      <4>2. \/ Configured' = Configured \ {job[c].sid}
            \/ c \in clear /\ Configured' = Configured
        BY <3>1, <3>4
      <4>3. Port!Succeed(c) BY <3>2, <3>4, <4>1, <4>2 DEF Port!Succeed, Calls
      <4>4. QED BY <2>0, <4>3 DEF Port!PortNext
    <3>5. QED BY <3>1, <3>3, <3>4
  <2>6. ASSUME NEW c \in Callers, TeardownStep(c) PROVE [Port!PortNext]_(Port!portVars)
    <3>1. CASE ReadAttachments(c) BY <2>0, <2>3, <3>1, ReadPort DEF ReadAttachments
    <3>2. CASE ReadTemplates(c) BY <2>0, <2>3, <3>2, ReadPort DEF ReadTemplates
    <3>3. CASE ReadTunnels(c) BY <2>0, <2>3, <3>3, ReadPort DEF ReadTunnels
    <3>4. QED BY <2>4, <2>5, <2>6, <3>1, <3>2, <3>3 DEF TeardownStep
  <2>7. QED BY <1>3, <2>1, <2>2, <2>6 DEF Next
<1>4. QED BY <1>2, <1>3

\* Whoever calls it, and whatever is applied meanwhile, under fresh names or
\* old ones: a teardown that answers ok had a moment since its call when nothing
\* of its session was left, and a session loses its config only to a teardown of
\* it.
THEOREM AdapterImplementsPort == Spec => ImplementsPort
<1>1. Init => Port!PortInit BY DEF Init, Port!PortInit, Configured
<1>2. PortInv /\ [Next]_vars => PortInv' /\ [Port!PortNext]_(Port!portVars)
  BY PortInvStep, PortStep
<1>3. QED BY PortInvInit, <1>1, <1>2, PTL DEF Spec, ImplementsPort, Port!PortSpec

-----------------------------------------------------------------------------
(* An export that is listed has its tunnel. *)

\* The address book has no destination that no tunnel dials.
Dialled ==
  \A d \in Devices : \A n \in config[d] :
    n.path[1] = "destination" => \E m \in config[d] : m.path = Path("tunnel", n.of)

\* What an apply writes, and what it overwrites.
LEMMA Wrote ==
  ASSUME TypeOK, NEW s \in Sessions, NEW ok \in BOOLEAN, Apply(s, ok)
  PROVE  \/ config' = config /\ ~ok
         \/ /\ Nodes(s) \subseteq config'[Plan[s].device]
            /\ \A n \in config'[Plan[s].device] : n \in Nodes(s) \/ n \in config[Plan[s].device]
            /\ \A n \in config[Plan[s].device] :
                 n \in config'[Plan[s].device] \/ \E q \in Nodes(s) : q.path = n.path
            /\ \A d \in Devices : d # Plan[s].device => config'[d] = config[d]
<1>1. Plan[s].device \in Devices BY DeviceFacts
<1>2. CASE config' = [config EXCEPT ![Plan[s].device] = Updated(Plan[s].device, Written(s))]
  <2>1. config'[Plan[s].device] = Updated(Plan[s].device, Nodes(s))
        /\ \A d \in Devices : d # Plan[s].device => config'[d] = config[d]
    BY <1>1, <1>2 DEF TypeOK, Written
  <2>2. QED BY <2>1 DEF Updated
<1>3. QED BY <1>2 DEF Apply

\* The list has no tunnel without its destination.
Paired(c) ==
  Path("tunnel", job[c].sid) \in job[c].deletes => Path("destination", job[c].sid) \in job[c].deletes

AllPaired == \A c \in Callers : job[c] # NoJob => Paired(c)

\* Where a tunnel is found, so is the destination it refers to.
LEMMA FoundPaired ==
  ASSUME IInv, Backed, NEW c \in Callers, job[c] # NoJob,
         NEW kinds, "tunnel" \in kinds => "destination" \in kinds,
         Path("tunnel", job[c].sid) \in Found(c, kinds)
  PROVE  Path("destination", job[c].sid) \in Found(c, kinds)
<1> DEFINE s == job[c].sid
           nodes == config[Targets[job[c].at]]
<1>1. nodes \in SUBSET Node /\ Whole(nodes) BY JobFacts DEF IInv, TypeOK, Backed
<1>2. PICK n \in nodes : n.of = s /\ n.path[1] \in kinds /\ n.path = Path("tunnel", s)
  BY DEF Found, Read
<1>3. n.path[1] = "tunnel" BY <1>2 DEF Path
<1>4. n.refers = {Path("destination", s)} BY <1>1, <1>2, <1>3, NodeOf, NodeFacts
<1>5. PICK m \in nodes : m.path = Path("destination", s) BY <1>1, <1>4 DEF Whole
<1>6. m.path[1] = "destination" /\ m.path[2] = s BY <1>5 DEF Path
<1>7. m.path = Path(m.path[1], m.of) BY <1>1, <1>6, NodeOf, NodeFacts
<1>8. m.of = s BY <1>6, <1>7 DEF Path
<1>9. QED BY <1>2, <1>3, <1>5, <1>6, <1>8 DEF Found, Read

LEMMA PairedStep ==
  ASSUME IInv, Backed, AllPaired, [Next]_vars PROVE AllPaired'
<1>0. TypeOK BY DEF IInv
<1>1. ASSUME NEW c \in Callers, \A x \in Callers : x # c => job'[x] = job[x],
             job'[c] # NoJob => Paired(c)'
      PROVE  AllPaired'
  <2>1. \A x \in Callers : job[x] # NoJob /\ job'[x] = job[x] => Paired(x)'
    BY DEF AllPaired, Paired
  <2>2. QED BY <1>1, <2>1 DEF AllPaired
<1>2. ASSUME job' = job PROVE AllPaired' BY <1>2 DEF AllPaired, Paired
<1>3. ASSUME NEW c \in Callers, NEW s \in Sessions, Start(c, s) PROVE AllPaired'
  <2> DEFINE j == [phase |-> "attachments", sid |-> s, at |-> 1, deletes |-> {}]
  <2>1. job' = [job EXCEPT ![c] = j] /\ j.deletes = {} BY <1>3 DEF Start
  <2> HIDE DEF j
  <2>2. job'[c] = j /\ \A x \in Callers : x # c => job'[x] = job[x]
    BY <1>0, <2>1 DEF TypeOK
  <2>3. Paired(c)' BY <2>1, <2>2 DEF Paired
  <2>4. QED BY <1>1, <2>2, <2>3
<1>4. ASSUME NEW c \in Callers, NEW from, NEW to, NEW kinds, Reads(c, from, to, kinds),
             from \in {"attachments", "templates", "tunnels"},
             to \in {"templates", "tunnels", "set"},
             "tunnel" \in kinds => "destination" \in kinds
      PROVE  AllPaired'
  <2>1. /\ job[c] # NoJob /\ job'[c].sid = job[c].sid
        /\ job'[c].deletes = job[c].deletes \cup Found(c, kinds)
        /\ \A x \in Callers : x # c => job'[x] = job[x]
    BY ONLY <1>0, <1>4, ReadStep
  <2>2. Paired(c)' BY <1>4, <2>1, FoundPaired DEF AllPaired, Paired
  <2>3. QED BY <1>1, <2>1, <2>2
<1>5. ASSUME NEW c \in Callers, TeardownStep(c) PROVE AllPaired'
  <2>1. CASE ReadAttachments(c) BY <1>4, <2>1 DEF ReadAttachments
  <2>2. CASE ReadTemplates(c) BY <1>4, <2>2 DEF ReadTemplates
  <2>3. CASE ReadTunnels(c) BY <1>4, <2>3 DEF ReadTunnels
  <2>4. CASE Finish(c)
    <3>1. job[c] # NoJob /\ GoOn(c) BY <2>4, FinishFacts
    <3>2. /\ \A x \in Callers : x # c => job'[x] = job[x]
          /\ \/ job'[c] = NoJob
             \/ job'[c] = [phase |-> "attachments", sid |-> job[c].sid,
                           at |-> job[c].at + 1, deletes |-> {}]
      BY ONLY <1>0, <3>1, GoOnStep
    <3>3. job'[c] = NoJob \/ job'[c].deletes = {} BY ONLY <3>2
    <3>4. job'[c] # NoJob => Paired(c)' BY <3>3 DEF Paired
    <3>5. QED BY <1>1, <3>2, <3>4
  <2>5. CASE Fail(c)
    <3>1. job' = [job EXCEPT ![c] = NoJob] BY <2>5 DEF Fail
    <3>2. job'[c] = NoJob /\ \A x \in Callers : x # c => job'[x] = job[x]
      BY <1>0, <3>1 DEF TypeOK
    <3>3. QED BY <1>1, <3>2
  <2>6. QED BY <1>5, <2>1, <2>2, <2>3, <2>4, <2>5 DEF TeardownStep
<1>6. ASSUME NEW s \in Sessions, NEW ok \in BOOLEAN, Apply(s, ok) PROVE AllPaired'
  BY <1>2, <1>6 DEF Apply
<1>7. CASE UNCHANGED vars BY <1>2, <1>7 DEF vars
<1>8. QED BY <1>3, <1>5, <1>6, <1>7 DEF Next

LEMMA DialledStep ==
  ASSUME IInv, Dialled, AllPaired, [Next]_vars PROVE Dialled'
<1>0. TypeOK BY DEF IInv
<1>1. ASSUME NEW s \in Sessions, NEW ok \in BOOLEAN, Apply(s, ok) PROVE Dialled'
  <2> DEFINE x == Plan[s].device
  <2>0. x \in Devices BY DeviceFacts
  <2>1. CASE config' = config BY <2>1 DEF Dialled
  <2>2. CASE config' # config
    <3>1. /\ Nodes(s) \subseteq config'[x]
          /\ \A n \in config'[x] : n \in Nodes(s) \/ n \in config[x]
          /\ \A n \in config[x] : n \in config'[x] \/ \E q \in Nodes(s) : q.path = n.path
          /\ \A d \in Devices : d # x => config'[d] = config[d]
      BY <1>0, <1>1, <2>2, Wrote
    <3>2. ASSUME NEW n \in config'[x], n.path[1] = "destination"
          PROVE  \E m \in config'[x] : m.path = Path("tunnel", n.of)
      <4>1. CASE n \in Nodes(s)
        <5>1. n.of = s BY <4>1, NodeFacts
        <5>2. Plan[s].kind # "bandwidth" BY <3>2, <4>1 DEF Nodes, Path
        <5>3. \E m \in Nodes(s) : m.path = Path("tunnel", s) BY <5>2 DEF Nodes
        <5>4. QED BY <3>1, <5>1, <5>3
      <4>2. CASE n \in config[x]
        <5>1. PICK m \in config[x] : m.path = Path("tunnel", n.of)
          BY <2>0, <3>2, <4>2 DEF Dialled
        <5>2. QED BY <3>1, <5>1
      <4>3. QED BY <3>1, <4>1, <4>2
    <3>3. QED BY <3>1, <3>2 DEF Dialled
  <2>3. QED BY <2>1, <2>2
<1>2. ASSUME NEW c \in Callers, job[c] # NoJob, Deleted(c) PROVE Dialled'
  <2>1. SUFFICES ASSUME NEW d \in Devices, NEW n \in config'[d], n.path[1] = "destination"
                 PROVE  \E m \in config'[d] : m.path = Path("tunnel", n.of)
    BY DEF Dialled
  <2>2. n \in config[d] /\ n \in Node BY <1>0, <1>2, DeletedFacts DEF TypeOK
  <2>3. PICK m \in config[d] : m.path = Path("tunnel", n.of) BY <2>1, <2>2 DEF Dialled
  <2>4. CASE d # Targets[job[c].at] BY <1>0, <1>2, <2>3, <2>4, DeletedFacts
  <2>5. CASE d = Targets[job[c].at]
    <3>1. n.path \notin job[c].deletes BY <1>0, <1>2, <2>5, DeletedFacts
    <3>2. n.path = Path("destination", n.of) BY <2>1, <2>2, NodeOf, NodeFacts
    <3>3. ASSUME m.path \in job[c].deletes PROVE FALSE
      <4>1. m.path[1] = "tunnel" /\ m.path[2] = n.of BY <2>3 DEF Path
      <4>2. m.path = Path("tunnel", job[c].sid) BY <1>2, <3>3, <4>1, DeletesFacts
      <4>3. job[c].sid = n.of BY <4>1, <4>2 DEF Path
      <4>4. QED BY <1>2, <3>1, <3>2, <3>3, <4>2, <4>3 DEF AllPaired, Paired
    <3>4. QED BY <1>0, <1>2, <2>3, <2>5, <3>3, DeletedFacts
  <2>6. QED BY <2>4, <2>5
<1>3. ASSUME config' = config PROVE Dialled' BY <1>3 DEF Dialled
<1>4. ASSUME NEW c \in Callers, TeardownStep(c) PROVE Dialled'
  <2>1. CASE ReadAttachments(c) \/ ReadTemplates(c) \/ ReadTunnels(c)
    BY <1>3, <2>1 DEF ReadAttachments, ReadTemplates, ReadTunnels, Reads
  <2>2. CASE Finish(c) BY <1>2, <2>2, FinishFacts
  <2>3. CASE Fail(c) BY <1>2, <1>3, <2>3 DEF Fail, Deleted
  <2>4. QED BY <1>4, <2>1, <2>2, <2>3 DEF TeardownStep
<1>5. ASSUME NEW c \in Callers, NEW s \in Sessions, Start(c, s) PROVE Dialled'
  BY <1>3, <1>5 DEF Start
<1>6. CASE UNCHANGED vars BY <1>3, <1>6 DEF vars
<1>7. QED BY <1>1, <1>4, <1>5, <1>6 DEF Next

\* Every export the readout lists is one the router dials, whatever teardowns fail
\* or cross each other and the applies of their sessions.
THEOREM ExportsAreDialled == Spec => []ExportsAreReal
<1>1. Init => Dialled /\ AllPaired BY DEF Init, Dialled, AllPaired
<1>2. Dialled => ExportsAreReal BY DEF Dialled, ExportsAreReal, TelemetryConfig
<1>3. PortInv /\ Dialled /\ AllPaired /\ [Next]_vars => PortInv' /\ Dialled' /\ AllPaired'
  BY PortInvStep, DialledStep, PairedStep DEF PortInv
<1>4. QED BY PortInvInit, <1>1, <1>2, <1>3, PTL DEF Spec

-----------------------------------------------------------------------------
(* A live session keeps its config. *)

\* A session whose teardown is at work is not live.
NotLive == \A c \in Callers : job[c] # NoJob => job[c].sid \notin live

LEMMA NotLiveStep ==
  ASSUME IInv, NotLive, [Next]_vars PROVE NotLive'
<1>0. TypeOK BY DEF IInv
<1>1. ASSUME live' \subseteq live,
             \A x \in Callers : job'[x] # NoJob =>
               job'[x] = job[x] \/ (job[x] # NoJob /\ job'[x].sid = job[x].sid)
      PROVE  NotLive'
  BY <1>1 DEF NotLive
<1>2. ASSUME NEW s \in Sessions, NEW ok \in BOOLEAN, Apply(s, ok) PROVE NotLive'
  <2>1. job' = job /\ live' \subseteq live \cup {s} /\ (s \in live' => s \in live \/ Ending(s) = {})
    BY <1>2 DEF Apply
  <2>2. QED BY <2>1 DEF NotLive, Ending
<1>3. ASSUME NEW c \in Callers, NEW s \in Sessions, Start(c, s) PROVE NotLive'
  <2>1. PICK j : j = [phase |-> "attachments", sid |-> s, at |-> 1, deletes |-> {}]
    OBVIOUS
  <2>2. job' = [job EXCEPT ![c] = j] /\ live' = live \ {s} /\ j.sid = s
    BY <1>3, <2>1 DEF Start
  <2>3. QED BY <1>0, <2>2 DEF NotLive, TypeOK
<1>4. ASSUME NEW c \in Callers, NEW from, NEW to, NEW kinds, Reads(c, from, to, kinds),
             from \in {"attachments", "templates", "tunnels"},
             to \in {"templates", "tunnels", "set"}
      PROVE  NotLive'
  <2>1. /\ job[c] # NoJob /\ job'[c].sid = job[c].sid
        /\ \A x \in Callers : x # c => job'[x] = job[x]
    BY ONLY <1>0, <1>4, ReadStep
  <2>2. live' = live BY <1>4 DEF Reads
  <2>3. QED BY <1>1, <2>1, <2>2
<1>5. ASSUME NEW c \in Callers, TeardownStep(c) PROVE NotLive'
  <2>1. CASE ReadAttachments(c) BY <1>4, <2>1 DEF ReadAttachments
  <2>2. CASE ReadTemplates(c) BY <1>4, <2>2 DEF ReadTemplates
  <2>3. CASE ReadTunnels(c) BY <1>4, <2>3 DEF ReadTunnels
  <2>4. CASE Finish(c)
    <3>1. job[c] # NoJob /\ GoOn(c) /\ live' = live BY <2>4, FinishFacts
    <3>2. /\ \A x \in Callers : x # c => job'[x] = job[x]
          /\ \/ job'[c] = NoJob
             \/ job'[c] = [phase |-> "attachments", sid |-> job[c].sid,
                           at |-> job[c].at + 1, deletes |-> {}]
      BY ONLY <1>0, <3>1, GoOnStep
    <3>3. job'[c] = NoJob \/ job'[c].sid = job[c].sid BY ONLY <3>2
    <3>4. QED BY <1>1, <3>1, <3>2, <3>3
  <2>5. CASE Fail(c)
    <3>1. live' = live /\ job' = [job EXCEPT ![c] = NoJob] BY <2>5 DEF Fail
    <3>2. QED BY <1>0, <1>1, <3>1 DEF TypeOK
  <2>6. QED BY <1>5, <2>1, <2>2, <2>3, <2>4, <2>5 DEF TeardownStep
<1>6. CASE UNCHANGED vars BY <1>6 DEF vars, NotLive
<1>7. QED BY <1>2, <1>3, <1>5, <1>6 DEF Next

\* Two nodes at one path on one device are one session's, or two sessions share
\* an interface.
LEMMA SamePath ==
  ASSUME NEW s \in Sessions, NEW t \in Sessions, s # t, Alone(t),
         Plan[s].device = Plan[t].device,
         NEW q \in Nodes(s), NEW n \in Nodes(t)
  PROVE  q.path # n.path
<1>1. SUFFICES ASSUME q.path = n.path PROVE FALSE OBVIOUS
<1>2. CASE n.path[1] = "attachment"
  <2>1. /\ n.path = Path("attachment", Plan[t].ingress_if) /\ Plan[t].kind = "bandwidth"
        /\ q.path = Path("attachment", Plan[s].ingress_if) /\ Plan[s].kind = "bandwidth"
    BY <1>1, <1>2, NodeFacts
  <2>2. Plan[s].ingress_if = Plan[t].ingress_if BY <1>1, <2>1 DEF Path
  <2>3. QED BY <2>1, <2>2 DEF Alone
<1>3. CASE n.path[1] # "attachment"
  <2>1. n.path = Path(n.path[1], t) /\ q.path = Path(q.path[1], s)
    BY <1>1, <1>3, NodeFacts
  <2>2. QED BY <1>1, <2>1 DEF Path
<1>4. QED BY <1>2, <1>3

LEMMA ShapedStep ==
  ASSUME IInv, NotLive, LiveIsShaped, [Next]_vars PROVE LiveIsShaped'
<1>0. TypeOK BY DEF IInv
<1>1. ASSUME NEW s \in Sessions, NEW ok \in BOOLEAN, Apply(s, ok) PROVE LiveIsShaped'
  <2> DEFINE x == Plan[s].device
  <2>1. SUFFICES ASSUME NEW t \in live', Alone(t)
                 PROVE  Nodes(t) \subseteq config'[Plan[t].device]
    BY DEF LiveIsShaped, Alone
  <2>2. live' = live \/ (ok /\ live' = live \cup {s}) BY <1>1 DEF Apply
  <2>3. CASE config' = config /\ ~ok BY <2>1, <2>2, <2>3 DEF LiveIsShaped
  <2>4. CASE ~(config' = config /\ ~ok)
    <3>1. /\ Nodes(s) \subseteq config'[x]
          /\ \A n \in config[x] : n \in config'[x] \/ \E q \in Nodes(s) : q.path = n.path
          /\ \A d \in Devices : d # x => config'[d] = config[d]
      BY <1>0, <1>1, <2>4, Wrote
    <3>2. CASE t = s BY <3>1, <3>2
    <3>3. CASE t # s
      <4>1. t \in live /\ t \in Sessions /\ Plan[t].device \in Devices
        BY <1>0, <2>1, <2>2, <3>3, DeviceFacts DEF TypeOK
      <4>2. Nodes(t) \subseteq config[Plan[t].device] BY <2>1, <4>1 DEF LiveIsShaped
      <4>3. CASE Plan[t].device # x BY <3>1, <4>1, <4>2, <4>3
      <4>4. CASE Plan[t].device = x
        BY <2>1, <3>1, <3>3, <4>1, <4>2, <4>4, SamePath
      <4>5. QED BY <4>3, <4>4
    <3>4. QED BY <3>2, <3>3
  <2>5. QED BY <2>3, <2>4
<1>2. ASSUME NEW c \in Callers, job[c] # NoJob, Deleted(c), live' = live
      PROVE  LiveIsShaped'
  <2>1. SUFFICES ASSUME NEW t \in live, Alone(t), NEW n \in Nodes(t)
                 PROVE  n \in config'[Plan[t].device]
    BY <1>2 DEF LiveIsShaped, Alone
  <2>2. /\ t \in Sessions /\ Plan[t].device \in Devices /\ n.of = t
        /\ n \in config[Plan[t].device] /\ job[c].sid # t
    BY <1>0, <1>2, <2>1, DeviceFacts, NodeFacts DEF TypeOK, NotLive, LiveIsShaped
  <2>3. SUFFICES ASSUME n \notin config'[Plan[t].device] PROVE FALSE OBVIOUS
  <2>4. QED BY <1>2, <2>1, <2>2, <2>3, DeletedOwn
<1>3. ASSUME config' = config, live' \subseteq live PROVE LiveIsShaped'
  BY <1>3 DEF LiveIsShaped, Alone
<1>4. ASSUME NEW c \in Callers, TeardownStep(c) PROVE LiveIsShaped'
  <2>1. CASE ReadAttachments(c) \/ ReadTemplates(c) \/ ReadTunnels(c)
    BY <1>3, <2>1 DEF ReadAttachments, ReadTemplates, ReadTunnels, Reads
  <2>2. CASE Finish(c) BY <1>2, <2>2, FinishFacts
  <2>3. CASE Fail(c) BY <1>2, <1>3, <2>3 DEF Fail, Deleted
  <2>4. QED BY <1>4, <2>1, <2>2, <2>3 DEF TeardownStep
<1>5. ASSUME NEW c \in Callers, NEW s \in Sessions, Start(c, s) PROVE LiveIsShaped'
  BY <1>3, <1>5 DEF Start
<1>6. CASE UNCHANGED vars BY <1>3, <1>6 DEF vars
<1>7. QED BY <1>1, <1>4, <1>5, <1>6 DEF Next

\* The config of a session that was applied and that nobody has asked to tear down
\* is all there, unless another session uses its interface.
THEOREM LiveKeepsItsShape == Spec => []LiveIsShaped
<1>1. Init => NotLive /\ LiveIsShaped BY DEF Init, NotLive, LiveIsShaped
<1>2. IInv /\ NotLive /\ LiveIsShaped /\ [Next]_vars
        => IInv' /\ NotLive' /\ LiveIsShaped'
  BY IInvStep, NotLiveStep, ShapedStep
<1>3. QED BY IInvInit, <1>1, <1>2, PTL DEF Spec
=============================================================================

------------------------------- MODULE Health -------------------------------
(***************************************************************************)
(* Liveness of instances on one node: the background checker               *)
(* (internal/health/health.go), the on-demand /check handler               *)
(* (internal/server/server.go) and the heartbeats of the instances'        *)
(* clients, all writing the status of the same stored instances.           *)
(*                                                                         *)
(* A tick of the checker first lists all instances and then works on those *)
(* copies: evalHeartbeat and evalProbe decide on the copy, SetStatus       *)
(* writes the stored record.  The /check handler likewise reads, probes    *)
(* and then writes.  Heartbeats and registrations come in between.         *)
(*                                                                         *)
(* Time is kept as ages, capped where the code can no longer tell them     *)
(* apart: of the last heartbeat (Expired compares it with the TTL) and of  *)
(* the last probe (dueForProbe compares it with the interval).  A          *)
(* registration gives its own TTL; with 0 the instance never expires, and  *)
(* outside heartbeat mode the TTL is not looked at (it is 0 here).  The    *)
(* report that SetLastCheck stores for the UI is left out: nothing reads   *)
(* it.                                                                     *)
(***************************************************************************)
EXTENDS Integers

CONSTANTS Inst,      \* instances ("service/id")
          Mode,      \* check modes in use: a subset of CheckMode
          Status,    \* statuses; Validate does not restrict them
          Sends,     \* statuses that clients send in heartbeats and PUTs
          OnDemand,  \* do operators use the /check endpoint?
          TTL,       \* the longest TTLSeconds, in ticks of the model's clock
          Lives,     \* the TTLs that clients register with, 0 among them
          Interval,  \* CheckIntervalSec, in the same unit
          Absent

\* http and tcp are both "probe": every interface is dialled, all must answer.
CheckMode == {"heartbeat", "probe", "none"}

ASSUME HealthAssumption ==
    /\ Mode \subseteq CheckMode
    /\ {"up", "down"} \subseteq Status
    /\ Sends \subseteq Status \union {""}
    /\ OnDemand \in BOOLEAN
    /\ TTL \in Nat /\ Lives \subseteq 0..TTL
    /\ Interval \in Nat \ {0}

VARIABLES inst,    \* stored instances
          alive,   \* is the process up (does it heartbeat and answer probes)?
          job,     \* per instance: the checker's work on its copy
          check,   \* per instance: an on-demand check under way
          probed,  \* age of lastProbed
          chosen,  \* history: the status its client last asked for
          late     \* history: was it ever silent for longer than its TTL (as
                   \* seen by a reader of its record), or gone or out of reach?

healthVars == <<inst, alive, job, check, probed, chosen, late>>

Instance == [mode : CheckMode, status : Status, ttl : 0..TTL, age : 0..TTL + 1]

\* A reader's copy of an instance, and the verdict it reached.
Copy == [stage : {"listed", "verdict"}, of : Instance, ok : BOOLEAN]

HealthTypeOK == /\ inst \in [Inst -> Instance \union {Absent}]
                /\ alive \in [Inst -> BOOLEAN]
                /\ job \in [Inst -> Copy \union {Absent}]
                /\ check \in [Inst -> Copy \union {Absent}]
                /\ probed \in [Inst -> 0..Interval]
                /\ chosen \in [Inst -> Status]
                /\ late \in [Inst -> BOOLEAN]

HealthInit == /\ inst = [i \in Inst |-> Absent]
              /\ alive = [i \in Inst |-> TRUE]
              /\ job = [i \in Inst |-> Absent]
              /\ check = [i \in Inst |-> Absent]
              /\ probed = [i \in Inst |-> Interval]
              /\ chosen = [i \in Inst |-> "up"]
              /\ late = [i \in Inst |-> FALSE]

\* Has this heartbeat instance not been heard of within the TTL it asked for?
Silent(rec) == rec.mode = "heartbeat" /\ rec.ttl \in 1..rec.age - 1

Older(age, cap) == IF age < cap THEN age + 1 ELSE age

\* The age is looked at in heartbeat mode only.
Aged(rec) ==
    IF rec.mode = "heartbeat" THEN [rec EXCEPT !.age = Older(@, rec.ttl + 1)] ELSE rec

\* Time passes.  The copy that /check has read gets older too: CheckInstance
\* reads the clock itself, a tick has read it before it lists.
Pass ==
    LET held(i) == check[i] # Absent /\ check[i].stage = "listed"
    IN  /\ inst' = [i \in Inst |-> IF inst[i] = Absent THEN Absent ELSE Aged(inst[i])]
        /\ check' = [i \in Inst |-> IF held(i) THEN [check[i] EXCEPT !.of = Aged(@)]
                                    ELSE check[i]]
        /\ probed' = [i \in Inst |-> Older(probed[i], Interval)]
        /\ late' = [i \in Inst |-> \/ late[i]
                                   \/ inst[i] # Absent /\ Silent(inst'[i])
                                   \/ held(i) /\ Silent(check'[i].of)]
        /\ UNCHANGED <<alive, job, chosen>>

-----------------------------------------------------------------------------
(* The instance's client and its process.                                  *)

Die(i) == /\ alive[i]
          /\ alive' = [alive EXCEPT ![i] = FALSE]
          /\ late' = [late EXCEPT ![i] = TRUE]
          /\ UNCHANGED <<inst, job, check, probed, chosen>>

Restart(i) == /\ ~alive[i]
              /\ alive' = [alive EXCEPT ![i] = TRUE]
              /\ UNCHANGED <<inst, job, check, probed, chosen, late>>

Register(i, mode, ttl, status) ==
    LET st == IF status = "" THEN "up" ELSE status
    IN  /\ alive[i]
        /\ inst' = [inst EXCEPT ![i] = [mode |-> mode, status |-> st,
                        ttl |-> IF mode = "heartbeat" THEN ttl ELSE 0, age |-> 0]]
        /\ chosen' = [chosen EXCEPT ![i] = st]
        /\ UNCHANGED <<alive, job, check, probed, late>>

Deregister(i) == /\ inst[i] # Absent
                 /\ inst' = [inst EXCEPT ![i] = Absent]
                 /\ UNCHANGED <<alive, job, check, probed, chosen, late>>

\* Mutant of Lifted: "" keeps any stored status, "down" included.
LiftedNever(stored, sent) == IF sent # "" THEN sent ELSE stored

\* What a heartbeat makes of the stored status.
Lifted(stored, sent) == IF sent # "" THEN sent
                        ELSE IF stored = "down" THEN "up" ELSE stored

Heartbeat(i, sent) ==
    /\ alive[i]
    /\ inst[i] # Absent
    /\ inst' = [inst EXCEPT ![i].status = Lifted(@, sent), ![i].age = 0]
    /\ chosen' = IF sent = "" THEN chosen ELSE [chosen EXCEPT ![i] = sent]
    /\ UNCHANGED <<alive, job, check, probed, late>>

-----------------------------------------------------------------------------
(* Verdicts.                                                               *)

\* Mutant of Expired: a TTL of 0 is taken for a very short one.
ExpiredAtOnce(copy) == copy.age > copy.ttl

Expired(copy) == copy.ttl > 0 /\ copy.age > copy.ttl

\* CheckInstance: what a check of this copy reports now.
Passes(i, copy) == CASE copy.mode = "heartbeat" -> ~Expired(copy)
                     [] copy.mode = "probe"     -> alive[i]
                     [] copy.mode = "none"      -> TRUE

Desired(ok) == IF ok THEN "up" ELSE "down"

\* The effect of Store.SetStatus; ErrNotFound is ignored by all callers.
SetStatus(i, status) ==
    inst' = IF inst[i] = Absent THEN inst
            ELSE [inst EXCEPT ![i].status = status]

-----------------------------------------------------------------------------
(* The background checker.                                                 *)

TickOver == \A i \in Inst : job[i] = Absent

\* tick: ListAllInstances, and dueForProbe for the ones that are probed.
\* The next tick waits until all work of this one is done.
Tick ==
    LET due(i)   == probed[i] >= Interval
        takes(i) == /\ inst[i] # Absent
                    /\ \/ inst[i].mode = "heartbeat"
                       \/ inst[i].mode = "probe" /\ due(i)
    IN  /\ TickOver
        /\ \E i \in Inst : takes(i)
        /\ job' = [i \in Inst |->
                     IF takes(i) THEN [stage |-> "listed", of |-> inst[i], ok |-> TRUE]
                     ELSE Absent]
        /\ probed' = [i \in Inst |-> IF takes(i) /\ inst[i].mode = "probe"
                                     THEN 0 ELSE probed[i]]
        /\ UNCHANGED <<inst, alive, check, chosen, late>>

\* evalHeartbeat: only the expiry and the status of the copy count.
EvalHeartbeat(i) ==
    /\ job[i] # Absent
    /\ job[i].of.mode = "heartbeat"
    /\ IF Expired(job[i].of) /\ job[i].of.status # "down"
       THEN SetStatus(i, "down") ELSE UNCHANGED inst
    /\ job' = [job EXCEPT ![i] = Absent]
    /\ UNCHANGED <<alive, check, probed, chosen, late>>

\* evalProbe first probes ...
Probe(i) ==
    /\ job[i] # Absent
    /\ job[i].of.mode = "probe" /\ job[i].stage = "listed"
    /\ job' = [job EXCEPT ![i].stage = "verdict", ![i].ok = Passes(i, job[i].of)]
    /\ UNCHANGED <<inst, alive, check, probed, chosen, late>>

\* Mutant of Write: a failed probe leaves the status alone.
WriteUpOnly(i, copy, ok) == ok /\ copy.status # "up"

\* Mutant of Write: a passed probe leaves the status alone.
WriteDownOnly(i, copy, ok) == ~ok /\ copy.status # "down"

\* Does evalProbe write the status?  Not if the copy already had it.
Write(i, copy, ok) == copy.status # Desired(ok)

\* ... and then writes.
EvalProbe(i) ==
    /\ job[i] # Absent
    /\ job[i].stage = "verdict"
    /\ IF Write(i, job[i].of, job[i].ok) THEN SetStatus(i, Desired(job[i].ok))
       ELSE UNCHANGED inst
    /\ job' = [job EXCEPT ![i] = Absent]
    /\ UNCHANGED <<alive, check, probed, chosen, late>>

-----------------------------------------------------------------------------
(* POST /check: read, probe, write whatever came out.                      *)

CheckRead(i) ==
    /\ OnDemand
    /\ check[i] = Absent
    /\ inst[i] # Absent
    /\ check' = [check EXCEPT ![i] = [stage |-> "listed", of |-> inst[i], ok |-> TRUE]]
    /\ UNCHANGED <<inst, alive, job, probed, chosen, late>>

CheckProbe(i) ==
    /\ check[i] # Absent
    /\ check[i].stage = "listed"
    /\ check' = [check EXCEPT ![i].stage = "verdict",
                              ![i].ok = Passes(i, check[i].of)]
    /\ UNCHANGED <<inst, alive, job, probed, chosen, late>>

CheckWrite(i) ==
    /\ check[i] # Absent
    /\ check[i].stage = "verdict"
    /\ SetStatus(i, Desired(check[i].ok))
    /\ check' = [check EXCEPT ![i] = Absent]
    /\ UNCHANGED <<alive, job, probed, chosen, late>>

Work(i) == EvalHeartbeat(i) \/ Probe(i) \/ EvalProbe(i)

HealthNext == \/ Pass
              \/ Tick
              \/ \E i \in Inst :
                   \/ Die(i) \/ Restart(i)
                   \/ \E mode \in Mode, ttl \in Lives, status \in Sends :
                         Register(i, mode, ttl, status)
                   \/ Deregister(i)
                   \/ \E sent \in Sends : Heartbeat(i, sent)
                   \/ Work(i)
                   \/ CheckRead(i) \/ CheckProbe(i) \/ CheckWrite(i)

HealthSpec == HealthInit /\ [][HealthNext]_healthVars

HasMode(i, mode) == inst[i] # Absent /\ inst[i].mode = mode

\* Time passes, the ticker fires and its goroutines finish (every probe has
\* a timeout); a live instance in heartbeat mode keeps sending plain
\* heartbeats.  A probed one may send them too, but need not.
Fairness == /\ WF_healthVars(Pass)
            /\ WF_healthVars(Tick)
            /\ \A i \in Inst :
                  /\ WF_healthVars(Work(i))
                  /\ WF_healthVars(HasMode(i, "heartbeat") /\ Heartbeat(i, ""))

HealthFairSpec == HealthSpec /\ Fairness

-----------------------------------------------------------------------------
(* No instance is called down that does not deserve it: if its client did  *)
(* not ask for it, it was silent for longer than its TTL, or its process   *)
(* was gone, at some time.  Verdicts are taken on copies (health.go:78-126,*)
(* 177-198; server.go:741-788) and written over later registrations; none  *)
(* may be taken from nothing, and a TTL of 0 is never exceeded.            *)
DownIsDeserved ==
    \A i \in Inst :
        inst[i] # Absent /\ inst[i].status = "down" /\ chosen[i] # "down" => late[i]

(* An instance whose process is gone for good is eventually down and stays *)
(* down: by TTL expiry or by failed probes, whatever stale verdicts are    *)
(* still being written.  Nobody watches an instance without check mode, or *)
(* one in heartbeat mode that registered with a TTL of 0.                  *)
DeadGoesDown ==
    \A i \in Inst :
        <>[](~alive[i]) =>
           <>[](\/ inst[i] = Absent
                \/ inst[i].mode = "none"
                \/ inst[i].mode = "heartbeat" /\ inst[i].ttl = 0
                \/ inst[i].status = "down")

(* An instance that keeps heartbeating, and whose client never asked for   *)
(* anything but "up", comes back up after every down verdict: the          *)
(* heartbeat lifts it.                                                     *)
AliveComesBack ==
    \A i \in Inst :
        <>[](alive[i] /\ HasMode(i, "heartbeat") /\ chosen[i] = "up") =>
           []<>(inst[i] # Absent /\ inst[i].status = "up")

(* A probed instance that answers is eventually up for good.               *)
ProbedComesUp ==
    \A i \in Inst :
        <>[](alive[i] /\ HasMode(i, "probe") /\ chosen[i] = "up") =>
           <>[](inst[i] # Absent /\ inst[i].status = "up")
=============================================================================

-------------------------------- MODULE TestBed --------------------------------
(***************************************************************************)
(* The test beds of @marblejs/testing over their servers: useTestBed, which   *)
(* starts a server and registers the bed, and cleanup, which cleans the        *)
(* dependencies of every registered bed and closes its server.                *)
(*                                                                          *)
(* Each server is that of one bed. What is not a test bed (scenario.beds is     *)
(* FALSE) calls listen and close as it likes, within the bounds.               *)
(***************************************************************************)
EXTENDS HttpServer

CONSTANTS Cleanups      \* calls of cleanup

VARIABLES bed,          \* "absent", "creating" or "ready"
          instances,    \* the beds that are registered
          cleanup       \* [on: its beds, after: those resolved before it, state, at: the step
                        \*  of each bed, closer: the number of its call of close]

bedVars == <<bed, instances, cleanup>>
vars == <<httpVars, bedVars>>

Init ==
    /\ HttpInit
    /\ bed = [s \in Servers |-> "absent"]
    /\ instances = <<>>
    /\ cleanup = [k \in Cleanups |->
                    [on |-> {}, after |-> {}, state |-> "idle",
                     at |-> <<>>, closer |-> <<>>]]

------------------------------------------------------------------------------
(* Any owner of a server. *)

Own(s) ==
    /\ ~scenario.beds
    /\ \/ Listen(s)
       \/ Len(closers[s]) < scenario.closes /\ Close(s)
    /\ UNCHANGED <<scenario, calls, bedVars>>

Socket(s) ==
    /\ Bound(s) \/ BindFails(s) \/ Drained(s)
    /\ UNCHANGED <<scenario, calls, bedVars>>

Client(c) ==
    /\ Send(c) \/ Work(c) \/ Misread(c)
    /\ UNCHANGED bedVars

------------------------------------------------------------------------------
(* Test beds. *)

\* createHttpTestBed, up to its await of listen.
UseTestBed(s) ==
    /\ scenario.beds /\ bed[s] = "absent"
    /\ bed' = [bed EXCEPT ![s] = "creating"]
    /\ Listen(s)
    /\ UNCHANGED <<scenario, calls, instances, cleanup>>

Register(s) ==
    /\ bed[s] = "creating" /\ Started(s)
    /\ bed' = [bed EXCEPT ![s] = "ready"]
    /\ instances' = Append(instances, s)
    /\ UNCHANGED <<httpVars, cleanup>>

Running(k) == cleanup[k].state = "running"

\* cleanup builds its tasks first, and that already calls the cleanup functions of the
\* dependencies: one that throws ends it with nothing closed.
CleanUp(k) ==
    /\ scenario.beds /\ cleanup[k].state = "idle"
    /\ Range(instances) # {}
    /\ \E throws \in BOOLEAN :
          /\ throws => scenario.throws
          /\ cleanup' = [cleanup EXCEPT ![k] =
              [on |-> Range(instances),
               after |-> {j \in Cleanups : cleanup[j].state = "resolved"},
               state |-> IF throws THEN "threw" ELSE "running",
               at |-> [s \in Range(instances) |-> IF throws THEN "none" ELSE "dependencies"],
               closer |-> [s \in Range(instances) |-> 0]]]
    /\ UNCHANGED <<httpVars, bed, instances>>

At(k, s, step) == s \in cleanup[k].on /\ cleanup[k].at[s] = step

\* A promise of a dependency's cleanup rejects, and with it the whole cleanup; the
\* other beds go on.
DependencyFails(k, s) ==
    /\ At(k, s, "dependencies") /\ scenario.fails
    /\ cleanup' = [cleanup EXCEPT ![k].at[s] = "failed", ![k].state = "rejected"]
    /\ UNCHANGED <<httpVars, bed, instances>>

\* All dependencies of a bed are cleaned up: finish.
Finish(k, s) ==
    /\ At(k, s, "dependencies")
    /\ Close(s)
    /\ cleanup' = [cleanup EXCEPT ![k].at[s] = "finishing",
                                  ![k].closer[s] = Len(closers[s]) + 1]
    /\ UNCHANGED <<scenario, calls, bed, instances>>

\* Mutant: a close that is refused is waited for.
Finished_Unrefused(k, s) ==
    /\ At(k, s, "finishing")
    /\ closers[s][cleanup[k].closer[s]] = "resolved"
    /\ cleanup' = [cleanup EXCEPT ![k].at[s] = "finished"]
    /\ UNCHANGED <<httpVars, bed, instances>>

Finished(k, s) ==
    /\ At(k, s, "finishing")
    /\ LET outcome == closers[s][cleanup[k].closer[s]]
       IN  \/ /\ outcome = "resolved"
              /\ cleanup' = [cleanup EXCEPT ![k].at[s] = "finished"]
           \/ /\ outcome = "rejected"
              /\ cleanup' = [cleanup EXCEPT ![k].at[s] = "failed", ![k].state = "rejected"]
    /\ UNCHANGED <<httpVars, bed, instances>>

\* Mutant: the list is not emptied.
CleanedUp_KeepsList(k) ==
    /\ Running(k)
    /\ \A s \in cleanup[k].on : cleanup[k].at[s] = "finished"
    /\ cleanup' = [cleanup EXCEPT ![k].state = "resolved"]
    /\ UNCHANGED <<httpVars, bed, instances>>

\* Everything is over: the list is replaced by an empty one.
CleanedUp(k) ==
    /\ Running(k)
    /\ \A s \in cleanup[k].on : cleanup[k].at[s] = "finished"
    /\ cleanup' = [cleanup EXCEPT ![k].state = "resolved"]
    /\ instances' = <<>>
    /\ UNCHANGED <<httpVars, bed>>

CleanupStep(k) ==
    \/ \E s \in cleanup[k].on : DependencyFails(k, s) \/ Finish(k, s) \/ Finished(k, s)
    \/ CleanedUp(k)

Next ==
    \/ \E s \in Servers : Own(s) \/ Socket(s) \/ UseTestBed(s) \/ Register(s)
    \/ \E c \in Calls : Client(c)
    \/ \E k \in Cleanups : CleanUp(k) \/ CleanupStep(k)

\* What goes on by itself: sockets settle and are drained, bodies arrive, effects
\* answer, responses are written and read, and promises settle. Every such step uses
\* something up, so that it is enough that some of them is taken while there is any.
Progress ==
    \/ \E s \in Servers : Socket(s) \/ Register(s)
    \/ \E c \in Calls : Work(c) /\ UNCHANGED bedVars
    \/ \E k \in Cleanups : CleanupStep(k)

Spec == Init /\ [][Next]_vars
FairSpec == Spec /\ WF_vars(Progress)

------------------------------------------------------------------------------
(* Properties. *)

Overlap(j, k) == j \notin cleanup[k].after /\ k \notin cleanup[j].after

\* A cleanup rejects only for a dependency of one of its beds, or for a bed that
\* another cleanup has also closed, without having succeeded before this one began.
CleanupFailsForReason ==
    \A k \in Cleanups : cleanup[k].state = "rejected" =>
        \E s \in cleanup[k].on :
            /\ cleanup[k].at[s] = "failed"
            /\ cleanup[k].closer[s] # 0 =>
                  \E j \in Cleanups \ {k} : s \in cleanup[j].on /\ Overlap(j, k)

\* Once every bed of a cleanup has come to its end, a server still listens only if
\* the cleanup threw or a dependency of its own bed failed; a cleanup that resolved
\* has closed them all and let every connection finish.
ClosedUnlessFailed ==
    \A k \in Cleanups : \A s \in cleanup[k].on :
        /\ cleanup[k].at[s] \in {"failed", "finished"} /\ handle[s] = "open" =>
              cleanup[k].at[s] = "failed" /\ cleanup[k].closer[s] = 0
        /\ cleanup[k].state = "resolved" =>
              /\ handle[s] = "none" /\ ~attached[s]
              /\ \A c \in Calls : To(c) = s => stage[c] \in {"idle", "settled"}

\* Beds are forgotten by a cleanup that resolves, and while they listen only if they
\* were registered while it ran.
ForgottenOnlyIfLate ==
    \A s \in Servers : bed[s] = "ready" /\ s \notin Range(instances) =>
        \E k \in Cleanups : /\ cleanup[k].state = "resolved"
                            /\ handle[s] = "open" => s \notin cleanup[k].on

\* Servers and test beds end as their owners asked. (http.server.ts,
\* testBedContainer.ts)
LifecycleSound ==
    /\ StreamsEndForReason
    /\ CloseIsLogged
    /\ CleanupFailsForReason
    /\ ClosedUnlessFailed
    /\ ForgottenOnlyIfLate

\* A body that no parser reads twice: a second one that finds none waits for ever.
ParsedOnce(c) ==
    Config(To(c)).parsers > 1 /\ Parseable(c) =>
        ParseBody(GetContentType(Call(c).headers), Requested(Call(c).headers, Call(c).body))
            \notin {Undefined, Null}

\* A request on a continuous route that another one has cancelled, or that ended it.
Abandoned(c) ==
    \E i \in DOMAIN runs[c] : runs[c][i].at \in {"cancelled", "unbound", "unheard"}

\* A call that is open although all effects answer once, or a cleanup that waits
\* although no connection does. A server that has listened again answers its first request.
Hangs ==
    \/ \E c \in Calls :
          /\ stage[c] = "open" /\ attached[To(c)]
          /\ Relistened(To(c)) => \A d \in Calls \ {c} : To(d) = To(c) => stage[d] = "idle"
          /\ ~Abandoned(c) /\ ParsedOnce(c) /\ \A d \in Calls : AnswersOnce(d)
    \/ /\ \E k \in Cleanups : Running(k)
       /\ \A c \in Calls : stage[c] \in {"idle", "settled"}

\* Nothing hangs for ever: a call is answered, and a cleanup ends after the calls.
NothingHangs == []<>~Hangs
==============================================================================

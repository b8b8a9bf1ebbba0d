----------------------------- MODULE Supervision ----------------------------
(***************************************************************************)
(* Who starts and stops runners: the command line (src/local/cli.ts), the  *)
(* watchdog (src/local/real/watchdog.ts) and the dashboard's server        *)
(* (src/local/dashboard/supervisor.ts).  They are separate processes that  *)
(* see one another only through the campaign's files, which they read one  *)
(* at a time.                                                              *)
(*                                                                         *)
(* A runner is here its lock, its status and its reaction to a stop        *)
(* request; what it does in between is LocalRunner.  The runner lock is    *)
(* exclusive and a dead owner's is reclaimed at once: that is RunnerLock.  *)
(***************************************************************************)
EXTENDS Naturals, FiniteSets

CONSTANTS
    None,
    Campaigns,     \* the campaigns below one state root
    Watched,       \* the campaign the watchdog is for
    Workers,       \* runner processes that can exist at the same time
    Requests,      \* dashboard requests handled at the same time
    MaxCommands,   \* bound: runs and resumes at the command line
    MaxWatchdogs,  \* bound: watchdogs started
    MaxRequests,   \* bound: starts and stops asked of the dashboard
    MaxFaults,     \* bound: runners that crash or block
    MaxTimeouts    \* bound: runners slower than the dashboard's five seconds

ASSUME SupervisionAssumption ==
    /\ Watched \in Campaigns
    /\ None \notin Campaigns \cup Workers \cup Requests
    /\ {MaxCommands, MaxWatchdogs, MaxRequests, MaxFaults, MaxTimeouts} \subseteq Nat

VARIABLES
    status,      \* runner-state.json: status, by campaign
    stop,        \* stop-request.json exists, by campaign
    runner,      \* the runner processes
    dog,         \* the watchdog process
    request,     \* the dashboard's requests
    launchLock,  \* the request that made .launch.lock, or None
    left         \* the bounds not used up yet

vars == <<status, stop, runner, dog, request, launchLock, left>>

Statuses == {"initialized", "running", "stopped", "blocked"}

NoRunner == [pc |-> "off", campaign |-> None, once |-> FALSE, resume |-> FALSE]
NoRequest == [pc |-> "none", kind |-> None, campaign |-> None, child |-> None]
Asleep == [pc |-> "off", status |-> None, live |-> None, stop |-> None,
           managed |-> None, observed |-> FALSE, reason |-> None]

Init ==
    /\ status = [c \in Campaigns |-> "initialized"]
    /\ stop = [c \in Campaigns |-> FALSE]
    /\ runner = [w \in Workers |-> NoRunner]
    /\ dog = Asleep
    /\ request = [r \in Requests |-> NoRequest]
    /\ launchLock = None
    /\ left = [commands |-> MaxCommands, watchdogs |-> MaxWatchdogs, requests |-> MaxRequests,
               faults |-> MaxFaults, timeouts |-> MaxTimeouts]

Spend(what) == left[what] > 0 /\ left' = [left EXCEPT ![what] = @ - 1]

---------------------------------------------------------------------------
(* Runner processes *)

HoldsLock(w) == runner[w].pc \in {"locked", "running", "ending"}
Live(c) == \E w \in Workers : HoldsLock(w) /\ runner[w].campaign = c

(* A child the watchdog still looks after keeps its name.                  *)
Free(w) == runner[w].pc = "off" /\ w # dog.managed /\ \A r \in Requests : request[r].child # w

Spawn(w, c, once, resume) ==
    /\ Free(w)
    /\ runner' = [runner EXCEPT ![w] =
          [pc |-> "starting", campaign |-> c, once |-> once, resume |-> resume]]

Becomes(w, there) == runner' = [runner EXCEPT ![w].pc = there]

(* A runner that finds the lock taken exits.                               *)
TakeLock(w) ==
    /\ runner[w].pc = "starting"
    /\ Becomes(w, IF Live(runner[w].campaign) THEN "off" ELSE "locked")
    /\ UNCHANGED <<status, stop, dog, request, launchLock, left>>

(* Only a resume discards a stop request.                                  *)
EnterCampaign(w) ==
    /\ runner[w].pc = "locked"
    /\ LET c == runner[w].campaign
       IN  IF runner[w].resume /\ stop[c]
           THEN stop' = [stop EXCEPT ![c] = FALSE] /\ UNCHANGED <<status, runner>>
           ELSE /\ status' = [status EXCEPT ![c] = "running"]
                /\ Becomes(w, "running")
                /\ UNCHANGED stop
    /\ UNCHANGED <<dog, request, launchLock, left>>

EndCampaign(w, outcome) ==
    /\ runner[w].pc = "running"
    /\ status' = [status EXCEPT ![runner[w].campaign] = outcome]
    /\ Becomes(w, "ending")
    /\ UNCHANGED <<stop, dog, request, launchLock>>

(* Fault: a boundary does not look for a stop request. *)
StopSeen_Never(w) == FALSE

StopSeen(w) == stop[runner[w].campaign]

StopOnRequest(w) ==
    runner[w].pc = "running" /\ StopSeen(w) /\ EndCampaign(w, "stopped") /\ UNCHANGED left
StopAfterOne(w) == runner[w].once /\ EndCampaign(w, "stopped") /\ UNCHANGED left
BlockCampaign(w) == EndCampaign(w, "blocked") /\ Spend("faults")

ReleaseLock(w) ==
    /\ runner[w].pc = "ending"
    /\ Becomes(w, "off")
    /\ UNCHANGED <<status, stop, dog, request, launchLock, left>>

Crash(w) ==
    /\ runner[w].pc # "off"
    /\ Spend("faults")
    /\ Becomes(w, "off")
    /\ UNCHANGED <<status, stop, dog, request, launchLock>>

RunnerSteps(w) ==
    TakeLock(w) \/ EnterCampaign(w) \/ StopOnRequest(w) \/ ReleaseLock(w)

(* `real run` and `real resume` at the command line.                       *)
Command(c, resume) ==
    /\ Spend("commands")
    /\ \E w \in Workers : Spawn(w, c, FALSE, resume)
    /\ UNCHANGED <<status, stop, dog, request, launchLock>>

---------------------------------------------------------------------------
(* The watchdog *)

Snapshot == <<dog.status, dog.live, dog.stop>>

StartWatchdog ==
    /\ dog.pc = "off"
    /\ Spend("watchdogs")
    /\ dog' = [Asleep EXCEPT !.pc = "inspect"]
    /\ UNCHANGED <<status, stop, runner, request, launchLock>>

(* inspect: the state first, then the lock and the stop request together.  *)
ReadState ==
    /\ dog.pc = "inspect" /\ dog.status = None
    /\ dog' = [dog EXCEPT !.status = status[Watched]]
    /\ UNCHANGED <<status, stop, runner, request, launchLock, left>>

ReadLock ==
    /\ dog.pc = "inspect" /\ dog.status # None /\ dog.live = None
    /\ dog' = [dog EXCEPT !.live = Live(Watched)]
    /\ UNCHANGED <<status, stop, runner, request, launchLock, left>>

ReadStop ==
    /\ dog.pc = "inspect" /\ dog.status # None /\ dog.stop = None
    /\ dog' = [dog EXCEPT !.stop = stop[Watched]]
    /\ UNCHANGED <<status, stop, runner, request, launchLock, left>>

Terminal ==
    IF dog.stop THEN "stop-requested"
    ELSE IF dog.status = "blocked" THEN "campaign-blocked"
    ELSE IF dog.status = "stopped" THEN "campaign-stopped"
    ELSE IF dog.status # "running" THEN "campaign-not-running"
    ELSE None

Judging == dog.pc = "inspect" /\ None \notin {dog.status, dog.live, dog.stop}
Again == [dog EXCEPT !.status = None, !.live = None, !.stop = None]

GiveUp ==
    /\ Judging /\ Terminal # None
    /\ dog' = [Asleep EXCEPT !.reason = Terminal]
    /\ UNCHANGED <<status, stop, runner, request, launchLock, left>>

(* Fault: a child that has exited is never forgotten. *)
ChildEnded_Never == FALSE

ChildEnded == dog.managed # None /\ runner[dog.managed].pc = "off"

(* Every way round the loop that does not launch ends in a delay.          *)
Wait ==
    /\ Judging /\ Terminal = None
    /\ \/ /\ dog.live
          /\ dog' = [Again EXCEPT !.observed = TRUE]
       \/ /\ ~dog.live /\ dog.managed # None
          /\ dog' = IF ChildEnded THEN [Again EXCEPT !.managed = None, !.observed = FALSE]
                    ELSE Again
       \/ /\ ~dog.live /\ dog.managed = None /\ dog.observed
          /\ dog' = [Again EXCEPT !.observed = FALSE]
    /\ UNCHANGED <<status, stop, runner, request, launchLock, left>>

Launch ==
    /\ Judging /\ Terminal = None
    /\ ~dog.live /\ dog.managed = None /\ ~dog.observed
    /\ \E w \in Workers : Spawn(w, Watched, FALSE, FALSE) /\ dog' = [Again EXCEPT !.managed = w]
    /\ UNCHANGED <<status, stop, request, launchLock, left>>

Watchdog == ReadState \/ ReadLock \/ ReadStop \/ GiveUp \/ Wait \/ Launch

---------------------------------------------------------------------------
(* The dashboard *)

At(r, there) == request[r].pc = there
Answer(r, there) == request' = [request EXCEPT ![r].pc = there, ![r].child = None]

Ask(r, kind, c) ==
    /\ request[r].pc \in {"none", "accepted", "refused", "recorded", "error"}
    /\ Spend("requests")
    /\ request' = [request EXCEPT ![r] =
          [pc |-> kind, kind |-> kind, campaign |-> c, child |-> None]]
    /\ UNCHANGED <<status, stop, runner, dog, launchLock>>

CheckLive(r) ==
    /\ At(r, "start")
    /\ Answer(r, IF Live(request[r].campaign) THEN "refused" ELSE "others")
    /\ UNCHANGED <<status, stop, runner, dog, launchLock, left>>

OthersLive(c) == \E d \in Campaigns \ {c} : Live(d)

CheckOthers(r) ==
    /\ At(r, "others")
    /\ Answer(r, IF OthersLive(request[r].campaign) THEN "error" ELSE "lock")
    /\ UNCHANGED <<status, stop, runner, dog, launchLock, left>>

TakeLaunchLock(r) ==
    /\ At(r, "lock")
    /\ IF launchLock = None
       THEN launchLock' = r /\ Answer(r, "clear")
       ELSE UNCHANGED launchLock /\ Answer(r, "error")
    /\ UNCHANGED <<status, stop, runner, dog, left>>

ClearStop(r) ==
    /\ At(r, "clear")
    /\ stop' = [stop EXCEPT ![request[r].campaign] = FALSE]
    /\ Answer(r, "spawn")
    /\ UNCHANGED <<status, runner, dog, launchLock, left>>

SpawnRunner(r) ==
    /\ At(r, "spawn")
    /\ \E w \in Workers, once \in BOOLEAN :
          /\ Spawn(w, request[r].campaign, once, FALSE)
          /\ request' = [request EXCEPT ![r].pc = "wait", ![r].child = w]
    /\ UNCHANGED <<status, stop, dog, launchLock, left>>

(* Any live runner of the campaign counts, not only the child.             *)
AwaitRunner(r) ==
    /\ At(r, "wait")
    /\ \/ Live(request[r].campaign) /\ Answer(r, "accepted") /\ UNCHANGED left
       \/ /\ ~Live(request[r].campaign) /\ runner[request[r].child].pc = "off"
          /\ Answer(r, "error") /\ UNCHANGED left
       \/ /\ ~Live(request[r].campaign) /\ runner[request[r].child].pc # "off"
          /\ Answer(r, "error") /\ Spend("timeouts")
    /\ launchLock' = None
    /\ UNCHANGED <<status, stop, runner, dog>>

RecordStop(r) ==
    /\ At(r, "stop")
    /\ stop' = [stop EXCEPT ![request[r].campaign] = TRUE]
    /\ Answer(r, "report")
    /\ UNCHANGED <<status, runner, dog, launchLock, left>>

ReportStop(r) ==
    /\ At(r, "report")
    /\ Answer(r, IF Live(request[r].campaign) THEN "accepted" ELSE "recorded")
    /\ UNCHANGED <<status, stop, runner, dog, launchLock, left>>

Handle(r) ==
    \/ CheckLive(r) \/ CheckOthers(r) \/ TakeLaunchLock(r) \/ ClearStop(r)
    \/ SpawnRunner(r) \/ AwaitRunner(r) \/ RecordStop(r) \/ ReportStop(r)

---------------------------------------------------------------------------

Next ==
    \/ \E w \in Workers : RunnerSteps(w) \/ StopAfterOne(w) \/ BlockCampaign(w) \/ Crash(w)
    \/ \E c \in Campaigns, resume \in BOOLEAN : Command(c, resume)
    \/ StartWatchdog \/ Watchdog
    \/ \E r \in Requests :
          Handle(r) \/ \E c \in Campaigns, kind \in {"start", "stop"} : Ask(r, kind, c)

Spec == Init /\ [][Next]_vars

(* A runner looks for a stop request at every boundary, the watchdog polls *)
(* and a request is handled; a campaign need not end by itself.            *)
FairSpec ==
    /\ Spec
    /\ \A w \in Workers : WF_vars(RunnerSteps(w))
    /\ WF_vars(Watchdog)
    /\ \A r \in Requests : WF_vars(Handle(r))

---------------------------------------------------------------------------
(* Properties *)

TypeOK ==
    /\ status \in [Campaigns -> Statuses]
    /\ stop \in [Campaigns -> BOOLEAN]
    /\ runner \in [Workers -> [pc : {"off", "starting", "locked", "running", "ending"},
                               campaign : Campaigns \cup {None},
                               once : BOOLEAN, resume : BOOLEAN]]
    /\ dog \in [pc : {"off", "inspect"}, status : Statuses \cup {None},
                live : BOOLEAN \cup {None}, stop : BOOLEAN \cup {None},
                managed : Workers \cup {None}, observed : BOOLEAN,
                reason : {"stop-requested", "campaign-blocked", "campaign-stopped",
                          "campaign-not-running", None}]
    /\ request \in [Requests -> [pc : {"none", "start", "others", "lock", "clear", "spawn",
                                       "wait", "stop", "report", "accepted", "refused",
                                       "recorded", "error"},
                                 kind : {"start", "stop", None},
                                 campaign : Campaigns \cup {None},
                                 child : Workers \cup {None}]]
    /\ launchLock \in Requests \cup {None}

(* A stop request ends the campaign's runners and its watchdog for good,   *)
(* however the watchdog's reads and launches fall, until somebody starts   *)
(* or resumes the campaign, which discards the request.                    *)
Quiet == dog.pc = "off" /\ \A w \in Workers :
            runner[w].campaign = Watched => runner[w].pc = "off"
StopSettles == stop[Watched] ~> (Quiet \/ ~stop[Watched])

(* A runner that dies while its campaign is running is replaced, unless    *)
(* somebody stops the campaign or there is no watchdog.                    *)
Orphaned == status[Watched] = "running" /\ ~Live(Watched) /\ dog.pc # "off"
Replaced == Orphaned ~> ~Orphaned

=============================================================================

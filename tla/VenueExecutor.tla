--------------------------- MODULE VenueExecutor ---------------------------
(* The executor of a venue at work: an actor that takes one message at a     *)
(* time, goroutines it leaves requests to, continuations that come back for  *)
(* the replies of the venue, rate limits they share, and the list of         *)
(* securities that a timer refreshes every minute and the parent, the        *)
(* executor of all venues, keeps a copy of. exchanges/types/executor.go and  *)
(* exchanges/<venue>/executor.go.                                            *)
EXTENDS VenueHandlers, FiniteSets

CONSTANTS
    Venues,         \* the executors looked at: a subset of DOMAIN Executors
    Slots,          \* bound: requests and updates at once
    Capacity,       \* queries that each limit allows in its window
    MaxCounted,     \* bound: where the count of each limit stays
    MaxVersions,    \* bound: lists the venue has in turn
    MaxFaults,      \* bound: odd, lost and redirected replies, failures
    MaxChains,      \* bound: timers that refresh the list
    Requesting      \* whether there are requests, or only updates

Boot == 0

ASSUME ExecutorAssumption ==
    /\ Venues \subseteq DOMAIN Executors
    /\ Boot \notin Slots /\ IsFiniteSet(Slots) /\ Slots # {}
    /\ MaxVersions \in Nat \ {0} /\ {MaxFaults, MaxChains} \subseteq Nat
    /\ DOMAIN MaxCounted = DOMAIN Capacity
    /\ \A l \in DOMAIN Capacity : Capacity[l] \in Nat \ {0}
                                   /\ MaxCounted[l] \in Nat
                                   /\ MaxCounted[l] >= Capacity[l]
    /\ Requesting \in BOOLEAN

\* each limit a handler counts under has its capacity
ASSUME LimitsAssumption ==
    {"address", "account", "list", "get", "post", "order"} \subseteq DOMAIN Capacity

VARIABLES
    venue,     \* whose executor
    job,       \* the boot, and the requests and updates under way
    spent,     \* what is counted under each limit in its window
    chains,    \* timers: each Started adds one, each renews itself
    listed,    \* the list of securities the venue has now
    held,      \* the one the executor keeps; 0 for the empty list
    posted,    \* lists on their way to the parent
    known,     \* the one the parent keeps
    faults     \* bound: faults so far

vars == <<venue, job, spent, chains, listed, held, posted, known, faults>>
lists == <<listed, posted, known>>   \* held apart: a restart empties it

Limits == DOMAIN Capacity
Replies == {"fine", "redirect"} \cup Trouble

(* A job: the handler it is in and the step it is at; where it runs (in the  *)
(* actor, in a goroutine, or nowhere while it awaits a reply); how often it  *)
(* was answered and how the last time; the last reply, and whether the venue *)
(* carried an order command out; the list it read; whether the executor it   *)
(* belongs to has restarted since; whether it ended in a failure.            *)
Job(handler, mode) ==
    [of |-> handler, at |-> 1, mode |-> mode, answers |-> 0, answer |-> "none",
     reply |-> "fine", acted |-> FALSE, version |-> 0, old |-> FALSE,
     failed |-> FALSE]
Idle == Job("none", "idle")

Working == \E j \in DOMAIN job : job[j].mode = "actor"   \* the actor is taken

Executing == Executors[venue]
Program(j) == CASE job[j].of = "boot" -> Executing.boot
                [] job[j].of = "update" -> Executing.update
                [] OTHER -> Executing.requests[job[j].of]
StepOf(j) == Program(j)[job[j].at]
IsList(j) == job[j].of \in {"boot", "update"}

\* requests with the same steps count once
Handlers ==
    [v \in DOMAIN Executors |->
        LET R == Executors[v].requests
        IN  {CHOOSE h \in DOMAIN R : R[h] = program :
                program \in {R[h] : h \in DOMAIN R}}]

TypeOK ==
    /\ venue \in DOMAIN Executors
    /\ \A j, k \in DOMAIN job :
        (job[j].mode = "actor" /\ job[k].mode = "actor") => j = k
    /\ \A j \in DOMAIN job :
        /\ job[j].of \in DOMAIN Executing.requests \cup {"none", "boot", "update"}
        /\ job[j].mode \in {"idle", "actor", "task", "await", "over"}
        /\ job[j].answer \in {"none", "success", "refused", "unsure"}
        /\ job[j].reply \in Replies
        /\ job[j].version \in 0 .. MaxVersions
    /\ DOMAIN spent = Limits /\ \A l \in Limits : spent[l] \in 0 .. MaxCounted[l]
    /\ chains \in 0 .. MaxChains /\ listed \in 1 .. MaxVersions
    /\ held \in 0 .. MaxVersions /\ known \in 0 .. MaxVersions
    /\ faults \in 0 .. MaxFaults

Init ==
    /\ venue \in Venues
    /\ job = [j \in Slots \cup {Boot} |->
                IF j = Boot THEN Job("boot", "actor") ELSE Idle]
    /\ spent = [l \in Limits |-> 0]
    /\ chains = 0 /\ listed = 1 /\ held = 0 /\ posted = << >> /\ known = 0
    /\ faults = 0

(***************************************************************************)
(* Going on, ending, failing.                                               *)
(***************************************************************************)
Answer(r, how) == [r EXCEPT !.answers = IF @ < 2 THEN @ + 1 ELSE @,
                            !.answer = how]

\* job j goes on with r, where it runs
GoOn(j, r) ==
    /\ job' = [job EXCEPT ![j] = [r EXCEPT !.at = @ + 1]]
    /\ UNCHANGED <<spent, chains, held>>

(* The handler returned an error in the actor: the actor panics and is       *)
(* restarted by its supervisor as a new executor, with no list and nothing   *)
(* counted. The goroutines and continuations of the old one go on, on the    *)
(* old one's state.                                                          *)
Restart(jobs) ==
    /\ job' = [j \in DOMAIN jobs |->
                IF j = Boot THEN Job("boot", "actor")
                ELSE [jobs[j] EXCEPT !.old = TRUE]]
    /\ spent' = [l \in Limits |-> 0]
    /\ held' = 0
    /\ UNCHANGED chains

\* Started is dealt with: a timer is set, next to those there are
Booted ==
    /\ job' = [job EXCEPT ![Boot] = Idle]
    /\ chains' = IF chains < MaxChains THEN chains + 1 ELSE chains
    /\ UNCHANGED <<spent, held>>

\* job j ends with r; an update leaves nothing behind
End(j, r) ==
    /\ job' = [job EXCEPT ![j] = IF IsList(j) THEN Idle
                                 ELSE [r EXCEPT !.mode = "over"]]
    /\ UNCHANGED <<spent, chains, held>>

Succeed(j, r) == IF j = Boot THEN Booted ELSE End(j, Answer(r, "success"))

\* a request is told; an update is logged; the boot fails, or is logged too
Refused(j, r, how) ==
    IF j # Boot THEN End(j, Answer(r, how))
    ELSE IF Executing.tolerant THEN Booted ELSE Restart(job)

Judged(j, r, verdict) ==
    IF r.reply \notin DOMAIN verdict THEN GoOn(j, r)
    ELSE CASE verdict[r.reply] = "warn" -> GoOn(j, Answer(r, "unsure"))
           [] verdict[r.reply] = "drop" -> End(j, r)
           [] verdict[r.reply] = "perhaps" ->
                (GoOn(j, r) \/ Refused(j, r, "refused"))
           [] OTHER -> Refused(j, r, verdict[r.reply])

(***************************************************************************)
(* The steps of a job that runs.                                            *)
(***************************************************************************)
(* What a request does that no one else can see is done at once, before      *)
(* anything else happens: in which order makes no difference.                *)
Unseen == {"check", "warn", "ignore", "decline", "done", "task", "skip", "judge"}
Private(j) == \/ job[j].mode = "over"
              \/ job[j].mode \in {"actor", "task"} /\ StepOf(j).do \in Unseen
Quiet == \A j \in Slots : ~Private(j)

Runs(j, what) ==
    /\ job[j].mode \in {"actor", "task"}
    /\ StepOf(j).do = what
    /\ Quiet \/ (j # Boot /\ Private(j))

Checks(j) ==
    /\ Runs(j, "check")
    /\ \/ GoOn(j, job[j])
       \/ Refused(j, job[j], "refused")
    /\ UNCHANGED <<venue, lists, faults>>

\* refused without a return: the handler goes on as if it were not
Warns(j) ==
    /\ Runs(j, "warn")
    /\ \/ GoOn(j, job[j])
       \/ GoOn(j, Answer(job[j], "refused"))
    /\ UNCHANGED <<venue, lists, faults>>

\* what a Warn let through is used: the process ends and is started again
Crashes(j) ==
    /\ Runs(j, "crash")
    /\ IF job[j].answers = 0
       THEN /\ GoOn(j, job[j])
            /\ UNCHANGED <<posted, known>>
       ELSE /\ job' = [k \in DOMAIN job |->
                        IF k = Boot THEN Job("boot", "actor")
                        ELSE IF job[k].mode = "idle" \/ IsList(k) THEN Idle
                        ELSE [job[k] EXCEPT !.mode = "over", !.failed = TRUE]]
            /\ spent' = [l \in Limits |-> 0]
            /\ chains' = 0 /\ held' = 0 /\ posted' = << >> /\ known' = 0
    /\ UNCHANGED <<venue, listed, faults>>

\* the query may not be built: the handler returns the error
Builds(j) ==
    /\ Runs(j, "build")
    /\ \/ GoOn(j, job[j]) /\ UNCHANGED faults
       \/ /\ faults < MaxFaults
          /\ faults' = faults + 1
          /\ Restart([job EXCEPT ![j].mode = "over", ![j].failed = TRUE])
    /\ UNCHANGED <<venue, lists>>

Ignores(j) == Runs(j, "ignore") /\ End(j, job[j]) /\ UNCHANGED <<venue, lists, faults>>

Declines(j) ==
    /\ Runs(j, "decline")
    /\ Refused(j, job[j], "refused")
    /\ UNCHANGED <<venue, lists, faults>>

Succeeds(j) ==
    /\ Runs(j, "done")
    /\ Succeed(j, job[j])
    /\ UNCHANGED <<venue, lists, faults>>

(* IsRateLimited. The limits of an executor that has restarted are its own: *)
(* what is counted under them is no longer followed.                        *)
Looks(j) ==
    /\ Runs(j, "free")
    /\ LET limited == spent[StepOf(j).limit] >= Capacity[StepOf(j).limit]
       IN  \/ /\ ~limited \/ job[j].old
              /\ GoOn(j, job[j])
           \/ /\ limited \/ job[j].old
              /\ Refused(j, job[j], "refused")
    /\ UNCHANGED <<venue, lists, faults>>

Count(j, l) ==
    /\ spent' = IF job[j].old \/ spent[l] = MaxCounted[l] THEN spent
                ELSE [spent EXCEPT ![l] = @ + 1]
    /\ job' = [job EXCEPT ![j].at = @ + 1]
    /\ UNCHANGED <<venue, chains, held, lists, faults>>

Takes(j) == Runs(j, "take") /\ Count(j, StepOf(j).limit)

Waits(j) ==
    /\ Runs(j, "wait")
    /\ job[j].old \/ spent[StepOf(j).limit] < Capacity[StepOf(j).limit]
    /\ Count(j, StepOf(j).limit)

Leaves(j) ==
    /\ Runs(j, "task")
    /\ job' = [job EXCEPT ![j].mode = "task", ![j].at = @ + 1]
    /\ UNCHANGED <<venue, spent, chains, held, lists, faults>>

Skips(j) ==
    /\ Runs(j, "skip")
    /\ \/ GoOn(j, job[j])
       \/ GoOn(j, [job[j] EXCEPT !.at = @ + StepOf(j).count])
    /\ UNCHANGED <<venue, lists, faults>>

(***************************************************************************)
(* Replies. A venue that refuses a command has not carried it out; of a lost *)
(* reply nothing is known; a redirect is no answer of the venue.             *)
(***************************************************************************)
Replied(j, reply) ==
    \E carried \in BOOLEAN :
        /\ reply \in {"fine", "odd"} => carried
        /\ reply \in {"refused", "redirect"} => ~carried
        /\ IF reply = "fine" \/ (reply = "refused" /\ ~IsList(j))
           THEN UNCHANGED faults
           ELSE faults < MaxFaults /\ faults' = faults + 1
        /\ Judged(j, [job[j] EXCEPT
                        !.reply = reply,
                        !.mode = IF @ = "await" THEN "actor" ELSE @,
                        !.acted = @ \/ (carried /\ StepOf(j).kind = "order"),
                        !.version = IF StepOf(j).kind # "list" THEN @
                                    ELSE IF reply = "fine" THEN listed ELSE 0],
                  StepOf(j).verdict)

\* a query that is waited for where it runs
Queries(j) ==
    /\ Runs(j, "query")
    /\ \E reply \in Trouble \cup {"fine"} \cup
                     ({"redirect"} \cap DOMAIN StepOf(j).verdict) :
            Replied(j, reply)
    /\ UNCHANGED <<venue, lists>>

\* a query sent to the query runner: the actor is free until the reply
Sends(j) ==
    /\ Runs(j, "future")
    /\ job' = [job EXCEPT ![j].mode = "await"]
    /\ UNCHANGED <<venue, spent, chains, held, lists, faults>>

\* Mutant: in a goroutine of its own, whatever the actor does.
ComesBackApart(j) ==
    /\ job[j].mode = "await" /\ Quiet
    /\ \E reply \in Replies : Replied(j, reply)
    /\ UNCHANGED <<venue, lists>>

ComesBack(j) ==
    /\ job[j].mode = "await" /\ ~Working /\ Quiet
    /\ \E reply \in Replies : Replied(j, reply)
    /\ UNCHANGED <<venue, lists>>

JudgesAgain(j) ==
    /\ Runs(j, "judge")
    /\ Judged(j, job[j], StepOf(j).verdict)
    /\ UNCHANGED <<venue, lists, faults>>

(***************************************************************************)
(* The list of securities.                                                  *)
(***************************************************************************)
AsksRegistry(j) ==
    /\ Runs(j, "registry")
    /\ \/ GoOn(j, job[j]) /\ UNCHANGED faults
       \/ /\ faults < MaxFaults
          /\ faults' = faults + 1
          /\ Refused(j, job[j], "refused")
    /\ UNCHANGED <<venue, lists>>

SyncSecurities(j) ==
    /\ Runs(j, "sync")
    /\ held' = IF job[j].old THEN held ELSE job[j].version
    /\ job' = [job EXCEPT ![j].at = @ + 1]
    /\ UNCHANGED <<venue, spent, chains, lists, faults>>

(* The last step of an update, and of the boot. The list the parent was sent *)
(* last, sent once more, changes nothing there and is left out.              *)
Publishes(j) ==
    /\ Runs(j, "publish")
    /\ LET sent == IF posted = << >> THEN known ELSE posted[Len(posted)]
       IN  posted' = IF job[j].version = sent THEN posted
                     ELSE Append(posted, job[j].version)
    /\ Succeed(j, job[j])
    /\ UNCHANGED <<venue, listed, known, faults>>

Measures(j) ==
    /\ Runs(j, "measure")
    /\ GoOn(j, [job[j] EXCEPT !.version = held])
    /\ UNCHANGED <<venue, lists, faults>>

(* A list grown since it was measured does not fit, and the actor panics; a  *)
(* shrunk one leaves holes.                                                  *)
Copies(j) ==
    /\ Runs(j, "copy")
    /\ IF held > job[j].version
       THEN Restart([job EXCEPT ![j].mode = "over", ![j].failed = TRUE])
       ELSE Succeed(j, job[j])
    /\ UNCHANGED <<venue, lists, faults>>

Step(j) ==
    \/ Checks(j) \/ Warns(j) \/ Crashes(j) \/ Builds(j) \/ Ignores(j)
    \/ Declines(j) \/ Succeeds(j) \/ Looks(j) \/ Takes(j) \/ Waits(j)
    \/ Leaves(j) \/ Skips(j) \/ Queries(j) \/ Sends(j) \/ JudgesAgain(j)
    \/ AsksRegistry(j) \/ SyncSecurities(j) \/ Publishes(j)
    \/ Measures(j) \/ Copies(j)

(***************************************************************************)
(* The world: requests, the timers, the windows of the limits, the venue's  *)
(* list, the parent.                                                        *)
(***************************************************************************)
Ask(j) ==
    /\ Requesting /\ job[j].mode = "idle" /\ ~Working /\ Quiet
    /\ \E h \in Handlers[venue] : job' = [job EXCEPT ![j] = Job(h, "actor")]
    /\ UNCHANGED <<venue, spent, chains, held, lists, faults>>

\* the asker has its answer: the request is done with
Forget(j) ==
    /\ job[j].mode = "over"
    /\ job' = [job EXCEPT ![j] = Idle]
    /\ UNCHANGED <<venue, spent, chains, held, lists, faults>>

(* A timer goes off: the update runs in a goroutine, and the timer is set    *)
(* again at once. In a minute a query is over, one way or another, and the   *)
(* parent has dealt with what it was sent; the registry may take longer.     *)
Updating == {j \in Slots : job[j].of = "update"}

\* Mutant: a query may take longer than that.
TickEarly(j) ==
    /\ job[j].mode = "idle" /\ posted = << >> /\ ~Working /\ Quiet
    /\ chains > 0
    /\ job' = [job EXCEPT ![j] = Job("update", "task")]
    /\ UNCHANGED <<venue, spent, chains, held, lists, faults>>

Tick(j) ==
    /\ job[j].mode = "idle" /\ posted = << >> /\ ~Working /\ Quiet
    /\ Cardinality({k \in Updating : StepOf(k).do # "registry"}) < chains
    /\ job' = [job EXCEPT ![j] = Job("update", "task")]
    /\ UNCHANGED <<venue, spent, chains, held, lists, faults>>

Window(l) ==
    /\ spent[l] > 0 /\ Quiet
    /\ spent' = [spent EXCEPT ![l] = 0]
    /\ UNCHANGED <<venue, job, chains, held, lists, faults>>

Relist ==
    /\ listed < MaxVersions /\ Quiet
    /\ listed' = listed + 1
    /\ UNCHANGED <<venue, job, spent, chains, held, posted, known, faults>>

\* Mutant: the parent keeps the first list it gets.
OnSecurityListOnce ==
    /\ posted # << >> /\ Quiet
    /\ known' = IF known = 0 THEN Head(posted) ELSE known
    /\ posted' = Tail(posted)
    /\ UNCHANGED <<venue, job, spent, chains, listed, held, faults>>

\* OnSecurityList of the executor of all venues: an empty list is ignored
OnSecurityList ==
    /\ posted # << >> /\ Quiet
    /\ known' = IF Head(posted) = 0 THEN known ELSE Head(posted)
    /\ posted' = Tail(posted)
    /\ UNCHANGED <<venue, job, spent, chains, listed, held, faults>>

Next ==
    \/ \E j \in Slots \cup {Boot} : Step(j)
    \/ \E j \in Slots : Ask(j) \/ Forget(j) \/ Tick(j) \/ ComesBack(j)
    \/ \E l \in Limits : Window(l)
    \/ Relist \/ OnSecurityList

(* Goroutines run, the actor serves its mailbox in order, timers go off,     *)
(* windows pass. Nobody has to ask, and the venue need not change its list.  *)
Fairness ==
    /\ \A j \in Slots \cup {Boot} : WF_vars(Step(j))
    /\ \A j \in Slots : WF_vars(Forget(j)) /\ SF_vars(ComesBack(j)) /\ SF_vars(Tick(j))
    /\ \A l \in Limits : WF_vars(Window(l))
    /\ WF_vars(OnSecurityList)

Spec == Init /\ [][Next]_vars /\ Fairness

(***************************************************************************)
(* Properties.                                                              *)
(***************************************************************************)
Over(j) == job[j].mode = "over"

(* The handlers that answer a second time after an answer without a return,  *)
(* those that never answer, and those that do not look at what the venue     *)
(* replies.                                                                  *)
AnsweredTwice == {BybitlOnMarketStatisticsRequest, BinanceOnConvertHistoryRequest,
                  DydxOnOrderCancelRequest}
NotAnswered == {<<Ignore>>, BithumbgOnMarketDataRequest.otherAggregations}
Unchecked == {BinanceOnBalancesRequest, BinanceOnDepositHistoryRequest,
              BinanceOnWithdrawalHistoryRequest, BinanceOnConvertHistoryRequest,
              DydxOnOrderCancelRequest}

(* The executor of all venues waits for one reply to what it forwards: a     *)
(* request is answered once, whatever is wrong with it, the limits or the    *)
(* reply, unless the actor fails on it or the venue redirects.               *)
AnsweredOnce ==
    \A j \in Slots : Over(j) =>
        /\ job[j].answers <= 1 \/ Program(j) \in AnsweredTwice
        /\ job[j].answers >= 1 \/ Program(j) \in NotAnswered
            \/ job[j].failed \/ job[j].reply = "redirect"

(* A success is not answered for a query that failed; and a command that is  *)
(* answered as refused, which its account then forgets, has not been carried *)
(* out: of a lost reply it is said that nothing is known. A reply that makes *)
(* no sense is taken either way.                                             *)
AnswerIsTrue ==
    \A j \in Slots : Over(j) /\ Program(j) \notin Unchecked =>
        /\ job[j].answer = "success" => job[j].reply \in {"fine", "odd"}
        /\ job[j].answer = "refused" => ~job[j].acted \/ job[j].reply = "odd"

(* Goroutines look at a limit and count under it in two steps: the queries   *)
(* of a window exceed it by those that looked together, never by more. The   *)
(* limits under which some handlers count without a look are left out.       *)
Unlooked == [fbinance |-> {"address"}, krakenf |-> {"address"},
             bybitl |-> {"post", "order"}, dydx |-> {"get"}]
WithinLimits ==
    \A l \in Limits :
        \/ spent[l] < Capacity[l] + Cardinality(Slots)
        \/ venue \in DOMAIN Unlooked /\ l \in Unlooked[venue]

(* An older list does not replace a newer one, neither in the executor nor   *)
(* in the parent: as long as there is one timer, and no update waits for the *)
(* registry, which sets itself no limit. What starts again, the executor or  *)
(* the whole process, has an empty list.                                     *)
OneTimer == chains <= 1
Prompt == \A i \in DOMAIN Executing.update : Executing.update[i].do # "registry"
ListsGoForward ==
    [][OneTimer /\ Prompt =>
            /\ known' >= known \/ chains' = 0
            /\ held' >= held \/ held' = 0]_vars

(* When the venue's list changes no more, the executor comes to keep it, and *)
(* the parent too: however many timers there are, in whatever order updates  *)
(* end, and after restarts.                                                  *)
ListsSettle == <>[](held = listed /\ known = listed)
=============================================================================

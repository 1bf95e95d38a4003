------------------------ MODULE VenueExecutorProofs ------------------------
(***************************************************************************)
(* The theorems about VenueExecutor!Spec, for every number of requests and *)
(* updates, every capacity and every bound.  An executor is judged by what *)
(* its handlers are made of: the first part says which shape a sequence of *)
(* steps must have, the second that an executor whose handlers have it     *)
(* keeps the invariants, the third that all executors have it.  The last   *)
(* part is about the lists of securities.                                  *)
(***************************************************************************)
EXTENDS VenueExecutor, FiniteSetTheorems, TLAPS

(***************************************************************************)
(* The shape of a handler P.                                                *)
(***************************************************************************)
Ending  == {"ignore", "decline", "done", "publish", "copy"}
Asking  == {"query", "future"}
Judging == Asking \cup {"judge"}
Does    == Ending \cup Judging \cup
           {"check", "warn", "build", "crash", "free", "take", "wait", "task",
            "skip", "registry", "sync", "measure"}
Verdicts == {"refused", "unsure", "warn", "perhaps", "drop"}
Positions(P) == 1 .. Len(P)

\* step s concerns limit l
On(s, what, l) == s.do \in what /\ s.limit = l

\* It ends, and skips no further than its end; what fails the actor is done in it.
Formed(P) ==
    /\ Len(P) \in Nat \ {0}
    /\ \A i \in Positions(P) :
        /\ P[i].do \in Does
        /\ i = Len(P) => P[i].do \in Ending
        /\ P[i].do \in {"free", "take", "wait"} => P[i].limit \in Limits
        /\ P[i].do = "skip" => P[i].count \in Nat /\ i + P[i].count < Len(P)
        /\ P[i].do \in Judging =>
            \A r \in DOMAIN P[i].verdict : r # "fine" /\ P[i].verdict[r] \in Verdicts
        /\ P[i].do \in {"build", "copy"} =>
            \A k \in 1 .. i - 1 : P[k].do # "task"

\* It stays where it runs, answers nobody, and replaces the list once: the boot,
\* and the updates.
Listing(P) ==
    \A i \in Positions(P) :
        /\ P[i].do \in {"free", "take", "query", "judge", "registry", "sync", "publish"}
        /\ P[i].do = "sync" => \A k \in i + 1 .. Len(P) : P[k].do # "sync"

\* It leaves the list alone, and answers once, unless it is named as one that
\* does not.
Answering(P) ==
    \A i \in Positions(P) :
        /\ P[i].do \notin {"sync", "publish"}
        /\ P[i].do = "ignore" => P \in NotAnswered
        /\ P[i].do \in Judging =>
            \A r \in DOMAIN P[i].verdict : P[i].verdict[r] = "drop" => r = "redirect"
        /\ \/ P \in AnsweredTwice
           \/ /\ P[i].do = "warn" => i < Len(P) /\ P[i + 1].do = "crash"
              /\ P[i].do \in Judging =>
                   \A r \in DOMAIN P[i].verdict : P[i].verdict[r] # "warn"

\* Reply r is judged at step i, or at the next one.
Judges(P, i, r) == i \in Positions(P) /\ P[i].do = "judge" /\ r \in DOMAIN P[i].verdict
Later(P, i, r)  == \/ Judges(P, i, r)
                   \/ i \in Positions(P) /\ P[i].do = "take" /\ Judges(P, i + 1, r)

Orders(P, i) == P[i].do \in Asking /\ P[i].kind = "order"

(* Every reply that is no success is judged, none lets it go on; of a lost   *)
(* reply to an order command it says that nothing is known, and after the    *)
(* command nothing is left to be refused.                                    *)
Truthful(P) ==
    \A i \in Positions(P) :
        /\ P[i].do \in Asking =>
            \A r \in {"refused", "lost", "redirect"} :
                \/ r \in DOMAIN P[i].verdict \/ Later(P, i + 1, r)
                \/ r = "redirect" /\ P[i].do = "query"
        /\ P[i].do \in Judging =>
            \A r \in DOMAIN P[i].verdict : P[i].verdict[r] \notin {"warn", "perhaps"}
        /\ Orders(P, i) =>
            /\ "lost" \in DOMAIN P[i].verdict /\ P[i].verdict["lost"] = "unsure"
            /\ \A k \in i + 1 .. Len(P) : P[k].do \in {"take", "judge", "done"}
        /\ P[i].do = "warn" =>
            \/ i < Len(P) /\ P[i + 1].do = "crash"
            \/ \A k \in Positions(P) : ~Orders(P, k)

\* At position i limit l has been looked at, and nothing counted under it since.
After(P, i, l) ==
    \E k \in 1 .. i - 1 :
        /\ On(P[k], {"free"}, l)
        /\ \A m \in k + 1 .. i - 1 : ~On(P[m], {"take", "wait"}, l)

First(P, i, l) == \A k \in 1 .. i - 1 : ~On(P[k], {"take"}, l)

\* Each look allows one query, and a skip does not jump over a look alone.
LooksFirst(P, l) ==
    \A i \in Positions(P) :
        /\ On(P[i], {"take"}, l) => After(P, i, l)
        /\ P[i].do = "skip" => (After(P, i + P[i].count + 1, l) => After(P, i, l))

\* The boot may count its first query without a look.
BootLooks(P, l) ==
    \A i \in Positions(P) : On(P[i], {"take"}, l) => After(P, i, l) \/ First(P, i, l)

Requests(v) == DOMAIN Executors[v].requests
Code(v, h) == CASE h = "boot" -> Executors[v].boot
                [] h = "update" -> Executors[v].update
                [] OTHER -> Executors[v].requests[h]
Followed(v) == {l \in Limits : ~(v \in DOMAIN Unlooked /\ l \in Unlooked[v])}

\* The executor of v has handlers of these shapes.
Suits(v) ==
    /\ {"none", "boot", "update"} \cap Requests(v) = {}
    /\ \A h \in {"boot", "update"} : Formed(Code(v, h)) /\ Listing(Code(v, h))
    /\ \A h \in Requests(v) :
        /\ Formed(Code(v, h)) /\ Answering(Code(v, h))
        /\ Code(v, h) \in Unchecked \/ Truthful(Code(v, h))
    /\ \A l \in Followed(v) :
        /\ BootLooks(Code(v, "boot"), l)
        /\ \A h \in Requests(v) \cup {"update"} : LooksFirst(Code(v, h), l)

(***************************************************************************)
(* The inductive invariant: job j of the executor of v is r.               *)
(***************************************************************************)
Modes  == {"idle", "actor", "task", "await", "over"}
Active == {"actor", "task", "await"}
Everyone == Slots \cup {Boot}

Jobs(v) ==
    [of : Requests(v) \cup {"none", "boot", "update"}, at : Nat \ {0}, mode : Modes,
     answers : 0 .. 2, answer : {"none", "success", "refused", "unsure"},
     reply : Replies, acted : BOOLEAN, version : 0 .. MaxVersions,
     old : BOOLEAN, failed : BOOLEAN]

Typed(v, j, r) ==
    /\ r \in Jobs(v)
    /\ r.mode # "idle" => r.of # "none"
    /\ r.answers = 0 => r.answer = "none"
    /\ IF j = Boot THEN r.mode \in {"idle", "actor"} /\ r.of \in {"none", "boot"} /\ ~r.old
       ELSE r.of # "boot"
    /\ r.mode = "over" => r.of \in Requests(v)
    /\ r.mode \in Active =>
        /\ r.at \in Positions(Code(v, r.of))
        /\ r.mode = "task" => \/ r.of = "update"
                              \/ \E k \in 1 .. r.at - 1 : Code(v, r.of)[k].do = "task"
        /\ r.mode = "await" => Code(v, r.of)[r.at].do = "future"
        /\ r.of = "update" => r.mode = "task"

Once(v, r) ==
    LET P == Code(v, r.of) IN
    r.of \in Requests(v) =>
        /\ r.mode \in Active /\ P \notin AnsweredTwice =>
            r.answers = 0 \/ (r.answers = 1 /\ P[r.at].do = "crash")
        /\ r.mode = "over" =>
            /\ r.answers <= 1 \/ P \in AnsweredTwice
            /\ r.answers >= 1 \/ P \in NotAnswered \/ r.failed \/ r.reply = "redirect"

True(v, r) ==
    LET P == Code(v, r.of) IN
    r.of \in Requests(v) /\ P \notin Unchecked =>
        /\ r.mode \in Active =>
            /\ r.reply \in {"fine", "odd"} \/ Later(P, r.at, r.reply)
            /\ r.acted => /\ r.reply \in {"fine", "odd"}
                          /\ \E k \in 1 .. r.at - 1 : Orders(P, k)
            /\ r.answer # "success"
            /\ r.answer = "refused" => \/ P[r.at].do = "crash"
                                       \/ \A k \in Positions(P) : ~Orders(P, k)
        /\ r.mode = "over" =>
            /\ r.answer = "success" => r.reply \in {"fine", "odd"}
            /\ r.answer = "refused" => ~r.acted \/ r.reply = "odd"

Good(v, j, r) == Typed(v, j, r) /\ Once(v, r) /\ True(v, r)

\* while the executor boots nothing else runs on it
BootsAlone == job[Boot].mode = "actor" =>
                \A j \in Slots : job[j].mode \in {"idle", "over"} \/ job[j].old
OneActor == \A j, k \in Everyone :
                job[j].mode = "actor" /\ job[k].mode = "actor" => j = k

Globals ==
    /\ venue \in Venues
    /\ DOMAIN job = Everyone
    /\ DOMAIN spent = Limits /\ \A l \in Limits : spent[l] \in 0 .. MaxCounted[l]
    /\ chains \in 0 .. MaxChains /\ listed \in 1 .. MaxVersions
    /\ held \in 0 .. MaxVersions /\ known \in 0 .. MaxVersions
    /\ posted \in Seq(0 .. MaxVersions)
    /\ faults \in 0 .. MaxFaults

\* those that looked at limit l, and have not counted yet
Looking(l) == {j \in Everyone : /\ job[j].mode \in Active /\ ~job[j].old
                                /\ After(Code(venue, job[j].of), job[j].at, l)}

Counted ==
    \A l \in Followed(venue) :
        /\ spent[l] + Cardinality(Looking(l)) < Capacity[l] + Cardinality(Slots)
        /\ job[Boot].mode = "actor" /\ First(Code(venue, "boot"), job[Boot].at, l) =>
            spent[l] = 0

Base == Globals /\ (\A j \in Everyone : Good(venue, j, job[j])) /\ BootsAlone /\ OneActor

(***************************************************************************)
(* What becomes of one job.                                                 *)
(***************************************************************************)
LEMMA Shapes ==
    ASSUME NEW v, Suits(v), NEW h \in Requests(v) \cup {"boot", "update"}
    PROVE  /\ Formed(Code(v, h))
           /\ h \in {"boot", "update"} => Listing(Code(v, h))
           /\ h \in Requests(v) => /\ h \notin {"none", "boot", "update"}
                                   /\ Answering(Code(v, h))
                                   /\ Code(v, h) \in Unchecked \/ Truthful(Code(v, h))
BY DEF Suits

\* A step that says nothing of the job goes on to the next.
LEMMA GoesOn ==
    ASSUME NEW v, Suits(v), NEW j \in Everyone, NEW r, Good(v, j, r),
           r.mode \in {"actor", "task"}, NEW w \in 0 .. MaxVersions,
           \/ Code(v, r.of)[r.at].do \in {"check", "build", "free", "take", "wait",
                                          "registry", "sync", "measure"}
           \/ Code(v, r.of)[r.at].do = "crash" /\ r.answers = 0
    PROVE  Good(v, j, [r EXCEPT !.at = @ + 1, !.version = w])
<1> DEFINE P == Code(v, r.of)
           q == [r EXCEPT !.at = @ + 1, !.version = w]
<1>1. r \in Jobs(v) /\ r.at \in Positions(P) /\ r.mode \in Active
      /\ r.of \in Requests(v) \cup {"boot", "update"}
    BY DEF Good, Typed, Active, Jobs
<1>2. Formed(P) /\ r.at \in Nat /\ Len(P) \in Nat
    BY <1>1, Shapes DEF Formed, Positions, Jobs
<1>3. r.at < Len(P)
    BY <1>1, <1>2 DEF Formed, Positions, Ending
<1>4. /\ q \in Jobs(v) /\ q.of = r.of /\ q.mode = r.mode /\ q.at = r.at + 1
      /\ q.reply = r.reply /\ q.answers = r.answers /\ q.answer = r.answer
      /\ q.acted = r.acted /\ q.old = r.old /\ q.failed = r.failed
  <2> DEFINE p == [r EXCEPT !.at = @ + 1]
  <2>1. /\ p \in Jobs(v) /\ p.of = r.of /\ p.mode = r.mode /\ p.at = r.at + 1
        /\ p.reply = r.reply /\ p.answers = r.answers /\ p.answer = r.answer
        /\ p.acted = r.acted /\ p.old = r.old /\ p.failed = r.failed
      BY <1>1 DEF Jobs
  <2>2. q = [p EXCEPT !.version = w]
      OBVIOUS
  <2> HIDE DEF p, q
  <2> QED
      BY <2>1, <2>2 DEF Jobs
<1> HIDE DEF q
<1>5. Typed(v, j, q)
  <2>1. r.mode = "task" /\ r.of # "update" => \E k \in 1 .. q.at - 1 : P[k].do = "task"
      BY <1>1, <1>2, <1>4 DEF Good, Typed, Active
  <2> QED
      BY <1>1, <1>2, <1>3, <1>4, <2>1 DEF Good, Typed, Positions, Active
<1>6. Once(v, q)
    BY <1>1, <1>4 DEF Good, Once, Active
<1>7. True(v, q)
  <2> SUFFICES ASSUME r.of \in Requests(v), P \notin Unchecked
      PROVE /\ r.reply \in {"fine", "odd"} \/ Later(P, r.at + 1, r.reply)
            /\ r.acted => /\ r.reply \in {"fine", "odd"}
                          /\ \E k \in 1 .. r.at : Orders(P, k)
            /\ r.answer # "success"
            /\ r.answer = "refused" => \A k \in Positions(P) : ~Orders(P, k)
      BY <1>1, <1>2, <1>4 DEF True, Active
  <2>1. /\ r.reply \in {"fine", "odd"} \/ Later(P, r.at, r.reply)
        /\ r.acted => /\ r.reply \in {"fine", "odd"}
                      /\ \E k \in 1 .. r.at - 1 : Orders(P, k)
        /\ r.answer # "success"
        /\ r.answer = "refused" => \/ P[r.at].do = "crash"
                                   \/ \A k \in Positions(P) : ~Orders(P, k)
      BY <1>1 DEF Good, True
  <2>2. Later(P, r.at, r.reply) => Later(P, r.at + 1, r.reply)
      BY DEF Later, Judges
  <2>3. P[r.at].do = "crash" => r.answer = "none"
      BY DEF Good, Typed
  <2> QED
      BY <1>2, <2>1, <2>2, <2>3
<1> QED
    BY <1>5, <1>6, <1>7 DEF Good, q

LEMMA SkipsOver ==
    ASSUME NEW v, Suits(v), NEW j \in Everyone, NEW r, Good(v, j, r),
           r.mode \in {"actor", "task"}, Code(v, r.of)[r.at].do = "skip",
           NEW n \in {r.at + 1, r.at + Code(v, r.of)[r.at].count + 1}
    PROVE  Good(v, j, [r EXCEPT !.at = n])
<1> DEFINE P == Code(v, r.of)
           q == [r EXCEPT !.at = n]
<1>1. r \in Jobs(v) /\ r.at \in Positions(P) /\ r.mode \in Active
      /\ r.of \in Requests(v) \cup {"boot", "update"}
    BY DEF Good, Typed, Active, Jobs
<1>2. Formed(P) /\ r.at \in Nat /\ Len(P) \in Nat
    BY <1>1, Shapes DEF Formed, Positions, Jobs
<1>3. n \in Positions(P) /\ n \in Nat \ {0} /\ r.at < n
    BY <1>1, <1>2 DEF Formed, Positions, Ending
<1>4. /\ q \in Jobs(v) /\ q.of = r.of /\ q.mode = r.mode /\ q.at = n
      /\ q.reply = r.reply /\ q.answers = r.answers /\ q.answer = r.answer
      /\ q.acted = r.acted /\ q.old = r.old /\ q.failed = r.failed
    BY <1>1, <1>3 DEF Jobs
<1> HIDE DEF q
<1>5. Typed(v, j, q)
  <2>1. r.mode = "task" /\ r.of # "update" => \E k \in 1 .. q.at - 1 : P[k].do = "task"
      BY <1>1, <1>2, <1>3, <1>4 DEF Good, Typed, Active
  <2> QED
      BY <1>1, <1>2, <1>3, <1>4, <2>1 DEF Good, Typed, Positions, Active
<1>6. Once(v, q)
    BY <1>1, <1>4 DEF Good, Once, Active
<1>7. True(v, q)
  <2> SUFFICES ASSUME r.of \in Requests(v), P \notin Unchecked
      PROVE /\ r.reply \in {"fine", "odd"}
            /\ r.acted => \E k \in 1 .. n - 1 : Orders(P, k)
            /\ r.answer # "success"
            /\ r.answer = "refused" => \A k \in Positions(P) : ~Orders(P, k)
      BY <1>1, <1>2, <1>4 DEF True, Active
  <2>1. /\ r.reply \in {"fine", "odd"} \/ Later(P, r.at, r.reply)
        /\ r.acted => /\ r.reply \in {"fine", "odd"}
                      /\ \E k \in 1 .. r.at - 1 : Orders(P, k)
        /\ r.answer # "success"
        /\ r.answer = "refused" => \/ P[r.at].do = "crash"
                                   \/ \A k \in Positions(P) : ~Orders(P, k)
      BY <1>1 DEF Good, True
  <2>2. ~Later(P, r.at, r.reply)
      BY DEF Later, Judges
  <2> QED
      BY <1>2, <1>3, <2>1, <2>2
<1> QED
    BY <1>5, <1>6, <1>7 DEF Good, q

\* What an answer changes.
LEMMA Answers ==
    ASSUME NEW v, NEW r \in Jobs(v), NEW how \in {"success", "refused", "unsure"}
    PROVE  /\ Answer(r, how) \in Jobs(v)
           /\ Answer(r, how).of = r.of /\ Answer(r, how).at = r.at
           /\ Answer(r, how).mode = r.mode /\ Answer(r, how).reply = r.reply
           /\ Answer(r, how).acted = r.acted /\ Answer(r, how).old = r.old
           /\ Answer(r, how).failed = r.failed /\ Answer(r, how).answer = how
           /\ Answer(r, how).answers > 0
           /\ r.answers = 0 => Answer(r, how).answers = 1
<1> DEFINE p == [r EXCEPT !.answers = IF @ < 2 THEN @ + 1 ELSE @]
<1>1. /\ p \in Jobs(v) /\ p.of = r.of /\ p.at = r.at /\ p.mode = r.mode /\ p.reply = r.reply
      /\ p.acted = r.acted /\ p.old = r.old /\ p.failed = r.failed
      /\ p.answers > 0 /\ (r.answers = 0 => p.answers = 1)
    BY DEF Jobs
<1>2. Answer(r, how) = [p EXCEPT !.answer = how]
    BY DEF Answer
<1> HIDE DEF p
<1> QED
    BY <1>1, <1>2 DEF Jobs

\* A request is over, with what is asked of one that is.
LEMMA Ends ==
    ASSUME NEW v, Suits(v), NEW j \in Slots, NEW q \in Jobs(v), q.of \in Requests(v),
           q.answers = 0 => q.answer = "none",
           q.answers <= 1 \/ Code(v, q.of) \in AnsweredTwice,
           \/ q.answers >= 1 \/ Code(v, q.of) \in NotAnswered
           \/ q.failed \/ q.reply = "redirect",
           Code(v, q.of) \notin Unchecked =>
                /\ q.answer = "success" => q.reply \in {"fine", "odd"}
                /\ q.answer = "refused" => ~q.acted \/ q.reply = "odd"
    PROVE  Good(v, j, [q EXCEPT !.mode = "over"])
<1> DEFINE p == [q EXCEPT !.mode = "over"]
<1>1. /\ p \in Jobs(v) /\ p.of = q.of /\ p.mode = "over" /\ p.reply = q.reply
      /\ p.answers = q.answers /\ p.answer = q.answer /\ p.acted = q.acted
      /\ p.failed = q.failed
    BY DEF Jobs, Modes
<1>2. q.of \notin {"none", "boot"} /\ j # Boot
    BY Shapes, ExecutorAssumption
<1> HIDE DEF p
<1> QED
  <2>1. Typed(v, j, p)
      BY <1>1, <1>2 DEF Typed, Active
  <2>2. Once(v, p)
      BY <1>1 DEF Once, Active
  <2>3. True(v, p)
      BY <1>1 DEF True, Active
  <2> QED
      BY <2>1, <2>2, <2>3 DEF Good, p

\* What is known of a request under way.
LEMMA UnderWay ==
    ASSUME NEW v, Suits(v), NEW j \in Slots, NEW r, Good(v, j, r), r.mode \in Active,
           r.of \in Requests(v)
    PROVE  LET P == Code(v, r.of) IN
           /\ r \in Jobs(v) /\ r.at \in Positions(P) /\ r.at \in Nat
           /\ Formed(P) /\ Answering(P) /\ (P \in Unchecked \/ Truthful(P))
           /\ r.answers = 0 => r.answer = "none"
           /\ P \notin AnsweredTwice =>
                r.answers = 0 \/ (r.answers = 1 /\ P[r.at].do = "crash")
           /\ P \notin Unchecked =>
                /\ P[r.at].do \in {"take", "judge"} \/ r.reply \in {"fine", "odd"}
                /\ P[r.at].do \notin {"take", "judge", "done"} => ~r.acted
                /\ r.answer # "success"
                /\ r.acted => r.reply \in {"fine", "odd"} /\ r.answer # "refused"
<1> DEFINE P == Code(v, r.of)
<1>1. /\ r \in Jobs(v) /\ r.at \in Positions(P) /\ r.at \in Nat
      /\ (r.answers = 0 => r.answer = "none")
    BY DEF Good, Typed, Jobs
<1>2. Formed(P) /\ Answering(P) /\ (P \in Unchecked \/ Truthful(P))
    BY Shapes
<1>3. P \notin AnsweredTwice =>
        r.answers = 0 \/ (r.answers = 1 /\ P[r.at].do = "crash")
    BY DEF Good, Once
<1>4. ASSUME P \notin Unchecked
      PROVE  /\ P[r.at].do \in {"take", "judge"} \/ r.reply \in {"fine", "odd"}
             /\ P[r.at].do \notin {"take", "judge", "done"} => ~r.acted
             /\ r.answer # "success"
             /\ r.acted => r.reply \in {"fine", "odd"} /\ r.answer # "refused"
  <2>1. /\ r.reply \in {"fine", "odd"} \/ Later(P, r.at, r.reply)
        /\ r.acted => /\ r.reply \in {"fine", "odd"}
                      /\ \E k \in 1 .. r.at - 1 : Orders(P, k)
        /\ r.answer # "success"
        /\ r.answer = "refused" => \/ P[r.at].do = "crash"
                                   \/ \A k \in Positions(P) : ~Orders(P, k)
      BY <1>4 DEF Good, True
  <2>2. Later(P, r.at, r.reply) => P[r.at].do \in {"take", "judge"}
      BY DEF Later, Judges
  <2>3. ASSUME r.acted PROVE P[r.at].do \in {"take", "judge", "done"}
    <3>1. PICK k \in 1 .. r.at - 1 : Orders(P, k)
        BY <2>1, <2>3
    <3>2. k \in Positions(P) /\ r.at \in k + 1 .. Len(P)
        BY <1>1, <1>2 DEF Positions, Formed
    <3> QED
        BY <1>2, <1>4, <3>1, <3>2 DEF Truthful
  <2>4. r.acted => \E k \in Positions(P) : Orders(P, k)
      BY <1>1, <1>2, <2>1 DEF Positions, Formed
  <2> QED
      BY <2>1, <2>2, <2>3, <2>4
<1> QED
    BY <1>1, <1>2, <1>3, <1>4

Closed(r) == [r EXCEPT !.mode = "over"]

\* A request is refused before anything was asked of the venue for it.
LEMMA IsRefused ==
    ASSUME NEW v, Suits(v), NEW j \in Slots, NEW r, Good(v, j, r), r.mode \in Active,
           r.of \in Requests(v),
           Code(v, r.of)[r.at].do \in {"check", "free", "decline", "registry"}
    PROVE  Good(v, j, Closed(Answer(r, "refused")))
<1> DEFINE P == Code(v, r.of)
           q == Answer(r, "refused")
<1>1. /\ r \in Jobs(v) /\ (P \notin AnsweredTwice => r.answers = 0)
      /\ (P \notin Unchecked => ~r.acted)
    BY UnderWay
<1>2. /\ q \in Jobs(v) /\ q.of = r.of /\ q.acted = r.acted /\ q.answer = "refused"
      /\ q.answers > 0 /\ (r.answers = 0 => q.answers = 1)
    BY <1>1, Answers
<1> HIDE DEF q
<1>3. q.answers >= 1 /\ (P \notin AnsweredTwice => q.answers <= 1)
    BY <1>1, <1>2 DEF Jobs
<1>4. Good(v, j, [q EXCEPT !.mode = "over"])
    BY <1>1, <1>2, <1>3, Ends
<1> QED
    BY <1>4 DEF q, Closed

\* A request succeeds.
LEMMA IsDone ==
    ASSUME NEW v, Suits(v), NEW j \in Slots, NEW r, Good(v, j, r), r.mode \in Active,
           r.of \in Requests(v),
           Code(v, r.of)[r.at].do \in {"done", "copy", "publish"}
    PROVE  Good(v, j, Closed(Answer(r, "success")))
<1> DEFINE P == Code(v, r.of)
           q == Answer(r, "success")
<1>1. /\ r \in Jobs(v) /\ (P \notin AnsweredTwice => r.answers = 0)
      /\ (P \notin Unchecked => r.reply \in {"fine", "odd"})
    BY UnderWay
<1>2. /\ q \in Jobs(v) /\ q.of = r.of /\ q.reply = r.reply /\ q.answer = "success"
      /\ q.answers > 0 /\ (r.answers = 0 => q.answers = 1)
    BY <1>1, Answers
<1> HIDE DEF q
<1>3. q.answers >= 1 /\ (P \notin AnsweredTwice => q.answers <= 1)
    BY <1>1, <1>2 DEF Jobs
<1>4. Good(v, j, [q EXCEPT !.mode = "over"])
    BY <1>1, <1>2, <1>3, Ends
<1> QED
    BY <1>4 DEF q, Closed

\* A request is not answered.
LEMMA IsIgnored ==
    ASSUME NEW v, Suits(v), NEW j \in Slots, NEW r, Good(v, j, r), r.mode \in Active,
           r.of \in Requests(v), Code(v, r.of)[r.at].do = "ignore"
    PROVE  Good(v, j, Closed(r))
<1> DEFINE P == Code(v, r.of)
<1>1. /\ r \in Jobs(v) /\ (P \notin AnsweredTwice => r.answers = 0)
      /\ (P \notin Unchecked => ~r.acted /\ r.reply \in {"fine", "odd"})
      /\ (r.answers = 0 => r.answer = "none")
    BY UnderWay
<1>2. P \in NotAnswered
    BY UnderWay DEF Answering
<1>3. P \notin AnsweredTwice => r.answers <= 1
    BY <1>1
<1>4. Good(v, j, [r EXCEPT !.mode = "over"])
    BY <1>1, <1>2, <1>3, Ends
<1> QED
    BY <1>4 DEF Closed

\* A request fails, with the actor or with the process.
LEMMA Fails ==
    ASSUME NEW v, Suits(v), NEW j \in Slots, NEW r, Good(v, j, r), r.mode \in Active,
           r.of \in Requests(v)
    PROVE  /\ Good(v, j, [r EXCEPT !.mode = "over", !.failed = TRUE])
           /\ [r EXCEPT !.mode = "over", !.failed = TRUE].mode = "over"
<1> DEFINE P == Code(v, r.of)
           q == [r EXCEPT !.failed = TRUE]
<1>1. /\ r \in Jobs(v) /\ (P \notin AnsweredTwice => r.answers <= 1)
      /\ (r.answers = 0 => r.answer = "none")
      /\ (P \notin Unchecked => r.answer # "success" /\ (r.acted => r.answer # "refused"))
  <2>1. /\ r \in Jobs(v)
        /\ (P \notin AnsweredTwice => r.answers = 0 \/ r.answers = 1)
        /\ (r.answers = 0 => r.answer = "none")
        /\ (P \notin Unchecked => r.answer # "success" /\ (r.acted => r.answer # "refused"))
      BY UnderWay
  <2> QED
      BY <2>1
<1>2. /\ q \in Jobs(v) /\ q.of = r.of /\ q.acted = r.acted /\ q.answer = r.answer
      /\ q.answers = r.answers /\ q.failed
    BY <1>1 DEF Jobs
<1> HIDE DEF q
<1>3. Good(v, j, [q EXCEPT !.mode = "over"])
    BY <1>1, <1>2, Ends
<1>4. [r EXCEPT !.mode = "over", !.failed = TRUE] = [q EXCEPT !.mode = "over"]
    BY <1>1 DEF q, Jobs
<1> QED
    BY <1>3, <1>4, <1>2 DEF Jobs

\* A request is refused without a return, and goes on.
LEMMA IsWarned ==
    ASSUME NEW v, Suits(v), NEW j \in Slots, NEW r, Good(v, j, r), r.mode \in {"actor", "task"},
           r.of \in Requests(v), Code(v, r.of)[r.at].do = "warn"
    PROVE  Good(v, j, [Answer(r, "refused") EXCEPT !.at = @ + 1])
<1> DEFINE P == Code(v, r.of)
           a == Answer(r, "refused")
           q == [a EXCEPT !.at = @ + 1]
<1>1. /\ r \in Jobs(v) /\ r.at \in Positions(P) /\ r.at \in Nat /\ Formed(P) /\ Answering(P)
      /\ r.mode \in Active
      /\ (P \in Unchecked \/ Truthful(P))
      /\ (P \notin AnsweredTwice => r.answers = 0)
      /\ (P \notin Unchecked => ~r.acted /\ r.reply \in {"fine", "odd"})
    BY UnderWay DEF Active
<1>2. /\ a \in Jobs(v) /\ a.of = r.of /\ a.at = r.at /\ a.mode = r.mode
      /\ a.reply = r.reply /\ a.acted = r.acted
      /\ a.answer = "refused" /\ a.answers > 0 /\ (r.answers = 0 => a.answers = 1)
    BY <1>1, Answers
<1> HIDE DEF a
<1>3. /\ q \in Jobs(v) /\ q.of = r.of /\ q.at = r.at + 1 /\ q.mode = r.mode
      /\ q.reply = r.reply /\ q.acted = r.acted
      /\ q.answer = "refused" /\ q.answers > 0 /\ (r.answers = 0 => q.answers = 1)
    BY <1>1, <1>2 DEF Jobs
<1> HIDE DEF q
<1>4. Len(P) \in Nat /\ r.at + 1 \in Positions(P)
    BY <1>1 DEF Formed, Positions, Ending
<1>5. Typed(v, j, q)
  <2>1. r.mode = "task" /\ r.of # "update" => \E k \in 1 .. q.at - 1 : P[k].do = "task"
      BY <1>1, <1>3 DEF Good, Typed
  <2>2. q.answers # 0
      BY <1>3
  <2>3. j # Boot /\ r.of \notin {"none", "boot", "update"} /\ q.mode \in {"actor", "task"}
      BY <1>3, Shapes, ExecutorAssumption
  <2> QED
      BY <1>1, <1>3, <1>4, <2>1, <2>2, <2>3 DEF Typed, Active
<1>6. Once(v, q)
  <2>1. P \notin AnsweredTwice => P[r.at + 1].do = "crash"
      BY <1>1 DEF Answering
  <2> QED
      BY <1>1, <1>3, <2>1 DEF Once, Active
<1>7. True(v, q)
  <2>1. P \notin Unchecked => \/ P[r.at + 1].do = "crash"
                              \/ \A k \in Positions(P) : ~Orders(P, k)
      BY <1>1 DEF Truthful
  <2> QED
      BY <1>1, <1>3, <2>1 DEF True, Active
<1> QED
    BY <1>5, <1>6, <1>7 DEF Good, q, a

\* A request leaves the actor for a goroutine.
LEMMA Departs ==
    ASSUME NEW v, Suits(v), NEW j \in Slots, NEW r, Good(v, j, r), r.mode \in {"actor", "task"},
           r.of \in Requests(v), Code(v, r.of)[r.at].do = "task"
    PROVE  Good(v, j, [r EXCEPT !.mode = "task", !.at = @ + 1])
<1> DEFINE P == Code(v, r.of)
           p == [r EXCEPT !.at = @ + 1]
           q == [r EXCEPT !.mode = "task", !.at = @ + 1]
<1>1. r \in Jobs(v) /\ r.at \in Positions(P) /\ r.at \in Nat /\ Formed(P)
      /\ r.mode \in Active
    BY UnderWay DEF Active
<1>2. /\ p \in Jobs(v) /\ p.of = r.of /\ p.at = r.at + 1 /\ p.reply = r.reply
      /\ p.acted = r.acted /\ p.answer = r.answer /\ p.answers = r.answers
    BY <1>1 DEF Jobs
<1>3. q = [p EXCEPT !.mode = "task"]
    BY <1>1 DEF Jobs
<1> HIDE DEF p, q
<1>4. /\ q \in Jobs(v) /\ q.of = r.of /\ q.at = r.at + 1 /\ q.mode = "task"
      /\ q.reply = r.reply /\ q.acted = r.acted /\ q.answer = r.answer
      /\ q.answers = r.answers
    BY <1>2, <1>3 DEF Jobs, Modes
<1>5. Len(P) \in Nat /\ r.at + 1 \in Positions(P)
    BY <1>1 DEF Formed, Positions, Ending
<1>6. Typed(v, j, q)
  <2>1. r.at \in 1 .. q.at - 1
      BY <1>1, <1>4, <1>5 DEF Positions
  <2>2. j # Boot /\ r.of \notin {"none", "boot", "update"}
      BY Shapes, ExecutorAssumption
  <2>3. r.answers = 0 => r.answer = "none"
      BY UnderWay DEF Active
  <2> QED
      BY <1>1, <1>4, <1>5, <2>1, <2>2, <2>3 DEF Typed, Active
<1>7. Once(v, q)
    BY <1>1, <1>4 DEF Good, Once, Active
<1>8. True(v, q)
  <2>1. P \notin Unchecked =>
          /\ r.reply \in {"fine", "odd"} /\ ~r.acted /\ r.answer # "success"
          /\ r.answer = "refused" => \A k \in Positions(P) : ~Orders(P, k)
      BY <1>1, UnderWay DEF Good, True
  <2> QED
      BY <1>1, <1>4, <2>1 DEF True, Active
<1> QED
    BY <1>6, <1>7, <1>8 DEF Good, q

\* A request awaits the reply to a query it left to the query runner.
LEMMA Awaits ==
    ASSUME NEW v, Suits(v), NEW j \in Slots, NEW r, Good(v, j, r), r.mode \in {"actor", "task"},
           r.of \in Requests(v), Code(v, r.of)[r.at].do = "future"
    PROVE  Good(v, j, [r EXCEPT !.mode = "await"])
<1> DEFINE P == Code(v, r.of)
           q == [r EXCEPT !.mode = "await"]
<1>1. r \in Jobs(v) /\ r.at \in Positions(P) /\ r.mode \in Active
    BY UnderWay DEF Active
<1>2. /\ q \in Jobs(v) /\ q.of = r.of /\ q.at = r.at /\ q.mode = "await"
      /\ q.reply = r.reply /\ q.acted = r.acted /\ q.answer = r.answer
      /\ q.answers = r.answers
    BY <1>1 DEF Jobs, Modes
<1> HIDE DEF q
<1>3. Typed(v, j, q)
  <2>1. j # Boot /\ r.of \notin {"none", "boot", "update"}
      BY Shapes, ExecutorAssumption
  <2> QED
      BY <1>1, <1>2, <2>1 DEF Good, Typed, Active
<1>4. Once(v, q)
    BY <1>1, <1>2 DEF Good, Once, Active
<1>5. True(v, q)
    BY <1>1, <1>2 DEF Good, True, Active
<1> QED
    BY <1>3, <1>4, <1>5 DEF Good, q

(***************************************************************************)
(* Job r has its reply, and is about to judge it.                           *)
(***************************************************************************)
Due(v, j, r) ==
    LET P == Code(v, r.of) IN
    /\ Typed(v, j, r) /\ Once(v, r)
    /\ r.mode \in {"actor", "task"} /\ P[r.at].do \in Judging
    /\ r.of \in Requests(v) /\ P \notin Unchecked =>
        /\ \/ r.reply \in {"fine", "odd"} \cup DOMAIN P[r.at].verdict
           \/ Later(P, r.at + 1, r.reply)
        /\ r.acted => /\ \/ r.reply \in {"fine", "odd"}
                         \/ /\ r.reply \in DOMAIN P[r.at].verdict
                            /\ P[r.at].verdict[r.reply] = "unsure"
                      /\ r.reply # "redirect"
                      /\ \E k \in 1 .. r.at : Orders(P, k)
        /\ r.answer # "success"
        /\ r.answer = "refused" => \A k \in Positions(P) : ~Orders(P, k)

LEMMA DueThen ==
    ASSUME NEW v, Suits(v), NEW j \in Everyone, NEW r, Due(v, j, r)
    PROVE  LET P == Code(v, r.of) IN
           /\ r \in Jobs(v) /\ r.at \in Positions(P) /\ r.at \in Nat /\ r.mode \in Active
           /\ Len(P) \in Nat /\ r.at + 1 \in Positions(P)
           /\ r.of \in Requests(v) \cup {"boot", "update"}
           /\ \A x \in DOMAIN P[r.at].verdict : x # "fine" /\ P[r.at].verdict[x] \in Verdicts
           /\ r.answers = 0 => r.answer = "none"
           /\ r.of \in Requests(v) =>
                /\ \A x \in DOMAIN P[r.at].verdict :
                     P[r.at].verdict[x] = "drop" => x = "redirect"
                /\ P \notin AnsweredTwice =>
                     /\ r.answers = 0
                     /\ \A x \in DOMAIN P[r.at].verdict : P[r.at].verdict[x] # "warn"
                /\ P \notin Unchecked =>
                     /\ \A x \in DOMAIN P[r.at].verdict :
                          P[r.at].verdict[x] \notin {"warn", "perhaps"}
                     /\ r.acted => \E k \in Positions(P) : Orders(P, k)
<1> DEFINE P == Code(v, r.of)
<1>1. r \in Jobs(v) /\ r.at \in Positions(P) /\ r.at \in Nat /\ r.mode \in Active
      /\ r.of \in Requests(v) \cup {"boot", "update"} /\ P[r.at].do \in Judging
      /\ (r.answers = 0 => r.answer = "none")
    BY DEF Due, Typed, Active, Jobs
<1>2. Formed(P)
    BY <1>1, Shapes
<1>3. Len(P) \in Nat /\ r.at + 1 \in Positions(P)
    BY <1>1, <1>2 DEF Formed, Positions, Ending, Judging, Asking
<1>4. \A x \in DOMAIN P[r.at].verdict : x # "fine" /\ P[r.at].verdict[x] \in Verdicts
    BY <1>1, <1>2 DEF Formed
<1>5. ASSUME r.of \in Requests(v)
      PROVE  /\ \A x \in DOMAIN P[r.at].verdict :
                  P[r.at].verdict[x] = "drop" => x = "redirect"
             /\ P \notin AnsweredTwice =>
                  /\ r.answers = 0
                  /\ \A x \in DOMAIN P[r.at].verdict : P[r.at].verdict[x] # "warn"
  <2>1. Answering(P)
      BY <1>5, Shapes
  <2>2. P[r.at].do # "crash"
      BY <1>1 DEF Judging, Asking
  <2>3. P \notin AnsweredTwice => r.answers = 0
      BY <1>1, <1>5, <2>2 DEF Due, Once
  <2> QED
      BY <1>1, <2>1, <2>3 DEF Answering
<1>6. ASSUME r.of \in Requests(v), P \notin Unchecked
      PROVE  /\ \A x \in DOMAIN P[r.at].verdict :
                  P[r.at].verdict[x] \notin {"warn", "perhaps"}
             /\ r.acted => \E k \in Positions(P) : Orders(P, k)
  <2>1. Truthful(P)
      BY <1>6, Shapes
  <2>2. r.acted => \E k \in 1 .. r.at : Orders(P, k)
      BY <1>6 DEF Due
  <2> QED
      BY <1>1, <1>3, <1>6, <2>1, <2>2 DEF Truthful, Positions
<1> QED
    BY <1>1, <1>3, <1>4, <1>5, <1>6

\* No verdict: it goes on.
LEMMA DueGoesOn ==
    ASSUME NEW v, Suits(v), NEW j \in Everyone, NEW r, Due(v, j, r),
           LET P == Code(v, r.of) IN
               r.of \in Requests(v) /\ P \notin Unchecked =>
                    r.reply \notin DOMAIN P[r.at].verdict
    PROVE  Good(v, j, [r EXCEPT !.at = @ + 1])
<1> DEFINE P == Code(v, r.of)
           q == [r EXCEPT !.at = @ + 1]
<1>1. r \in Jobs(v) /\ r.at \in Nat /\ r.at + 1 \in Positions(P) /\ r.mode \in Active
    BY DueThen
<1>2. /\ q \in Jobs(v) /\ q.of = r.of /\ q.at = r.at + 1 /\ q.mode = r.mode
      /\ q.reply = r.reply /\ q.acted = r.acted /\ q.answer = r.answer
      /\ q.answers = r.answers /\ q.old = r.old
    BY <1>1 DEF Jobs
<1> HIDE DEF q
<1>3. Typed(v, j, q)
  <2>1. r.mode = "task" /\ r.of # "update" => \E k \in 1 .. q.at - 1 : P[k].do = "task"
      BY <1>1, <1>2 DEF Due, Typed
  <2>2. r.mode \in {"actor", "task"}
      BY DEF Due
  <2> QED
      BY <1>1, <1>2, <2>1, <2>2 DEF Due, Typed
<1>4. Once(v, q)
  <2>1. r.of \in Requests(v) /\ P \notin AnsweredTwice => r.answers = 0
      BY DueThen
  <2>2. r.mode # "over"
      BY DEF Due
  <2> QED
      BY <1>2, <2>1, <2>2 DEF Once
<1>5. True(v, q)
  <2>1. r.mode # "over"
      BY DEF Due
  <2> SUFFICES ASSUME r.of \in Requests(v), P \notin Unchecked
      PROVE /\ r.reply \in {"fine", "odd"} \/ Later(P, r.at + 1, r.reply)
            /\ r.acted => /\ r.reply \in {"fine", "odd"}
                          /\ \E k \in 1 .. r.at : Orders(P, k)
            /\ r.answer # "success"
            /\ r.answer = "refused" => \A k \in Positions(P) : ~Orders(P, k)
      BY <1>1, <1>2, <2>1 DEF True
  <2> QED
      BY <1>1 DEF Due
<1> QED
    BY <1>3, <1>4, <1>5 DEF Good, q

\* Answered, without a return.
LEMMA DueWarned ==
    ASSUME NEW v, Suits(v), NEW j \in Everyone, NEW r, Due(v, j, r),
           LET P == Code(v, r.of) IN
               r.reply \in DOMAIN P[r.at].verdict /\ P[r.at].verdict[r.reply] = "warn"
    PROVE  Good(v, j, [Answer(r, "unsure") EXCEPT !.at = @ + 1])
<1> DEFINE P == Code(v, r.of)
           a == Answer(r, "unsure")
           q == [a EXCEPT !.at = @ + 1]
<1>1. r \in Jobs(v) /\ r.at \in Nat /\ r.at + 1 \in Positions(P) /\ r.mode \in Active
    BY DueThen
<1>2. /\ a \in Jobs(v) /\ a.of = r.of /\ a.at = r.at /\ a.mode = r.mode
      /\ a.old = r.old /\ a.answers > 0
    BY <1>1, Answers
<1> HIDE DEF a
<1>3. /\ q \in Jobs(v) /\ q.of = r.of /\ q.at = r.at + 1 /\ q.mode = r.mode
      /\ q.old = r.old /\ q.answers > 0
    BY <1>1, <1>2 DEF Jobs
<1> HIDE DEF q
<1>4. Typed(v, j, q)
  <2>1. r.mode = "task" /\ r.of # "update" => \E k \in 1 .. q.at - 1 : P[k].do = "task"
      BY <1>1, <1>3 DEF Due, Typed
  <2>2. r.mode \in {"actor", "task"} /\ q.answers # 0
      BY <1>3 DEF Due
  <2> QED
      BY <1>1, <1>3, <2>1, <2>2 DEF Due, Typed
<1>5. r.of \in Requests(v) => P \in AnsweredTwice /\ P \in Unchecked
    BY DueThen
<1>6. r.mode # "over"
    BY DEF Due
<1> QED
    BY <1>3, <1>4, <1>5, <1>6 DEF Good, Once, True, q, a

\* Answered, and over.
LEMMA DueRefused ==
    ASSUME NEW v, Suits(v), NEW j \in Slots, NEW r, Due(v, j, r), r.of \in Requests(v),
           NEW how \in {"refused", "unsure"},
           LET P == Code(v, r.of) IN
               /\ r.reply \in DOMAIN P[r.at].verdict
               /\ P[r.at].verdict[r.reply] \in {how, "perhaps"}
    PROVE  Good(v, j, Closed(Answer(r, how)))
<1> DEFINE P == Code(v, r.of)
           q == Answer(r, how)
<1>1. /\ r \in Jobs(v) /\ (P \notin AnsweredTwice => r.answers = 0)
      /\ r.reply # "fine"
      /\ (P \notin Unchecked => P[r.at].verdict[r.reply] = how)
  <2>1. r \in Jobs(v)
      BY DueThen DEF Everyone
  <2>2. P \notin AnsweredTwice => r.answers = 0
      BY DueThen DEF Everyone
  <2>3. r.reply # "fine"
      BY DueThen DEF Everyone
  <2>4. P \notin Unchecked => P[r.at].verdict[r.reply] # "perhaps"
      BY DueThen DEF Everyone
  <2> QED
      BY <2>1, <2>2, <2>3, <2>4
<1>2. /\ q \in Jobs(v) /\ q.of = r.of /\ q.acted = r.acted /\ q.answer = how
      /\ q.reply = r.reply
      /\ q.answers > 0 /\ (r.answers = 0 => q.answers = 1)
    BY <1>1, Answers
<1> HIDE DEF q
<1>3. q.answers >= 1 /\ (P \notin AnsweredTwice => q.answers <= 1)
    BY <1>1, <1>2 DEF Jobs
<1>4. P \notin Unchecked /\ how = "refused" => ~q.acted \/ q.reply = "odd"
    BY <1>1, <1>2 DEF Due
<1>5. Good(v, j, [q EXCEPT !.mode = "over"])
    BY <1>1, <1>2, <1>3, <1>4, Ends
<1> QED
    BY <1>5 DEF q, Closed

\* A redirect, of which nobody hears.
LEMMA DueDropped ==
    ASSUME NEW v, Suits(v), NEW j \in Slots, NEW r, Due(v, j, r), r.of \in Requests(v),
           LET P == Code(v, r.of) IN
               r.reply \in DOMAIN P[r.at].verdict /\ P[r.at].verdict[r.reply] = "drop"
    PROVE  Good(v, j, Closed(r))
<1> DEFINE P == Code(v, r.of)
<1>1. /\ r \in Jobs(v) /\ (P \notin AnsweredTwice => r.answers = 0)
      /\ r.reply = "redirect" /\ (r.answers = 0 => r.answer = "none")
  <2>1. r \in Jobs(v) /\ (r.answers = 0 => r.answer = "none")
      BY DueThen DEF Everyone
  <2>2. P \notin AnsweredTwice => r.answers = 0
      BY DueThen DEF Everyone
  <2>3. r.reply = "redirect"
      BY DueThen DEF Everyone
  <2> QED
      BY <2>1, <2>2, <2>3
<1>2. P \notin Unchecked => ~r.acted /\ r.answer # "success"
    BY <1>1 DEF Due
<1>3. P \notin AnsweredTwice => r.answers <= 1
    BY <1>1
<1>4. Good(v, j, [r EXCEPT !.mode = "over"])
    BY <1>1, <1>2, <1>3, Ends
<1> QED
    BY <1>4 DEF Closed

(***************************************************************************)
(* What a step does to the jobs and to the counts.                          *)
(***************************************************************************)
Doing(j) == Code(venue, job[j].of)[job[j].at]

\* Job j becomes q; it has looked at a limit only if it did before or is free to.
Moves(j, q) ==
    /\ job' = [job EXCEPT ![j] = q] /\ Good(venue, j, q)
    /\ q.mode = "actor" => job[j].mode = "actor" \/ ~Working
    /\ q.mode \in Active =>
        /\ q.of = job[j].of /\ q.old = job[j].old
        /\ j = Boot => q.at = job[j].at + 1
        /\ \A l \in Followed(venue) :
            After(Code(venue, q.of), q.at, l) =>
                /\ ~On(Doing(j), {"take", "wait"}, l)
                /\ \/ q.old \/ spent[l] < Capacity[l]
                   \/ After(Code(venue, q.of), job[j].at, l)

\* Nothing is left of the executor but jobs that are over, and old ones.
Restarts ==
    /\ DOMAIN job' = Everyone /\ job'[Boot] = Job("boot", "actor")
    /\ \A k \in Everyone : Good(venue, k, job'[k])
    /\ \A k \in Slots : /\ job'[k].mode # "actor"
                        /\ job'[k].mode \in {"idle", "over"} \/ job'[k].old
    /\ spent' = [l \in Limits |-> 0]

Spends(j) ==
    \/ spent' = spent
    \/ \E l \in Limits :
        /\ On(Doing(j), {"take", "wait"}, l)
        /\ Doing(j).do = "wait" => job[j].old \/ spent[l] < Capacity[l]
        /\ spent' = IF job[j].old \/ spent[l] = MaxCounted[l] THEN spent
                    ELSE [spent EXCEPT ![l] = @ + 1]

Effect(j) == Restarts \/ ((\E q : Moves(j, q)) /\ Spends(j))

LEMMA SuitsHere ==
    ASSUME \A v \in Venues : Suits(v), Base
    PROVE  Suits(venue)
BY DEF Base, Globals

LEMMA Started ==
    ASSUME NEW v, Suits(v), MaxVersions \in Nat
    PROVE  /\ Good(v, Boot, Job("boot", "actor"))
           /\ \A j \in Everyone : Good(v, j, Idle)
           /\ \A j \in Slots : /\ Good(v, j, Job("update", "task"))
                               /\ \A h \in Requests(v) : Good(v, j, Job(h, "actor"))
<1>1. ASSUME NEW h \in Requests(v) \cup {"none", "boot", "update"}, NEW m \in Modes
      PROVE  /\ Job(h, m) \in Jobs(v) /\ Job(h, m).of = h /\ Job(h, m).mode = m
             /\ Job(h, m).at = 1 /\ Job(h, m).answers = 0 /\ Job(h, m).answer = "none"
             /\ Job(h, m).reply = "fine" /\ ~Job(h, m).acted /\ ~Job(h, m).old
    BY DEF Job, Jobs, Modes, Replies
<1>2. \A h \in Requests(v) \cup {"boot", "update"} : 1 \in Positions(Code(v, h))
  <2>1. \A h \in Requests(v) \cup {"boot", "update"} : Len(Code(v, h)) \in Nat \ {0}
      BY Shapes DEF Formed
  <2> QED
      BY <2>1 DEF Positions
<1>3. \A h \in Requests(v) : h \notin {"none", "boot", "update"}
    BY Shapes
<1>4. Boot \notin Slots
    BY ExecutorAssumption
<1>5. "none" \notin Requests(v)
    BY <1>3
<1>6. Good(v, Boot, Job("boot", "actor"))
  <2>1. Typed(v, Boot, Job("boot", "actor"))
      BY <1>1, <1>2 DEF Typed, Modes, Active
  <2> QED
      BY <2>1, <1>1, <1>3 DEF Good, Once, True, Modes
<1>7. ASSUME NEW j \in Everyone PROVE Good(v, j, Idle)
  <2>1. Typed(v, j, Idle)
      BY <1>1 DEF Typed, Modes, Active, Idle
  <2> QED
      BY <2>1, <1>1, <1>5 DEF Good, Once, True, Modes, Idle
<1>8. ASSUME NEW j \in Slots, NEW h, NEW m,
             (h = "update" /\ m = "task") \/ (h \in Requests(v) /\ m = "actor")
      PROVE  Good(v, j, Job(h, m))
  <2>1. Typed(v, j, Job(h, m))
    <3>1. h \in Requests(v) \cup {"update"} /\ m \in Modes /\ h \notin {"none", "boot"}
        BY <1>3, <1>8 DEF Modes
    <3>2. Job(h, m) \in Jobs(v) /\ Job(h, m).of = h /\ Job(h, m).mode = m
          /\ Job(h, m).at = 1 /\ Job(h, m).answer = "none"
        BY <1>1, <3>1
    <3>3. h = "update" => m = "task"
        BY <1>3, <1>8
    <3>4. m = "task" => h = "update"
        BY <1>8
    <3>5. m \notin {"idle", "over", "await"} /\ j # Boot
        BY <1>4, <1>8
    <3> QED
        BY <1>2, <3>1, <3>2, <3>3, <3>4, <3>5 DEF Typed, Active
  <2>2. CASE h = "update"
      BY <2>1, <2>2, <1>1, <1>3, <1>8 DEF Good, Once, True, Modes
  <2>3. CASE h \in Requests(v) /\ m = "actor"
    <3>1. /\ Job(h, m).of = h /\ Job(h, m).mode = "actor" /\ Job(h, m).answers = 0
          /\ Job(h, m).answer = "none" /\ Job(h, m).reply = "fine" /\ ~Job(h, m).acted
        BY <1>1, <2>3 DEF Modes
    <3> QED
        BY <2>1, <3>1 DEF Good, Once, True
  <2> QED
      BY <1>8, <2>2, <2>3
<1> QED
    BY <1>6, <1>7, <1>8

\* What is known of a job that takes a step.
LEMMA RunsFacts ==
    ASSUME Suits(venue), Base, NEW j \in Everyone, NEW what, Runs(j, what)
    PROVE  /\ Good(venue, j, job[j]) /\ job[j].mode \in {"actor", "task"}
           /\ job[j] \in Jobs(venue) /\ job[j].at \in Nat
           /\ StepOf(j) = Doing(j) /\ Doing(j).do = what
           /\ job[j].of \in Requests(venue) \cup {"boot", "update"}
           /\ IsList(j) <=> job[j].of \notin Requests(venue)
           /\ j = Boot => job[j].of = "boot" /\ job[j].mode = "actor"
           /\ j # Boot => j \in Slots /\ job[j].of # "boot"
           /\ job[j].at \in Positions(Code(venue, job[j].of))
<1>1. Good(venue, j, job[j]) /\ job[j].mode \in {"actor", "task"}
    BY DEF Runs, Base
<1>2. StepOf(j) = Doing(j) /\ Doing(j).do = what
    BY DEF Runs, StepOf, Program, Executing, Doing, Code
<1>3. /\ job[j] \in Jobs(venue) /\ job[j].at \in Nat
      /\ job[j].of \in Requests(venue) \cup {"boot", "update"}
      /\ j = Boot => job[j].of = "boot" /\ job[j].mode = "actor"
      /\ j # Boot => job[j].of # "boot"
      /\ job[j].at \in Positions(Code(venue, job[j].of))
    BY <1>1 DEF Good, Typed, Jobs, Active
<1>4. IsList(j) <=> job[j].of \notin Requests(venue)
    BY <1>3, Shapes DEF IsList
<1> QED
    BY <1>1, <1>2, <1>3, <1>4 DEF Everyone

LEMMA AfterNext ==
    ASSUME NEW P, NEW i \in Nat, NEW l, After(P, i + 1, l)
    PROVE  On(P[i], {"free"}, l) \/ (After(P, i, l) /\ ~On(P[i], {"take", "wait"}, l))
<1>1. PICK k \in 1 .. i + 1 - 1 :
        /\ On(P[k], {"free"}, l)
        /\ \A m \in k + 1 .. i + 1 - 1 : ~On(P[m], {"take", "wait"}, l)
    BY DEF After
<1>2. CASE k = i
    BY <1>1, <1>2
<1>3. CASE k # i
  <2>1. k \in 1 .. i - 1 /\ i \in k + 1 .. i + 1 - 1
      BY <1>3
  <2>2. \A m \in k + 1 .. i - 1 : m \in k + 1 .. i + 1 - 1
      OBVIOUS
  <2> QED
      BY <1>1, <2>1, <2>2 DEF After
<1> QED
    BY <1>2, <1>3

\* To the next step.
LEMMA MovesOn ==
    ASSUME Suits(venue), Base, NEW j \in Everyone, NEW q,
           job' = [job EXCEPT ![j] = q], Good(venue, j, q), job[j].at \in Nat,
           q.at = job[j].at + 1, q.of = job[j].of, q.old = job[j].old,
           q.mode = "actor" => job[j].mode = "actor" \/ ~Working,
           Doing(j).do = "free" => q.old \/ spent[Doing(j).limit] < Capacity[Doing(j).limit]
    PROVE  Moves(j, q)
<1>1. ASSUME NEW l \in Followed(venue), After(Code(venue, q.of), q.at, l)
      PROVE  /\ ~On(Doing(j), {"take", "wait"}, l)
             /\ \/ q.old \/ spent[l] < Capacity[l]
                \/ After(Code(venue, q.of), job[j].at, l)
  <2>1. \/ On(Doing(j), {"free"}, l)
        \/ After(Code(venue, q.of), job[j].at, l) /\ ~On(Doing(j), {"take", "wait"}, l)
      BY <1>1, AfterNext DEF Doing
  <2> QED
      BY <2>1 DEF On
<1> QED
    BY <1>1 DEF Moves

\* To the end.
LEMMA MovesOut ==
    ASSUME NEW j \in Everyone, NEW q, job' = [job EXCEPT ![j] = q], Good(venue, j, q),
           q.mode \in {"idle", "over"}
    PROVE  Moves(j, q)
BY DEF Moves, Active

LEMMA MovesToEnd ==
    ASSUME Suits(venue), Base, NEW j \in Everyone, NEW r, End(j, r),
           IsList(j) \/ (r \in Jobs(venue) /\ Good(venue, j, Closed(r)))
    PROVE  \E q : Moves(j, q)
<1>1. MaxVersions \in Nat
    BY ExecutorAssumption
<1>2. CASE IsList(j)
  <2>1. job' = [job EXCEPT ![j] = Idle]
      BY <1>2 DEF End
  <2>2. Good(venue, j, Idle) /\ Idle.mode = "idle"
      BY <1>1, Started DEF Idle, Job
  <2> QED
      BY <2>1, <2>2, MovesOut
<1>3. CASE ~IsList(j)
  <2>1. job' = [job EXCEPT ![j] = Closed(r)] /\ Closed(r).mode = "over"
      BY <1>3 DEF End, Closed, Jobs
  <2> QED
      BY <1>3, <2>1, MovesOut
<1> QED
    BY <1>2, <1>3

LEMMA BootedMoves ==
    ASSUME Suits(venue), Base, Booted
    PROVE  (\E q : Moves(Boot, q)) /\ spent' = spent
<1>1. Good(venue, Boot, Idle) /\ Idle.mode = "idle" /\ Boot \in Everyone
    BY ExecutorAssumption, Started DEF Idle, Job, Everyone
<1>2. job' = [job EXCEPT ![Boot] = Idle] /\ spent' = spent
    BY DEF Booted
<1> QED
    BY <1>1, <1>2, MovesOut

\* A job that is old is as good.
LEMMA Ages ==
    ASSUME NEW v, NEW j \in Slots, NEW r, Good(v, j, r)
    PROVE  /\ Good(v, j, [r EXCEPT !.old = TRUE])
           /\ [r EXCEPT !.old = TRUE].mode = r.mode
           /\ [r EXCEPT !.old = TRUE].old
<1> DEFINE q == [r EXCEPT !.old = TRUE]
<1>1. r \in Jobs(v)
    BY DEF Good, Typed
<1>2. /\ q \in Jobs(v) /\ q.of = r.of /\ q.at = r.at /\ q.mode = r.mode
      /\ q.answers = r.answers /\ q.answer = r.answer /\ q.reply = r.reply
      /\ q.acted = r.acted /\ q.failed = r.failed /\ q.old
    BY <1>1 DEF Jobs
<1>3. j # Boot
    BY ExecutorAssumption
<1> HIDE DEF q
<1>4. Typed(v, j, q)
    BY <1>2, <1>3 DEF Good, Typed
<1>5. Once(v, q)
    BY <1>2 DEF Good, Once
<1>6. True(v, q)
    BY <1>2 DEF Good, True
<1>7. Good(v, j, q) /\ q.mode = r.mode /\ q.old
    BY <1>2, <1>4, <1>5, <1>6 DEF Good
<1> QED
    BY <1>7 DEF q

\* The actor fails in job j, which is over unless it is the boot.
LEMMA RestartsHere ==
    ASSUME Suits(venue), Base, NEW j \in Everyone, job[j].mode = "actor", NEW jobs,
           DOMAIN jobs = Everyone, \A k \in Everyone \ {j} : jobs[k] = job[k],
           j \in Slots => Good(venue, j, jobs[j]) /\ jobs[j].mode = "over",
           Restart(jobs)
    PROVE  Restarts
<1>1. Boot \notin Slots /\ MaxVersions \in Nat
    BY ExecutorAssumption
<1>2. ASSUME NEW k \in Slots
      PROVE  Good(venue, k, jobs[k]) /\ jobs[k].mode # "actor"
  <2>1. CASE k = j
      BY <2>1
  <2>2. CASE k # j
    <3>1. jobs[k] = job[k] /\ Good(venue, k, job[k])
        BY <2>2 DEF Base, Everyone
    <3>2. job[k].mode # "actor"
        BY <2>2 DEF Base, OneActor, Everyone
    <3> QED
        BY <3>1, <3>2
  <2> QED
      BY <2>1, <2>2
<1>3. \A k \in Slots : job'[k] = [jobs[k] EXCEPT !.old = TRUE]
    BY <1>1 DEF Restart, Everyone
<1>4. DOMAIN job' = Everyone /\ job'[Boot] = Job("boot", "actor")
      /\ spent' = [l \in Limits |-> 0]
    BY DEF Restart, Everyone
<1>5. ASSUME NEW k \in Slots
      PROVE  Good(venue, k, job'[k]) /\ job'[k].mode # "actor" /\ job'[k].old
  <2>1. Good(venue, k, jobs[k]) /\ jobs[k].mode # "actor"
      BY <1>2
  <2>2. /\ Good(venue, k, [jobs[k] EXCEPT !.old = TRUE])
        /\ [jobs[k] EXCEPT !.old = TRUE].mode = jobs[k].mode
        /\ [jobs[k] EXCEPT !.old = TRUE].old
      BY <2>1, Ages
  <2> QED
      BY <1>3, <2>1, <2>2
<1>6. Good(venue, Boot, job'[Boot])
    BY <1>1, <1>4, Started
<1> QED
    BY <1>4, <1>5, <1>6 DEF Restarts, Everyone

LEMMA RefusedHere ==
    ASSUME Suits(venue), Base, NEW j \in Everyone, NEW r, NEW how, Refused(j, r, how),
           j = Boot => job[j].mode = "actor",
           IsList(j) \/ (Answer(r, how) \in Jobs(venue) /\ Good(venue, j, Closed(Answer(r, how))))
    PROVE  Effect(j)
<1>1. CASE j # Boot
  <2>1. End(j, Answer(r, how)) /\ spent' = spent
      BY <1>1 DEF Refused, End
  <2> QED
      BY <2>1, MovesToEnd DEF Effect, Spends
<1>2. CASE j = Boot /\ Booted
    BY <1>2, BootedMoves DEF Effect, Spends
<1>3. CASE j = Boot /\ Restart(job)
  <2>1. Boot \notin Slots /\ DOMAIN job = Everyone
      BY ExecutorAssumption DEF Base, Globals
  <2> QED
      BY <1>3, <2>1, RestartsHere DEF Effect
<1> QED
    BY <1>1, <1>2, <1>3 DEF Refused

LEMMA SucceedHere ==
    ASSUME Suits(venue), Base, NEW j \in Everyone, NEW r, Succeed(j, r),
           \/ IsList(j)
           \/ Answer(r, "success") \in Jobs(venue) /\ Good(venue, j, Closed(Answer(r, "success")))
    PROVE  Effect(j)
<1>1. CASE j # Boot
  <2>1. End(j, Answer(r, "success")) /\ spent' = spent
      BY <1>1 DEF Succeed, End
  <2> QED
      BY <2>1, MovesToEnd DEF Effect, Spends
<1>2. CASE j = Boot
    BY <1>2, BootedMoves DEF Effect, Spends, Succeed
<1> QED
    BY <1>1, <1>2

\* A reply is judged.
LEMMA JudgedHere ==
    ASSUME Suits(venue), Base, NEW j \in Everyone, NEW r, Due(venue, j, r),
           r.of = job[j].of, r.at = job[j].at, r.old = job[j].old,
           r.mode = "actor" => job[j].mode = "actor" \/ ~Working,
           j = Boot => job[j].mode = "actor" /\ IsList(j),
           IsList(j) <=> job[j].of \notin Requests(venue),
           StepOf(j) = Doing(j),
           Judged(j, r, StepOf(j).verdict)
    PROVE  Effect(j)
<1> DEFINE verdict == Doing(j).verdict
<1>1. /\ r \in Jobs(venue) /\ r.at \in Nat /\ Doing(j).do # "free"
      /\ j # Boot => j \in Slots
    BY DueThen DEF Due, Everyone, Doing, Judging, Asking
<1>2. Judged(j, r, verdict)
    OBVIOUS
<1>3. CASE GoOn(j, r) /\ (r.reply \notin DOMAIN verdict \/ verdict[r.reply] = "perhaps")
  <2> DEFINE q == [r EXCEPT !.at = @ + 1]
  <2>1. r.of \in Requests(venue) /\ Code(venue, r.of) \notin Unchecked =>
            r.reply \notin DOMAIN Code(venue, r.of)[r.at].verdict
      BY <1>3, DueThen DEF Doing
  <2>2. Good(venue, j, q)
      BY <2>1, DueGoesOn
  <2>3. q.at = job[j].at + 1 /\ q.of = job[j].of /\ q.old = job[j].old /\ q.mode = r.mode
      BY <1>1 DEF Jobs
  <2>4. job' = [job EXCEPT ![j] = q] /\ spent' = spent
      BY <1>3 DEF GoOn
  <2> HIDE DEF q
  <2>5. Moves(j, q)
      BY <1>1, <2>2, <2>3, <2>4, MovesOn
  <2> QED
      BY <2>4, <2>5 DEF Effect, Spends
<1>4. CASE /\ r.reply \in DOMAIN verdict /\ verdict[r.reply] = "warn"
           /\ GoOn(j, Answer(r, "unsure"))
  <2> DEFINE a == Answer(r, "unsure")
             q == [a EXCEPT !.at = @ + 1]
  <2>1. Good(venue, j, q)
      BY <1>4, DueWarned DEF Doing
  <2>2. a \in Jobs(venue) /\ a.at = r.at /\ a.of = r.of /\ a.old = r.old /\ a.mode = r.mode
      BY <1>1, Answers
  <2>3. job' = [job EXCEPT ![j] = q] /\ spent' = spent
      BY <1>4 DEF GoOn
  <2> HIDE DEF a
  <2>4. q.at = job[j].at + 1 /\ q.of = job[j].of /\ q.old = job[j].old /\ q.mode = r.mode
      BY <1>1, <2>2 DEF Jobs
  <2> HIDE DEF q
  <2>5. Moves(j, q)
      BY <1>1, <2>1, <2>3, <2>4, MovesOn DEF a, q
  <2> QED
      BY <2>3, <2>5 DEF Effect, Spends
<1>5. CASE r.reply \in DOMAIN verdict /\ verdict[r.reply] = "drop" /\ End(j, r)
  <2>1. IsList(j) \/ Good(venue, j, Closed(r))
      BY <1>1, <1>5, DueDropped DEF Doing
  <2>2. spent' = spent
      BY <1>5 DEF End
  <2> QED
      BY <1>1, <1>5, <2>1, <2>2, MovesToEnd DEF Effect, Spends
<1>6. ASSUME NEW how \in {"refused", "unsure"}, r.reply \in DOMAIN verdict,
             verdict[r.reply] \in {how, "perhaps"}, Refused(j, r, how)
      PROVE  Effect(j)
  <2>1. IsList(j) \/ Good(venue, j, Closed(Answer(r, how)))
      BY <1>1, <1>6, DueRefused DEF Doing
  <2>2. Answer(r, how) \in Jobs(venue)
      BY <1>1, Answers
  <2> QED
      BY <1>6, <2>1, <2>2, RefusedHere
<1>7. r.reply \in DOMAIN verdict => verdict[r.reply] \in Verdicts
    BY DueThen DEF Doing
<1> HIDE DEF verdict
<1> QED
    BY <1>2, <1>3, <1>4, <1>5, <1>6, <1>7 DEF Judged, Verdicts

\* The boot and the updates take few kinds of steps.
LEMMA ListSteps ==
    ASSUME Suits(venue), Base, NEW j \in Everyone, NEW what, Runs(j, what)
    PROVE  \/ /\ job[j].of \in Requests(venue) /\ j \in Slots /\ j # Boot
              /\ job[j].mode \in Active
           \/ /\ IsList(j)
              /\ what \in {"free", "take", "query", "judge", "registry", "sync", "publish"}
<1>1. /\ job[j].of \in Requests(venue) \cup {"boot", "update"}
      /\ IsList(j) <=> job[j].of \notin Requests(venue)
      /\ Doing(j).do = what /\ job[j].at \in Positions(Code(venue, job[j].of))
      /\ j = Boot => job[j].of = "boot"
      /\ j # Boot => j \in Slots
      /\ job[j].mode \in Active
    BY RunsFacts DEF Active
<1>2. CASE job[j].of \in Requests(venue)
    BY <1>1, <1>2, Shapes
<1>3. CASE job[j].of \in {"boot", "update"}
    BY <1>1, <1>3, Shapes DEF IsList, Listing, Doing
<1> QED
    BY <1>1, <1>2, <1>3

\* Job j goes on, with list w.
Onward(j, w) == job' = [job EXCEPT ![j] = [job[j] EXCEPT !.at = @ + 1, !.version = w]]

\* A step that says nothing of the job.
LEMMA GoOnHere ==
    ASSUME Suits(venue), Base, NEW j \in Everyone, NEW what, Runs(j, what),
           NEW w \in 0 .. MaxVersions, Onward(j, w),
           \/ what \in {"check", "build", "free", "take", "wait", "registry", "sync", "measure"}
           \/ what = "crash" /\ job[j].answers = 0,
           what = "free" => job[j].old \/ spent[Doing(j).limit] < Capacity[Doing(j).limit]
    PROVE  \E q : Moves(j, q)
<1> DEFINE p == [job[j] EXCEPT !.at = @ + 1]
           q == [job[j] EXCEPT !.at = @ + 1, !.version = w]
<1>1. /\ Good(venue, j, job[j]) /\ job[j].mode \in {"actor", "task"} /\ job[j].at \in Nat
      /\ job[j] \in Jobs(venue) /\ Doing(j).do = what
    BY RunsFacts
<1>2. Good(venue, j, q)
    BY <1>1, GoesOn DEF Doing
<1>3. /\ p \in Jobs(venue) /\ p.at = job[j].at + 1 /\ p.of = job[j].of
      /\ p.old = job[j].old /\ p.mode = job[j].mode
    BY <1>1 DEF Jobs
<1>4. q = [p EXCEPT !.version = w]
    OBVIOUS
<1> HIDE DEF p
<1>5. q.at = job[j].at + 1 /\ q.of = job[j].of /\ q.old = job[j].old /\ q.mode = job[j].mode
    BY <1>3, <1>4 DEF Jobs
<1>6. job' = [job EXCEPT ![j] = q]
    BY DEF Onward
<1> HIDE DEF q
<1>7. Moves(j, q)
    BY <1>1, <1>2, <1>5, <1>6, MovesOn
<1> QED
    BY <1>7

LEMMA SameVersion ==
    ASSUME Suits(venue), Base, NEW j \in Everyone, NEW what, Runs(j, what)
    PROVE  /\ job[j].version \in 0 .. MaxVersions
           /\ [job[j] EXCEPT !.at = @ + 1]
                = [job[j] EXCEPT !.at = @ + 1, !.version = job[j].version]
           /\ [job EXCEPT ![j].at = @ + 1] = [job EXCEPT ![j] = [job[j] EXCEPT !.at = @ + 1]]
<1>1. job[j] \in Jobs(venue)
    BY RunsFacts
<1> QED
    BY <1>1 DEF Jobs

LEMMA GoesOnHere ==
    ASSUME Suits(venue), Base, NEW j \in Everyone, NEW what, Runs(j, what), GoOn(j, job[j]),
           \/ what \in {"check", "build", "free", "take", "wait", "registry", "sync", "measure"}
           \/ what = "crash" /\ job[j].answers = 0,
           what = "free" => job[j].old \/ spent[Doing(j).limit] < Capacity[Doing(j).limit]
    PROVE  Effect(j)
<1> DEFINE w == job[j].version
<1>1. w \in 0 .. MaxVersions /\ Onward(j, w) /\ spent' = spent
    BY SameVersion DEF GoOn, Onward
<1> HIDE DEF w
<1>2. \E q : Moves(j, q)
    BY <1>1, GoOnHere
<1> QED
    BY <1>1, <1>2 DEF Effect, Spends

LEMMA RefusesHere ==
    ASSUME Suits(venue), Base, NEW j \in Everyone, NEW what, Runs(j, what),
           Refused(j, job[j], "refused"), what \in {"check", "free", "decline", "registry"}
    PROVE  Effect(j)
<1>1. /\ Good(venue, j, job[j]) /\ job[j] \in Jobs(venue) /\ Doing(j).do = what
      /\ j = Boot => job[j].mode = "actor"
    BY RunsFacts
<1>2. \/ /\ job[j].of \in Requests(venue) /\ j \in Slots /\ job[j].mode \in Active
      \/ IsList(j)
    BY ListSteps
<1>3. Answer(job[j], "refused") \in Jobs(venue)
    BY <1>1, Answers
<1>4. IsList(j) \/ Good(venue, j, Closed(Answer(job[j], "refused")))
    BY <1>1, <1>2, IsRefused DEF Doing
<1> QED
    BY <1>1, <1>3, <1>4, RefusedHere

LEMMA SucceedsHere ==
    ASSUME Suits(venue), Base, NEW j \in Everyone, NEW what, Runs(j, what),
           Succeed(j, job[j]), what \in {"done", "copy", "publish"}
    PROVE  Effect(j)
<1>1. Good(venue, j, job[j]) /\ job[j] \in Jobs(venue) /\ Doing(j).do = what
    BY RunsFacts
<1>2. \/ /\ job[j].of \in Requests(venue) /\ j \in Slots /\ job[j].mode \in Active
      \/ IsList(j)
    BY ListSteps
<1>3. Answer(job[j], "success") \in Jobs(venue)
    BY <1>1, Answers
<1>4. IsList(j) \/ Good(venue, j, Closed(Answer(job[j], "success")))
    BY <1>1, <1>2, IsDone DEF Doing
<1> QED
    BY <1>1, <1>3, <1>4, SucceedHere

\* What fails the actor is done in the actor.
LEMMA FailsHere ==
    ASSUME Suits(venue), Base, NEW j \in Everyone, NEW what, Runs(j, what),
           what \in {"build", "copy"},
           Restart([job EXCEPT ![j].mode = "over", ![j].failed = TRUE])
    PROVE  Effect(j)
<1> DEFINE q == [job[j] EXCEPT !.mode = "over", !.failed = TRUE]
           jobs == [job EXCEPT ![j].mode = "over", ![j].failed = TRUE]
<1>1. /\ Good(venue, j, job[j]) /\ job[j].mode \in {"actor", "task"}
      /\ Doing(j).do = what /\ job[j].at \in Positions(Code(venue, job[j].of))
    BY RunsFacts
<1>2. job[j].of \in Requests(venue) /\ j \in Slots /\ job[j].mode \in Active
    BY ListSteps
<1>3. job[j].mode = "actor"
  <2>1. Formed(Code(venue, job[j].of)) /\ job[j].of # "update"
      BY <1>2, Shapes
  <2>2. \A k \in 1 .. job[j].at - 1 : Code(venue, job[j].of)[k].do # "task"
      BY <1>1, <2>1 DEF Formed, Doing
  <2> QED
      BY <1>1, <1>2, <2>1, <2>2 DEF Good, Typed
<1>4. Good(venue, j, q) /\ q.mode = "over"
    BY <1>1, <1>2, Fails
<1>5. DOMAIN job = Everyone
    BY DEF Base, Globals
<1>6. DOMAIN jobs = Everyone /\ jobs[j] = q /\ \A k \in Everyone \ {j} : jobs[k] = job[k]
    BY <1>5
<1> HIDE DEF q, jobs
<1>7. Restart(jobs)
    BY DEF jobs
<1>8. Restarts
    BY <1>3, <1>4, <1>6, <1>7, RestartsHere
<1> QED
    BY <1>8 DEF Effect

\* The process ends, with everything in it.
LEMMA CrashHere ==
    ASSUME Suits(venue), Base, NEW j \in Everyone, Crashes(j)
    PROVE  Effect(j)
<1>1. CASE job[j].answers = 0
  <2>1. Runs(j, "crash") /\ GoOn(j, job[j])
      BY <1>1 DEF Crashes
  <2> QED
      BY <1>1, <2>1, GoesOnHere
<1>2. CASE job[j].answers # 0
  <2> DEFINE dead(k) == [job[k] EXCEPT !.mode = "over", !.failed = TRUE]
             jobs == [k \in DOMAIN job |->
                        IF k = Boot THEN Job("boot", "actor")
                        ELSE IF job[k].mode = "idle" \/ IsList(k) THEN Idle
                        ELSE dead(k)]
  <2>1. job' = jobs /\ spent' = [l \in Limits |-> 0]
      BY <1>2 DEF Crashes
  <2>2. DOMAIN job = Everyone /\ Boot \notin Slots /\ MaxVersions \in Nat
      BY ExecutorAssumption DEF Base, Globals
  <2>3. Good(venue, Boot, Job("boot", "actor")) /\ \A k \in Everyone : Good(venue, k, Idle)
      BY <2>2, Started
  <2>4. ASSUME NEW k \in Slots
        PROVE  Good(venue, k, jobs[k]) /\ jobs[k].mode \in {"idle", "over"}
    <3>1. k \in Everyone /\ k # Boot /\ Good(venue, k, job[k])
        BY <2>2 DEF Base, Everyone
    <3>2. CASE job[k].mode = "idle" \/ IsList(k)
      <4>1. jobs[k] = Idle /\ Idle.mode = "idle"
          BY <2>2, <3>1, <3>2 DEF Idle, Job
      <4> QED
          BY <2>3, <3>1, <4>1
    <3>3. CASE ~(job[k].mode = "idle" \/ IsList(k))
      <4> DEFINE q == dead(k)
      <4>1. jobs[k] = q
        <5> HIDE DEF dead
        <5> QED
            BY <2>2, <3>1, <3>3
      <4>2. job[k] \in Jobs(venue) /\ job[k].of # "none"
          BY <3>1, <3>3 DEF Good, Typed
      <4>3. job[k].of \in Requests(venue)
          BY <3>3, <4>2 DEF IsList, Jobs
      <4>4. CASE job[k].mode \in Active
        <5>1. Good(venue, k, q) /\ q.mode = "over"
            BY <3>1, <4>3, <4>4, Fails
        <5> HIDE DEF q, jobs
        <5> QED
            BY <4>1, <5>1
      <4>5. CASE job[k].mode = "over"
        <5> DEFINE p == [job[k] EXCEPT !.failed = TRUE]
        <5>1. /\ p \in Jobs(venue) /\ p.of = job[k].of /\ p.answers = job[k].answers
              /\ p.answer = job[k].answer /\ p.reply = job[k].reply
              /\ p.acted = job[k].acted /\ p.failed
            BY <4>2 DEF Jobs
        <5>2. q = [p EXCEPT !.mode = "over"]
            BY <4>2 DEF Jobs
        <5>3. /\ job[k].answers = 0 => job[k].answer = "none"
              /\ job[k].answers <= 1 \/ Code(venue, job[k].of) \in AnsweredTwice
              /\ Code(venue, job[k].of) \notin Unchecked =>
                    /\ job[k].answer = "success" => job[k].reply \in {"fine", "odd"}
                    /\ job[k].answer = "refused" => ~job[k].acted \/ job[k].reply = "odd"
            BY <3>1, <4>3, <4>5 DEF Good, Typed, Once, True
        <5> HIDE DEF p, q
        <5>4. Good(venue, k, q)
            BY <4>3, <5>1, <5>2, <5>3, Ends
        <5>5. q.mode = "over"
            BY <5>1, <5>2 DEF Jobs
        <5> QED
            BY <4>1, <5>4, <5>5
      <4> QED
          BY <3>3, <4>2, <4>4, <4>5 DEF Jobs, Modes, Active
    <3> QED
        BY <3>2, <3>3
  <2>5. jobs[Boot] = Job("boot", "actor") /\ DOMAIN jobs = Everyone
    <3> HIDE DEF dead
    <3> QED
        BY <2>2 DEF Everyone
  <2> HIDE DEF jobs
  <2>6. Restarts
      BY <2>1, <2>3, <2>4, <2>5 DEF Restarts, Everyone
  <2> QED
      BY <2>6 DEF Effect
<1> QED
    BY <1>1, <1>2

\* Job j with its reply, and the list that comes with it.
Heard(j, reply, carried, w) ==
    [job[j] EXCEPT !.reply = reply,
                   !.mode = IF @ = "await" THEN "actor" ELSE @,
                   !.acted = @ \/ (carried /\ Doing(j).kind = "order"),
                   !.version = w]

LEMMA DueHere ==
    ASSUME Suits(venue), Base, NEW j \in Everyone, Good(venue, j, job[j]),
           job[j].mode \in Active, Doing(j).do \in Asking,
           NEW reply \in Replies, NEW carried \in BOOLEAN,
           reply \in {"refused", "redirect"} => ~carried,
           reply = "redirect" => Doing(j).do = "future" \/ reply \in DOMAIN Doing(j).verdict,
           NEW w \in 0 .. MaxVersions,
           NEW r, r = Heard(j, reply, carried, w)
    PROVE  /\ Due(venue, j, r)
           /\ r.of = job[j].of /\ r.at = job[j].at /\ r.old = job[j].old
           /\ r.mode = IF job[j].mode = "await" THEN "actor" ELSE job[j].mode
<1> DEFINE P == Code(venue, job[j].of)
           a == [job[j] EXCEPT !.reply = reply]
           b == [a EXCEPT !.mode = IF @ = "await" THEN "actor" ELSE @]
           c == [b EXCEPT !.acted = @ \/ (carried /\ Doing(j).kind = "order")]
<1>1. job[j] \in Jobs(venue) /\ job[j].at \in Nat /\ job[j].at \in Positions(P)
    BY DEF Good, Typed, Jobs
<1>2. /\ a \in Jobs(venue) /\ a.reply = reply
      /\ a.of = job[j].of /\ a.at = job[j].at /\ a.answers = job[j].answers
      /\ a.answer = job[j].answer /\ a.old = job[j].old /\ a.mode = job[j].mode
      /\ a.acted = job[j].acted
    BY <1>1 DEF Jobs
<1> DEFINE m == IF job[j].mode = "await" THEN "actor" ELSE job[j].mode
           x == job[j].acted \/ (carried /\ Doing(j).kind = "order")
<1>3. /\ b \in Jobs(venue) /\ b.reply = reply /\ b.mode = m
      /\ b.of = job[j].of /\ b.at = job[j].at /\ b.answers = job[j].answers
      /\ b.answer = job[j].answer /\ b.old = job[j].old /\ b.acted = job[j].acted
  <2> HIDE DEF a
  <2> QED
      BY <1>2 DEF Jobs, Modes
<1>4. /\ c \in Jobs(venue) /\ c.reply = reply /\ c.mode = m /\ c.acted = x
      /\ c.of = job[j].of /\ c.at = job[j].at /\ c.answers = job[j].answers
      /\ c.answer = job[j].answer /\ c.old = job[j].old
  <2>1. x \in BOOLEAN
      BY <1>1 DEF Jobs
  <2> HIDE DEF b, m
  <2> QED
      BY <1>3, <2>1 DEF Jobs
<1>5. r = [c EXCEPT !.version = w]
    BY <1>1 DEF Jobs, Heard
<1> HIDE DEF a, b, c, m, x
<1>6. /\ r \in Jobs(venue) /\ r.reply = reply /\ r.mode = m /\ r.acted = x
      /\ r.of = job[j].of /\ r.at = job[j].at /\ r.answers = job[j].answers
      /\ r.answer = job[j].answer /\ r.old = job[j].old
    BY <1>4, <1>5 DEF Jobs
<1>7. m \in {"actor", "task"}
    BY DEF m, Active
<1>8. Typed(venue, j, r)
  <2>1. job[j].mode = "await" => j # Boot /\ job[j].of # "update"
      BY DEF Good, Typed, Active
  <2> QED
      BY <1>1, <1>6, <1>7, <2>1 DEF Good, Typed, m, Active
<1>9. Once(venue, r)
  <2>1. job[j].of \in Requests(venue) /\ P \notin AnsweredTwice =>
            job[j].answers = 0 \/ (job[j].answers = 1 /\ P[job[j].at].do = "crash")
      BY DEF Good, Once
  <2> QED
      BY <1>6, <1>7, <2>1 DEF Once
<1>10. ASSUME job[j].of \in Requests(venue), P \notin Unchecked
       PROVE  /\ \/ reply \in {"fine", "odd"} \cup DOMAIN P[job[j].at].verdict
                 \/ Later(P, job[j].at + 1, reply)
              /\ x => /\ \/ reply \in {"fine", "odd"}
                         \/ /\ reply \in DOMAIN P[job[j].at].verdict
                            /\ P[job[j].at].verdict[reply] = "unsure"
                      /\ reply # "redirect"
                      /\ \E k \in 1 .. job[j].at : Orders(P, k)
              /\ job[j].answer # "success"
              /\ job[j].answer = "refused" => \A k \in Positions(P) : ~Orders(P, k)
  <2>1. j \in Slots
      BY <1>10, Shapes DEF Good, Typed, Everyone, Active
  <2>2. Truthful(P) /\ ~job[j].acted /\ job[j].answer # "success"
    <3>1. Doing(j).do \notin {"take", "judge", "done"}
        BY DEF Asking
    <3> QED
        BY <1>10, <2>1, <3>1, UnderWay DEF Doing
  <2>3. job[j].answer = "refused" => \A k \in Positions(P) : ~Orders(P, k)
      BY <1>10 DEF Good, True, Doing, Asking
  <2>4. \/ reply \in {"fine", "odd"} \cup DOMAIN P[job[j].at].verdict
        \/ Later(P, job[j].at + 1, reply)
      BY <1>1, <2>2 DEF Truthful, Doing, Asking, Replies, Trouble
  <2>5. ASSUME x
        PROVE  /\ \/ reply \in {"fine", "odd"}
                  \/ /\ reply \in DOMAIN P[job[j].at].verdict
                     /\ P[job[j].at].verdict[reply] = "unsure"
               /\ reply # "redirect"
               /\ \E k \in 1 .. job[j].at : Orders(P, k)
    <3>1. carried /\ Orders(P, job[j].at)
        BY <2>2, <2>5 DEF x, Orders, Doing
    <3>2. reply \in {"fine", "odd", "lost"}
        BY <3>1 DEF Replies, Trouble
    <3>3. "lost" \in DOMAIN P[job[j].at].verdict /\ P[job[j].at].verdict["lost"] = "unsure"
        BY <1>1, <2>2, <3>1 DEF Truthful
    <3>4. job[j].at \in 1 .. job[j].at
        BY <1>1 DEF Jobs
    <3> QED
        BY <3>1, <3>2, <3>3, <3>4
  <2> QED
      BY <2>2, <2>3, <2>4, <2>5
<1>11. Due(venue, j, r)
    BY <1>6, <1>7, <1>8, <1>9, <1>10 DEF Due, Judging, Doing
<1> QED
    BY <1>6, <1>11 DEF m

LEMMA RepliedHere ==
    ASSUME Suits(venue), Base, NEW j \in Everyone, Good(venue, j, job[j]),
           job[j].mode \in Active, Doing(j).do \in Asking, StepOf(j) = Doing(j),
           job[j].mode = "await" => ~Working,
           j = Boot => job[j].mode = "actor" /\ IsList(j),
           IsList(j) <=> job[j].of \notin Requests(venue),
           NEW reply \in Replies, Replied(j, reply),
           reply = "redirect" => Doing(j).do = "future" \/ reply \in DOMAIN Doing(j).verdict
    PROVE  Effect(j)
<1>1. PICK carried \in BOOLEAN :
        /\ reply \in {"refused", "redirect"} => ~carried
        /\ Judged(j, [job[j] EXCEPT
                        !.reply = reply,
                        !.mode = IF @ = "await" THEN "actor" ELSE @,
                        !.acted = @ \/ (carried /\ StepOf(j).kind = "order"),
                        !.version = IF StepOf(j).kind # "list" THEN @
                                    ELSE IF reply = "fine" THEN listed ELSE 0],
                  StepOf(j).verdict)
    BY DEF Replied
<1> DEFINE w == IF Doing(j).kind # "list" THEN job[j].version
                ELSE IF reply = "fine" THEN listed ELSE 0
           r == Heard(j, reply, carried, w)
<1>2. w \in 0 .. MaxVersions
  <2>1. job[j].version \in 0 .. MaxVersions
      BY DEF Good, Typed, Jobs
  <2>2. listed \in 0 .. MaxVersions /\ 0 \in 0 .. MaxVersions
      BY ExecutorAssumption DEF Base, Globals
  <2> QED
      BY <2>1, <2>2
<1>3. job[j] \in Jobs(venue)
    BY DEF Good, Typed
<1>4. Judged(j, r, StepOf(j).verdict)
  <2>1. r = [job[j] EXCEPT
                        !.reply = reply,
                        !.mode = IF @ = "await" THEN "actor" ELSE @,
                        !.acted = @ \/ (carried /\ Doing(j).kind = "order"),
                        !.version = IF Doing(j).kind # "list" THEN @
                                    ELSE IF reply = "fine" THEN listed ELSE 0]
      BY <1>3 DEF Jobs, Heard
  <2> HIDE DEF r
  <2> QED
      BY <1>1, <2>1
<1>5. /\ Due(venue, j, r)
      /\ r.of = job[j].of /\ r.at = job[j].at /\ r.old = job[j].old
      /\ r.mode = IF job[j].mode = "await" THEN "actor" ELSE job[j].mode
  <2> HIDE DEF w
  <2> QED
      BY <1>1, <1>2, DueHere
<1> HIDE DEF r
<1> QED
    BY <1>4, <1>5, JudgedHere DEF Active

\* Mode by mode, a job comes back for its reply.
LEMMA ComesBackHere ==
    ASSUME Suits(venue), Base, NEW j \in Slots, ComesBack(j)
    PROVE  Effect(j)
<1>1. j \in Everyone /\ j # Boot /\ Good(venue, j, job[j]) /\ job[j].mode = "await"
    BY ExecutorAssumption DEF ComesBack, Base, Everyone
<1>2. /\ Doing(j).do = "future" /\ job[j].of \in Requests(venue)
      /\ job[j].of \in Requests(venue) \cup {"boot", "update"}
    BY <1>1 DEF Good, Typed, Jobs, Active, Doing
<1>3. StepOf(j) = Doing(j) /\ ~IsList(j)
  <2>1. job[j].of \notin {"boot", "update"}
      BY <1>2, Shapes
  <2> QED
      BY <2>1 DEF StepOf, Program, Executing, Doing, Code, IsList
<1>4. PICK reply \in Replies : Replied(j, reply)
    BY DEF ComesBack
<1> QED
    BY <1>1, <1>2, <1>3, <1>4, RepliedHere DEF ComesBack, Asking, Active

LEMMA QueriesHere ==
    ASSUME Suits(venue), Base, NEW j \in Everyone, Queries(j)
    PROVE  Effect(j)
<1>1. Runs(j, "query")
    BY DEF Queries
<1>2. PICK reply \in Trouble \cup {"fine"} \cup ({"redirect"} \cap DOMAIN StepOf(j).verdict) :
        Replied(j, reply)
    BY DEF Queries
<1>3. /\ Good(venue, j, job[j]) /\ job[j].mode \in {"actor", "task"}
      /\ StepOf(j) = Doing(j) /\ Doing(j).do = "query"
      /\ IsList(j) <=> job[j].of \notin Requests(venue)
      /\ j = Boot => job[j].of = "boot" /\ job[j].mode = "actor"
    BY <1>1, RunsFacts
<1>4. reply \in Replies /\ (reply = "redirect" => reply \in DOMAIN Doing(j).verdict)
    BY <1>2, <1>3 DEF Replies, Trouble
<1>5. j = Boot => IsList(j)
    BY <1>3 DEF IsList
<1> QED
    BY <1>2, <1>3, <1>4, <1>5, RepliedHere DEF Asking, Active

LEMMA JudgesAgainHere ==
    ASSUME Suits(venue), Base, NEW j \in Everyone, JudgesAgain(j)
    PROVE  Effect(j)
<1>1. Runs(j, "judge") /\ Judged(j, job[j], StepOf(j).verdict)
    BY DEF JudgesAgain
<1>2. /\ Good(venue, j, job[j]) /\ job[j].mode \in {"actor", "task"}
      /\ job[j] \in Jobs(venue) /\ job[j].at \in Nat
      /\ StepOf(j) = Doing(j) /\ Doing(j).do = "judge"
      /\ IsList(j) <=> job[j].of \notin Requests(venue)
      /\ j = Boot => job[j].of = "boot" /\ job[j].mode = "actor"
    BY <1>1, RunsFacts
<1>3. j = Boot => IsList(j)
    BY <1>2 DEF IsList
<1>4. Due(venue, j, job[j])
  <2> DEFINE P == Code(venue, job[j].of)
  <2> SUFFICES ASSUME job[j].of \in Requests(venue), P \notin Unchecked
      PROVE  /\ \/ job[j].reply \in {"fine", "odd"} \cup DOMAIN P[job[j].at].verdict
                \/ Later(P, job[j].at + 1, job[j].reply)
             /\ job[j].acted => /\ \/ job[j].reply \in {"fine", "odd"}
                                   \/ /\ job[j].reply \in DOMAIN P[job[j].at].verdict
                                      /\ P[job[j].at].verdict[job[j].reply] = "unsure"
                                /\ job[j].reply # "redirect"
                                /\ \E k \in 1 .. job[j].at : Orders(P, k)
             /\ job[j].answer # "success"
             /\ job[j].answer = "refused" => \A k \in Positions(P) : ~Orders(P, k)
      BY <1>2 DEF Due, Good, Doing, Judging
  <2>1. /\ job[j].reply \in {"fine", "odd"} \/ Later(P, job[j].at, job[j].reply)
        /\ job[j].acted => /\ job[j].reply \in {"fine", "odd"}
                           /\ \E k \in 1 .. job[j].at - 1 : Orders(P, k)
        /\ job[j].answer # "success"
        /\ job[j].answer = "refused" => \/ P[job[j].at].do = "crash"
                                        \/ \A k \in Positions(P) : ~Orders(P, k)
      BY <1>2 DEF Good, True, Active
  <2>2. P[job[j].at].do = "judge"
      BY <1>2 DEF Doing
  <2>3. Later(P, job[j].at, job[j].reply) => job[j].reply \in DOMAIN P[job[j].at].verdict
      BY <2>2 DEF Later, Judges
  <2> QED
      BY <1>2, <2>1, <2>2, <2>3
<1> QED
    BY <1>1, <1>2, <1>3, <1>4, JudgedHere

LEMMA WarnsHere ==
    ASSUME Suits(venue), Base, NEW j \in Everyone, Warns(j)
    PROVE  Effect(j)
<1>1. Runs(j, "warn")
    BY DEF Warns
<1>2. /\ Good(venue, j, job[j]) /\ job[j].mode \in {"actor", "task"}
      /\ job[j] \in Jobs(venue) /\ job[j].at \in Nat /\ Doing(j).do = "warn"
      /\ job[j].of \in Requests(venue) /\ j \in Slots
    BY <1>1, RunsFacts, ListSteps
<1> DEFINE a == Answer(job[j], "refused")
           n == [a EXCEPT !.at = @ + 1]
<1>3. /\ a \in Jobs(venue) /\ a.at = job[j].at /\ a.of = job[j].of /\ a.old = job[j].old
      /\ a.mode = job[j].mode
    BY <1>2, Answers
<1>4. Good(venue, j, n)
    BY <1>2, IsWarned DEF Doing
<1>5. CASE GoOn(j, a)
  <2>1. job' = [job EXCEPT ![j] = n] /\ spent' = spent
      BY <1>5 DEF GoOn
  <2> HIDE DEF a
  <2>2. n.at = job[j].at + 1 /\ n.of = job[j].of /\ n.old = job[j].old /\ n.mode = job[j].mode
      BY <1>2, <1>3 DEF Jobs
  <2> HIDE DEF n
  <2>3. Good(venue, j, n)
      BY <1>4 DEF a, n
  <2>4. Moves(j, n)
      BY <1>2, <2>1, <2>2, <2>3, MovesOn
  <2> QED
      BY <2>1, <2>4 DEF Effect, Spends
<1>6. CASE GoOn(j, job[j])
  <2> DEFINE q == [job[j] EXCEPT !.at = @ + 1]
             P == Code(venue, job[j].of)
  <2>1. job' = [job EXCEPT ![j] = q] /\ spent' = spent
      BY <1>6 DEF GoOn
  <2>2. /\ q \in Jobs(venue) /\ q.at = job[j].at + 1 /\ q.of = job[j].of
        /\ q.old = job[j].old /\ q.mode = job[j].mode /\ q.reply = job[j].reply
        /\ q.answers = job[j].answers /\ q.answer = job[j].answer
        /\ q.acted = job[j].acted /\ q.failed = job[j].failed
      BY <1>2 DEF Jobs
  <2>3. /\ Formed(P) /\ job[j].at \in Positions(P) /\ job[j].mode \in Active
        /\ j # Boot /\ job[j].of \notin {"none", "boot", "update"}
        /\ (P \notin AnsweredTwice => job[j].answers = 0)
        /\ (job[j].answers = 0 => job[j].answer = "none")
        /\ (P \notin Unchecked => ~job[j].acted /\ job[j].reply \in {"fine", "odd"}
                                  /\ job[j].answer # "success")
      BY <1>2, UnderWay, Shapes, ExecutorAssumption DEF Doing, Active
  <2>4. Len(P) \in Nat /\ job[j].at + 1 \in Positions(P)
      BY <1>2, <2>3 DEF Formed, Positions, Ending, Doing
  <2>5. P \notin Unchecked /\ job[j].answer = "refused" =>
            \A k \in Positions(P) : ~Orders(P, k)
      BY <1>2, <2>3 DEF Good, True, Doing
  <2> HIDE DEF q
  <2>6. Typed(venue, j, q)
    <3>1. q.mode = "task" => \E k \in 1 .. q.at - 1 : P[k].do = "task"
        BY <1>2, <2>2, <2>3 DEF Good, Typed
    <3> QED
        BY <1>2, <2>2, <2>3, <2>4, <3>1 DEF Typed
  <2>7. Once(venue, q)
      BY <1>2, <2>2, <2>3 DEF Once
  <2>8. True(venue, q)
      BY <1>2, <2>2, <2>3, <2>5 DEF True
  <2>9. Moves(j, q)
      BY <1>2, <2>1, <2>2, <2>6, <2>7, <2>8, MovesOn DEF Good
  <2> QED
      BY <2>1, <2>9 DEF Effect, Spends
<1> QED
    BY <1>5, <1>6 DEF Warns

LEMMA LeavesHere ==
    ASSUME Suits(venue), Base, NEW j \in Everyone, Leaves(j)
    PROVE  Effect(j)
<1> DEFINE q == [job[j] EXCEPT !.mode = "task", !.at = @ + 1]
           p == [job[j] EXCEPT !.at = @ + 1]
<1>1. Runs(j, "task") /\ spent' = spent
    BY DEF Leaves
<1>2. /\ Good(venue, j, job[j]) /\ job[j].mode \in {"actor", "task"}
      /\ job[j] \in Jobs(venue) /\ job[j].at \in Nat /\ Doing(j).do = "task"
      /\ job[j].of \in Requests(venue) /\ j \in Slots
    BY <1>1, RunsFacts, ListSteps
<1>3. Good(venue, j, q)
    BY <1>2, Departs DEF Doing
<1>4. job' = [job EXCEPT ![j] = q]
    BY DEF Leaves
<1>5. p \in Jobs(venue) /\ p.at = job[j].at + 1 /\ p.of = job[j].of /\ p.old = job[j].old
    BY <1>2 DEF Jobs
<1>6. q = [p EXCEPT !.mode = "task"]
    BY <1>2 DEF Jobs
<1> HIDE DEF p, q
<1>7. q.at = job[j].at + 1 /\ q.of = job[j].of /\ q.old = job[j].old /\ q.mode = "task"
    BY <1>5, <1>6 DEF Jobs
<1>8. Moves(j, q)
    BY <1>2, <1>3, <1>4, <1>7, MovesOn
<1> QED
    BY <1>1, <1>8 DEF Effect, Spends

LEMMA SendsHere ==
    ASSUME Suits(venue), Base, NEW j \in Everyone, Sends(j)
    PROVE  Effect(j)
<1> DEFINE q == [job[j] EXCEPT !.mode = "await"]
<1>1. Runs(j, "future") /\ spent' = spent
    BY DEF Sends
<1>2. /\ Good(venue, j, job[j]) /\ job[j].mode \in {"actor", "task"}
      /\ job[j] \in Jobs(venue) /\ Doing(j).do = "future"
      /\ job[j].of \in Requests(venue) /\ j \in Slots /\ j # Boot
    BY <1>1, RunsFacts, ListSteps
<1>3. Good(venue, j, q)
    BY <1>2, Awaits DEF Doing
<1>4. job' = [job EXCEPT ![j] = q]
    BY DEF Sends
<1>5. q.at = job[j].at /\ q.of = job[j].of /\ q.old = job[j].old /\ q.mode = "await"
    BY <1>2 DEF Jobs
<1> HIDE DEF q
<1>6. Moves(j, q)
    BY <1>2, <1>3, <1>4, <1>5 DEF Moves, On
<1> QED
    BY <1>1, <1>6 DEF Effect, Spends

LEMMA SkipsHere ==
    ASSUME Suits(venue), Base, NEW j \in Everyone, Skips(j)
    PROVE  Effect(j)
<1> DEFINE P == Code(venue, job[j].of)
<1>1. Runs(j, "skip")
    BY DEF Skips
<1>2. /\ Good(venue, j, job[j]) /\ job[j].mode \in {"actor", "task"}
      /\ job[j] \in Jobs(venue) /\ job[j].at \in Nat /\ Doing(j).do = "skip"
      /\ job[j].of \in Requests(venue) /\ j \in Slots /\ j # Boot
      /\ StepOf(j) = Doing(j) /\ job[j].at \in Positions(P)
    BY <1>1, RunsFacts, ListSteps
<1>3. Doing(j).count \in Nat
    BY <1>2, Shapes DEF Formed, Doing
<1>4. CASE GoOn(j, job[j])
  <2> DEFINE q == [job[j] EXCEPT !.at = @ + 1]
  <2>1. job' = [job EXCEPT ![j] = q] /\ spent' = spent
      BY <1>4 DEF GoOn
  <2>2. q = [job[j] EXCEPT !.at = job[j].at + 1]
      OBVIOUS
  <2>3. Good(venue, j, q)
      BY <1>2, SkipsOver DEF Doing
  <2>4. q.at = job[j].at + 1 /\ q.of = job[j].of /\ q.old = job[j].old /\ q.mode = job[j].mode
      BY <1>2 DEF Jobs
  <2> HIDE DEF q
  <2>5. Moves(j, q)
      BY <1>2, <2>1, <2>3, <2>4, MovesOn
  <2> QED
      BY <2>1, <2>5 DEF Effect, Spends
<1>5. CASE GoOn(j, [job[j] EXCEPT !.at = @ + StepOf(j).count])
  <2> DEFINE n == job[j].at + Doing(j).count + 1
             q == [job[j] EXCEPT !.at = n]
             p == [job[j] EXCEPT !.at = @ + Doing(j).count]
  <2>1. job' = [job EXCEPT ![j] = [p EXCEPT !.at = @ + 1]] /\ spent' = spent
      BY <1>2, <1>5 DEF GoOn
  <2>2. [p EXCEPT !.at = @ + 1] = q
      BY <1>2, <1>3 DEF Jobs
  <2>3. Good(venue, j, q)
      BY <1>2, SkipsOver DEF Doing
  <2>4. q.at = n /\ q.of = job[j].of /\ q.old = job[j].old /\ q.mode = job[j].mode
      BY <1>2 DEF Jobs
  <2>5. \A l \in Followed(venue) : After(P, n, l) => After(P, job[j].at, l)
      BY <1>2 DEF Suits, LooksFirst, Doing
  <2> HIDE DEF q, n
  <2>6. Moves(j, q)
      BY <1>2, <2>1, <2>2, <2>3, <2>4, <2>5 DEF Moves, On
  <2> QED
      BY <2>1, <2>6 DEF Effect, Spends
<1> QED
    BY <1>4, <1>5 DEF Skips

LEMMA CountHere ==
    ASSUME Suits(venue), Base, NEW j \in Everyone, NEW what \in {"take", "wait"}, Runs(j, what),
           what = "wait" => job[j].old \/ spent[Doing(j).limit] < Capacity[Doing(j).limit],
           Count(j, Doing(j).limit)
    PROVE  Effect(j)
<1> DEFINE w == job[j].version
<1>1. /\ Doing(j).do = what /\ job[j].at \in Positions(Code(venue, job[j].of))
      /\ job[j].of \in Requests(venue) \cup {"boot", "update"}
    BY RunsFacts
<1>2. Doing(j).limit \in Limits
    BY <1>1, Shapes DEF Formed, Doing
<1>3. w \in 0 .. MaxVersions /\ Onward(j, w)
    BY SameVersion DEF Count, Onward
<1> HIDE DEF w
<1>4. \E q : Moves(j, q)
    BY <1>3, GoOnHere
<1>5. Spends(j)
    BY <1>1, <1>2 DEF Spends, Count, On
<1> QED
    BY <1>4, <1>5 DEF Effect

LEMMA MeasuresHere ==
    ASSUME Suits(venue), Base, NEW j \in Everyone, Measures(j)
    PROVE  Effect(j)
<1>1. Runs(j, "measure") /\ GoOn(j, [job[j] EXCEPT !.version = held])
    BY DEF Measures
<1>2. job[j] \in Jobs(venue) /\ job[j].at \in Nat
    BY <1>1, RunsFacts
<1>3. [[job[j] EXCEPT !.version = held] EXCEPT !.at = @ + 1]
        = [job[j] EXCEPT !.at = @ + 1, !.version = held]
    BY <1>2 DEF Jobs
<1>4. job' = [job EXCEPT ![j] = [job[j] EXCEPT !.at = @ + 1, !.version = held]]
      /\ spent' = spent
    BY <1>1, <1>3 DEF GoOn
<1>5. held \in 0 .. MaxVersions
    BY DEF Base, Globals
<1>6. \E q : Moves(j, q)
  <2>1. Onward(j, held)
      BY <1>4 DEF Onward
  <2> QED
      BY <1>1, <1>5, <2>1, GoOnHere
<1> QED
    BY <1>4, <1>6 DEF Effect, Spends

\* Every step of a job is one of these.
LEMMA StepHere ==
    ASSUME Suits(venue), Base, NEW j \in Everyone, Step(j)
    PROVE  Effect(j)
<1>1. ASSUME NEW what, Runs(j, what)
      PROVE  StepOf(j) = Doing(j) /\ Doing(j).do = what
    BY <1>1, RunsFacts
<1>2. CASE Checks(j)
    BY <1>2, GoesOnHere, RefusesHere DEF Checks
<1>3. CASE Warns(j)
    BY <1>3, WarnsHere
<1>4. CASE Crashes(j)
    BY <1>4, CrashHere
<1>5. CASE Builds(j)
    BY <1>5, GoesOnHere, FailsHere DEF Builds
<1>6. CASE Ignores(j)
  <2>1. Runs(j, "ignore") /\ End(j, job[j])
      BY <1>6 DEF Ignores
  <2>2. /\ Good(venue, j, job[j]) /\ job[j] \in Jobs(venue) /\ Doing(j).do = "ignore"
        /\ job[j].of \in Requests(venue) /\ j \in Slots /\ job[j].mode \in Active
      BY <2>1, RunsFacts, ListSteps
  <2>3. Good(venue, j, Closed(job[j]))
      BY <2>2, IsIgnored DEF Doing
  <2>4. spent' = spent
      BY <2>1 DEF End
  <2> QED
      BY <2>1, <2>2, <2>3, <2>4, MovesToEnd DEF Effect, Spends
<1>7. CASE Declines(j)
    BY <1>7, RefusesHere DEF Declines
<1>8. CASE Succeeds(j)
    BY <1>8, SucceedsHere DEF Succeeds
<1>9. CASE Looks(j)
  <2>1. Runs(j, "free") /\ StepOf(j) = Doing(j)
      BY <1>1, <1>9 DEF Looks
  <2>2. \/ /\ GoOn(j, job[j])
           /\ ~(spent[Doing(j).limit] >= Capacity[Doing(j).limit]) \/ job[j].old
        \/ Refused(j, job[j], "refused")
      BY <1>9, <2>1 DEF Looks
  <2>3. ~(spent[Doing(j).limit] >= Capacity[Doing(j).limit]) =>
            spent[Doing(j).limit] < Capacity[Doing(j).limit]
    <3>1. /\ Doing(j).do = "free" /\ job[j].at \in Positions(Code(venue, job[j].of))
          /\ job[j].of \in Requests(venue) \cup {"boot", "update"}
        BY <2>1, RunsFacts
    <3>2. Doing(j).limit \in Limits
        BY <3>1, Shapes DEF Formed, Doing
    <3>3. spent[Doing(j).limit] \in Nat /\ Capacity[Doing(j).limit] \in Nat
        BY <3>2, ExecutorAssumption DEF Base, Globals, Limits
    <3> QED
        BY <3>3
  <2> QED
      BY <2>1, <2>2, <2>3, GoesOnHere, RefusesHere
<1>10. CASE Takes(j)
  <2>1. Runs(j, "take") /\ Count(j, Doing(j).limit)
      BY <1>1, <1>10 DEF Takes
  <2> QED
      BY <2>1, CountHere
<1>11. CASE Waits(j)
  <2>1. /\ Runs(j, "wait") /\ Count(j, Doing(j).limit)
        /\ job[j].old \/ spent[Doing(j).limit] < Capacity[Doing(j).limit]
      BY <1>1, <1>11 DEF Waits
  <2> QED
      BY <2>1, CountHere
<1>12. CASE Leaves(j)
    BY <1>12, LeavesHere
<1>13. CASE Skips(j)
    BY <1>13, SkipsHere
<1>14. CASE Queries(j)
    BY <1>14, QueriesHere
<1>15. CASE Sends(j)
    BY <1>15, SendsHere
<1>16. CASE JudgesAgain(j)
    BY <1>16, JudgesAgainHere
<1>17. CASE AsksRegistry(j)
    BY <1>17, GoesOnHere, RefusesHere DEF AsksRegistry
<1>18. CASE SyncSecurities(j)
  <2> DEFINE w == job[j].version
             what == "sync"
  <2>1. Runs(j, what) /\ what = "sync"
      BY <1>18 DEF SyncSecurities
  <2>2. w \in 0 .. MaxVersions /\ Onward(j, w) /\ spent' = spent
      BY <1>18, <2>1, SameVersion DEF SyncSecurities, Onward
  <2> HIDE DEF w, what
  <2>3. \E q : Moves(j, q)
      BY <2>1, <2>2, GoOnHere
  <2> QED
      BY <2>2, <2>3 DEF Effect, Spends
<1>19. CASE Publishes(j)
    BY <1>19, SucceedsHere DEF Publishes
<1>20. CASE Measures(j)
    BY <1>20, MeasuresHere
<1>21. CASE Copies(j)
    BY <1>21, FailsHere, SucceedsHere DEF Copies
<1> QED
    BY <1>2, <1>3, <1>4, <1>5, <1>6, <1>7, <1>8, <1>9, <1>10, <1>11, <1>12, <1>13,
       <1>14, <1>15, <1>16, <1>17, <1>18, <1>19, <1>20, <1>21 DEF Step

(***************************************************************************)
(* The invariant is kept: by a job's step.                                  *)
(***************************************************************************)
\* What j may become when it moves.
LEMMA BaseHere ==
    ASSUME Suits(venue), Base, NEW j \in Everyone, job[j].mode \in Active, Effect(j),
           venue' = venue
    PROVE  (\A k \in Everyone : Good(venue, k, job[k]))' /\ BootsAlone' /\ OneActor'
<1>1. Boot \notin Slots /\ Boot \in Everyone /\ \A k \in Slots : k \in Everyone
    BY ExecutorAssumption DEF Everyone
<1>2. CASE Restarts
  <2>1. (\A k \in Everyone : Good(venue, k, job[k]))'
      BY <1>2 DEF Restarts, Everyone
  <2>2. BootsAlone' /\ OneActor'
      BY <1>2 DEF Restarts, BootsAlone, OneActor, Everyone
  <2> QED
      BY <2>1, <2>2
<1>3. ASSUME NEW q, Moves(j, q)
      PROVE  (\A k \in Everyone : Good(venue, k, job[k]))' /\ BootsAlone' /\ OneActor'
  <2>1. /\ DOMAIN job = Everyone /\ job'[j] = q
        /\ \A k \in Everyone \ {j} : job'[k] = job[k]
      BY <1>3 DEF Moves, Base, Globals
  <2>2. (\A k \in Everyone : Good(venue, k, job[k]))'
      BY <1>3, <2>1 DEF Moves, Base, Everyone
  <2>3. job'[j].mode = "actor" => \A k \in Everyone \ {j} : job[k].mode # "actor"
      BY <1>3, <2>1 DEF Moves, Working, Base, OneActor
  <2>4. OneActor'
    <3>1. ASSUME NEW m \in Everyone, NEW k \in Everyone,
                 job'[m].mode = "actor", job'[k].mode = "actor"
          PROVE  m = k
        BY <2>1, <2>3, <3>1 DEF Base, OneActor
    <3> QED
        BY <3>1 DEF OneActor, Everyone
  <2>5. BootsAlone'
    <3> SUFFICES ASSUME job'[Boot].mode = "actor", NEW k \in Slots,
                        job'[k].mode \notin {"idle", "over"}
        PROVE  job'[k].old
        BY DEF BootsAlone
    <3>1. job[Boot].mode = "actor"
        BY <1>1, <2>1 DEF Base, Good, Typed, Active
    <3>2. CASE k = j
      <4>1. q.mode \in Active /\ job[j].old
          BY <1>1, <2>1, <2>2, <3>1, <3>2 DEF Base, BootsAlone, Good, Typed, Jobs, Modes, Active
      <4> QED
          BY <1>3, <2>1, <3>2, <4>1 DEF Moves
    <3>3. CASE k # j
        BY <1>1, <2>1, <3>1, <3>3 DEF Base, BootsAlone
    <3> QED
        BY <3>2, <3>3
  <2> QED
      BY <2>2, <2>4, <2>5
<1> QED
    BY <1>2, <1>3 DEF Effect

\* Those that look: none at its first step, and no more than there are slots.
LEMMA NotYet ==
    ASSUME NEW P, NEW l
    PROVE  ~After(P, 1, l)
BY DEF After

LEMMA LookingSet ==
    ASSUME Base, NEW l
    PROVE  /\ Looking(l) \subseteq Everyone
           /\ Boot \in Looking(l) => Looking(l) = {Boot}
           /\ \/ Looking(l) = {Boot} \/ Looking(l) \subseteq Slots
<1>1. Boot \in Looking(l) => job[Boot].mode = "actor"
    BY DEF Looking, Base, Good, Typed, Active
<1>2. \A k \in Slots : k \in Looking(l) => /\ job[k].mode \notin {"idle", "over"}
                                             /\ ~job[k].old
    BY DEF Looking, Active
<1> QED
    BY <1>1, <1>2 DEF Base, BootsAlone, Looking, Everyone

LEMMA LookingFew ==
    ASSUME NEW S, S = {Boot} \/ S \subseteq Slots
    PROVE  /\ IsFiniteSet(S) /\ Cardinality(S) \in Nat
           /\ Cardinality(Slots) \in Nat \ {0} /\ Cardinality(S) <= Cardinality(Slots)
<1>1. IsFiniteSet(Slots) /\ Slots # {}
    BY ExecutorAssumption
<1>2. Cardinality(Slots) \in Nat \ {0}
    BY <1>1, FS_CardinalityType, FS_EmptySet
<1>3. CASE S = {Boot}
  <2>1. IsFiniteSet({Boot}) /\ Cardinality({Boot}) = 1
      BY FS_Singleton
  <2> QED
      BY <1>2, <1>3, <2>1
<1>4. CASE S \subseteq Slots
  <2>1. IsFiniteSet(S) /\ Cardinality(S) <= Cardinality(Slots)
      BY <1>1, <1>4, FS_Subset
  <2> QED
      BY <1>2, <2>1, FS_CardinalityType
<1> QED
    BY <1>3, <1>4

\* What a count may become.
LEMMA SpendsHere ==
    ASSUME Base, NEW j, Spends(j), NEW l \in Limits
    PROVE  \/ spent'[l] = spent[l]
           \/ /\ spent'[l] = spent[l] + 1 /\ ~job[j].old
              /\ On(Doing(j), {"take", "wait"}, l)
              /\ Doing(j).do = "wait" => spent[l] < Capacity[l]
<1>1. CASE spent' = spent
    BY <1>1
<1>2. ASSUME NEW k \in Limits, On(Doing(j), {"take", "wait"}, k),
             Doing(j).do = "wait" => job[j].old \/ spent[k] < Capacity[k],
             spent' = IF job[j].old \/ spent[k] = MaxCounted[k] THEN spent
                      ELSE [spent EXCEPT ![k] = @ + 1]
      PROVE  \/ spent'[l] = spent[l]
             \/ /\ spent'[l] = spent[l] + 1 /\ ~job[j].old
                /\ On(Doing(j), {"take", "wait"}, l)
                /\ Doing(j).do = "wait" => spent[l] < Capacity[l]
  <2>1. DOMAIN spent = Limits
      BY DEF Base, Globals
  <2>2. CASE job[j].old \/ spent[k] = MaxCounted[k]
      BY <1>2, <2>2
  <2>3. CASE ~(job[j].old \/ spent[k] = MaxCounted[k])
    <3>1. spent'[l] = IF l = k THEN spent[l] + 1 ELSE spent[l]
        BY <1>2, <2>1, <2>3
    <3> QED
        BY <1>2, <2>3, <3>1
  <2> QED
      BY <2>2, <2>3
<1> QED
    BY <1>1, <1>2 DEF Spends

\* A query is counted after a look, by the boot perhaps as the first.
LEMMA TakesLooked ==
    ASSUME Suits(venue), Base, NEW j \in Everyone, job[j].mode \in Active, ~job[j].old,
           NEW l \in Followed(venue), On(Doing(j), {"take"}, l)
    PROVE  \/ j \in Looking(l)
           \/ j = Boot /\ First(Code(venue, "boot"), job[Boot].at, l)
<1>1. /\ job[j].at \in Positions(Code(venue, job[j].of))
      /\ job[j].of \in Requests(venue) \cup {"boot", "update"}
      /\ job[j].of = "boot" <=> j = Boot
    BY DEF Base, Good, Typed, Jobs, Active
<1>2. CASE job[j].of = "boot"
    BY <1>1, <1>2 DEF Suits, BootLooks, Looking, Doing
<1>3. CASE job[j].of # "boot"
  <2>1. LooksFirst(Code(venue, job[j].of), l)
      BY <1>1, <1>3 DEF Suits
  <2> QED
      BY <1>1, <2>1 DEF LooksFirst, Looking, Doing
<1> QED
    BY <1>2, <1>3

LEMMA Subtracted ==
    ASSUME NEW S, IsFiniteSet(S), NEW j \in S
    PROVE  /\ IsFiniteSet(S \ {j}) /\ Cardinality(S \ {j}) = Cardinality(S) - 1
           /\ Cardinality(S) \in Nat
<1>1. Cardinality(S) \in Nat
    BY FS_CardinalityType
<1>2. IsFiniteSet(S \ {j})
        /\ Cardinality(S \ {j}) = (IF j \in S THEN Cardinality(S) - 1 ELSE Cardinality(S))
    BY FS_RemoveElement
<1> QED
    BY <1>1, <1>2

\* While the boot is under way no other job looks.
LEMMA BootLooksAlone ==
    ASSUME Base, NEW l
    PROVE  /\ job[Boot].mode \in Active => Looking(l) \subseteq {Boot}
           /\ \A j \in Slots : job[j].mode \in Active /\ ~job[j].old => Boot \notin Looking(l)
<1>1. job[Boot].mode \in Active => job[Boot].mode = "actor"
    BY DEF Base, Good, Typed, Active, Everyone
<1>2. job[Boot].mode = "actor" =>
        \A k \in Slots : job[k].mode \notin Active \/ job[k].old
    BY DEF Base, BootsAlone, Active
<1> QED
    BY <1>1, <1>2 DEF Looking, Everyone

\* After a restart nobody has looked.
LEMMA RestartsLook ==
    ASSUME Base, Restarts, venue' = venue, NEW l
    PROVE  Cardinality(Looking(l)') = 0
<1>1. ~After(Code(venue, "boot"), 1, l)
    BY NotYet
<1>2. job'[Boot].at = 1 /\ job'[Boot].of = "boot"
    BY DEF Restarts, Job
<1>3. Looking(l)' = {}
    BY <1>1, <1>2 DEF Looking, Restarts, Active, Everyone
<1> QED
    BY <1>3, FS_EmptySet

\* Who looks after a move.
LEMMA MovesLook ==
    ASSUME Base, NEW j \in Everyone, job[j].mode \in Active, NEW q, Moves(j, q),
           venue' = venue, NEW l \in Followed(venue)
    PROVE  /\ Looking(l)' \ {j} = Looking(l) \ {j}
           /\ j \in Looking(l)' => /\ ~On(Doing(j), {"take", "wait"}, l)
                                  /\ (spent[l] < Capacity[l] \/ j \in Looking(l))
<1>1. /\ DOMAIN job = Everyone /\ job'[j] = q
      /\ \A k \in Everyone \ {j} : job'[k] = job[k]
    BY DEF Moves, Base, Globals
<1>2. Looking(l)' \ {j} = Looking(l) \ {j}
    BY <1>1 DEF Looking, Everyone
<1>3. ASSUME j \in Looking(l)'
      PROVE  /\ ~On(Doing(j), {"take", "wait"}, l)
             /\ (spent[l] < Capacity[l] \/ j \in Looking(l))
  <2>1. q.mode \in Active /\ ~q.old /\ After(Code(venue, q.of), q.at, l)
      BY <1>1, <1>3 DEF Looking
  <2>2. q.of = job[j].of /\ q.old = job[j].old
      BY <2>1 DEF Moves
  <2> QED
      BY <2>1, <2>2 DEF Moves, Looking
<1> QED
    BY <1>2, <1>3

LEMMA CountedHere ==
    ASSUME Suits(venue), Base, Counted, NEW j \in Everyone, job[j].mode \in Active, Effect(j),
           venue' = venue, Base'
    PROVE  Counted'
<1> SUFFICES ASSUME NEW l \in Followed(venue)
    PROVE  /\ spent'[l] + Cardinality(Looking(l)') < Capacity[l] + Cardinality(Slots)
           /\ job'[Boot].mode = "actor" /\ First(Code(venue, "boot"), job'[Boot].at, l) =>
                spent'[l] = 0
    BY DEF Counted
<1>1. /\ l \in Limits /\ Capacity[l] \in Nat \ {0}
      /\ spent[l] \in Nat /\ spent'[l] \in Nat
      /\ Boot \notin Slots
    BY ExecutorAssumption DEF Followed, Base, Globals, Limits
<1>2. /\ Looking(l) = {Boot} \/ Looking(l) \subseteq Slots
      /\ Looking(l)' = {Boot} \/ Looking(l)' \subseteq Slots
      /\ Boot \in Looking(l) => Looking(l) = {Boot}
    <2>1. (Looking(l) = {Boot} \/ Looking(l) \subseteq Slots)'
        BY LookingSet, PTL
    <2> QED
        BY <2>1, LookingSet
<1>3. /\ IsFiniteSet(Looking(l)) /\ Cardinality(Looking(l)) \in Nat
      /\ IsFiniteSet(Looking(l)') /\ Cardinality(Looking(l)') \in Nat
      /\ Cardinality(Looking(l)') <= Cardinality(Slots)
      /\ Cardinality(Slots) \in Nat \ {0}
    BY <1>2, LookingFew
<1>4. spent[l] + Cardinality(Looking(l)) < Capacity[l] + Cardinality(Slots)
    BY DEF Counted
<1>5. CASE Restarts
  <2>1. spent'[l] = 0
      BY <1>1, <1>5 DEF Restarts
  <2> QED
      BY <1>1, <1>3, <1>4, <1>5, <2>1, RestartsLook
<1>6. ASSUME NEW q, Moves(j, q), Spends(j)
      PROVE  /\ spent'[l] + Cardinality(Looking(l)') < Capacity[l] + Cardinality(Slots)
             /\ job'[Boot].mode = "actor" /\ First(Code(venue, "boot"), job'[Boot].at, l) =>
                  spent'[l] = 0
  <2>1. /\ Looking(l)' \ {j} = Looking(l) \ {j}
        /\ j \in Looking(l)' => /\ ~On(Doing(j), {"take", "wait"}, l)
                               /\ (spent[l] < Capacity[l] \/ j \in Looking(l))
      BY <1>6, MovesLook
  <2>2. \/ spent'[l] = spent[l]
        \/ /\ spent'[l] = spent[l] + 1 /\ ~job[j].old
           /\ On(Doing(j), {"take", "wait"}, l)
           /\ Doing(j).do = "wait" => spent[l] < Capacity[l]
      BY <1>1, <1>6, SpendsHere
  <2>3. spent'[l] + Cardinality(Looking(l)') < Capacity[l] + Cardinality(Slots)
    <3>1. CASE j \in Looking(l)' /\ j \notin Looking(l)
        BY <1>1, <1>3, <2>1, <2>2, <3>1
    <3>2. CASE j \in Looking(l)' /\ j \in Looking(l)
      <4>1. Looking(l)' = Looking(l)
          BY <2>1, <3>2
      <4> QED
          BY <1>4, <2>1, <2>2, <3>2, <4>1
    <3>3. CASE j \notin Looking(l)' /\ j \in Looking(l)
      <4>1. Looking(l)' = Looking(l) \ {j}
          BY <2>1, <3>3
      <4>2. Cardinality(Looking(l)') = Cardinality(Looking(l)) - 1
          BY <1>3, <3>3, <4>1, Subtracted
      <4> QED
          BY <1>1, <1>3, <1>4, <2>2, <4>2
    <3>4. CASE j \notin Looking(l)' /\ j \notin Looking(l) /\ spent'[l] = spent[l]
      <4>1. Looking(l)' = Looking(l)
          BY <2>1, <3>4
      <4> QED
          BY <1>4, <3>4, <4>1
    <3>5. CASE j \notin Looking(l)' /\ j \notin Looking(l) /\ spent'[l] = spent[l] + 1
      <4>1. ~job[j].old /\ On(Doing(j), {"take", "wait"}, l)
            /\ (Doing(j).do = "wait" => spent[l] < Capacity[l])
          BY <1>1, <2>2, <3>5
      <4>2. CASE Doing(j).do = "wait"
        <5>1. Cardinality(Looking(l)') < Cardinality(Slots)
          <6>1. CASE j = Boot
            <7>1. Looking(l)' = {}
                BY <1>1, <1>2, <2>1, <3>5, <6>1, BootLooksAlone
            <7> QED
                BY <1>3, <7>1, FS_EmptySet
          <6>2. CASE j # Boot
            <7>1. Looking(l)' \subseteq Slots \ {j} /\ j \in Slots
                BY <1>2, <2>1, <3>5, <4>1, <6>2, BootLooksAlone DEF Everyone
            <7>2. IsFiniteSet(Slots)
                BY ExecutorAssumption
            <7>3. IsFiniteSet(Slots \ {j}) /\ Cardinality(Slots \ {j}) = Cardinality(Slots) - 1
                BY <7>1, <7>2, Subtracted
            <7>4. Cardinality(Looking(l)') <= Cardinality(Slots \ {j})
                BY <7>1, <7>3, FS_Subset
            <7> QED
                BY <1>3, <7>3, <7>4
          <6> QED
              BY <6>1, <6>2
        <5> QED
            BY <1>1, <1>3, <3>5, <4>1, <4>2, <5>1
      <4>3. CASE Doing(j).do # "wait"
        <5>1. On(Doing(j), {"take"}, l)
            BY <4>1, <4>3 DEF On
        <5>2. j = Boot /\ First(Code(venue, "boot"), job[Boot].at, l)
            BY <3>5, <4>1, <5>1, TakesLooked
        <5>3. job[Boot].mode = "actor"
            BY <5>2 DEF Base, Good, Typed, Active
        <5>4. spent[l] = 0
            BY <5>2, <5>3 DEF Counted
        <5>5. Looking(l)' = {}
            BY <1>1, <1>2, <2>1, <3>5, <5>2, <5>3, BootLooksAlone
        <5>6. Cardinality(Looking(l)') = 0
            BY <5>5, FS_EmptySet
        <5> QED
            BY <1>1, <1>3, <3>5, <5>4, <5>6
      <4> QED
          BY <4>2, <4>3
    <3> QED
        BY <2>2, <3>1, <3>2, <3>3, <3>4, <3>5
  <2>4. ASSUME job'[Boot].mode = "actor", First(Code(venue, "boot"), job'[Boot].at, l)
        PROVE  spent'[l] = 0
    <3>1. CASE j = Boot
      <4>1. /\ job[Boot].mode = "actor" /\ job[Boot].of = "boot"
            /\ job[Boot].at \in Positions(Code(venue, "boot"))
            /\ job[Boot].at \in Nat \ {0}
          BY <3>1 DEF Base, Good, Typed, Active, Jobs
      <4>2. job'[Boot].at = job[Boot].at + 1
        <5>1. job'[Boot] = q
            BY <1>6, <3>1 DEF Moves, Base, Globals
        <5> QED
            BY <1>6, <2>4, <3>1, <5>1 DEF Moves, Active
      <4>3. First(Code(venue, "boot"), job[Boot].at, l) /\ ~On(Doing(j), {"take"}, l)
        <5>1. \A k \in 1 .. job[Boot].at : ~On(Code(venue, "boot")[k], {"take"}, l)
            BY <2>4, <4>1, <4>2 DEF First
        <5>2. \A k \in 1 .. job[Boot].at - 1 : k \in 1 .. job[Boot].at
            BY <4>1
        <5>3. job[Boot].at \in 1 .. job[Boot].at
            BY <4>1
        <5> QED
            BY <3>1, <4>1, <5>1, <5>2, <5>3 DEF First, Doing
      <4>4. Listing(Code(venue, "boot"))
          BY DEF Suits
      <4>5. Doing(j).do # "wait"
          BY <3>1, <4>1, <4>4 DEF Listing, Doing
      <4> QED
          BY <2>2, <4>1, <4>3, <4>5 DEF Counted, On
    <3>2. CASE j # Boot
      <4>1. job'[Boot] = job[Boot] /\ Boot \in Everyone
          BY <1>6, <3>2 DEF Moves, Base, Globals, Everyone
      <4>2. job[j].old
          BY <2>4, <3>2, <4>1 DEF Base, BootsAlone, Active, Everyone
      <4> QED
          BY <2>2, <2>4, <4>1, <4>2 DEF Counted
    <3> QED
        BY <3>1, <3>2
  <2> QED
      BY <2>3, <2>4
<1> QED
    BY <1>5, <1>6 DEF Effect

\* What the executor keeps, and what the venue and the parent do.
Kept ==
    /\ chains \in 0 .. MaxChains /\ listed \in 1 .. MaxVersions
    /\ held \in 0 .. MaxVersions /\ known \in 0 .. MaxVersions
    /\ posted \in Seq(0 .. MaxVersions)
    /\ faults \in 0 .. MaxFaults

Held == chains \in 0 .. MaxChains /\ held \in 0 .. MaxVersions

LEMMA HeldHere ==
    ASSUME Kept, NEW j, NEW r
    PROVE  /\ GoOn(j, r) \/ End(j, r) \/ Succeed(j, r) \/ Restart(r) => Held'
           /\ \A how : Refused(j, r, how) => Held'
           /\ \A verdict : Judged(j, r, verdict) => Held'
<1>1. MaxVersions \in Nat /\ MaxChains \in Nat
    BY ExecutorAssumption
<1>2. \A s : GoOn(j, s) => Held'
    BY DEF GoOn, Kept, Held
<1>3. \A s : End(j, s) => Held'
    BY DEF End, Kept, Held
<1>4. \A s : Restart(s) => Held'
    BY <1>1 DEF Restart, Kept, Held
<1>5. Booted => Held'
    BY <1>1 DEF Booted, Kept, Held
<1>6. \A s : Succeed(j, s) => Held'
    BY <1>3, <1>5 DEF Succeed
<1>7. \A s, how : Refused(j, s, how) => Held'
    BY <1>3, <1>4, <1>5 DEF Refused
<1>8. \A verdict : Judged(j, r, verdict) => Held'
    BY <1>2, <1>3, <1>7 DEF Judged
<1> QED
    BY <1>2, <1>3, <1>4, <1>6, <1>7, <1>8

LEMMA KeptReplied ==
    ASSUME Kept, NEW j, NEW reply, Replied(j, reply), UNCHANGED <<venue, lists>>
    PROVE  venue' = venue /\ Kept'
<1>1. Held'
    BY HeldHere DEF Replied
<1>2. faults' \in 0 .. MaxFaults
    BY ExecutorAssumption DEF Replied, Kept
<1> QED
    BY <1>1, <1>2 DEF Kept, Held, lists

LEMMA KeptHere ==
    ASSUME Suits(venue), Base, NEW j \in Everyone, Step(j)
    PROVE  venue' = venue /\ Kept'
<1>1. Kept /\ MaxVersions \in Nat /\ MaxFaults \in Nat /\ MaxChains \in Nat
    BY ExecutorAssumption DEF Base, Globals, Kept
<1>2. UNCHANGED <<venue, lists, faults>> /\ Held' => venue' = venue /\ Kept'
    BY <1>1 DEF lists, Kept, Held
<1>3. ASSUME faults < MaxFaults, faults' = faults + 1, UNCHANGED <<venue, lists>>, Held'
      PROVE  venue' = venue /\ Kept'
    BY <1>1, <1>3 DEF lists, Kept, Held
<1>4. UNCHANGED <<chains, held>> => Held'
    BY <1>1 DEF Kept, Held
<1>5. ASSUME NEW what, Runs(j, what)
      PROVE  job[j].version \in 0 .. MaxVersions
    BY <1>5, SameVersion
<1>6. CASE Checks(j)
    BY <1>1, <1>2, <1>6, HeldHere DEF Checks
<1>7. CASE Warns(j)
    BY <1>1, <1>2, <1>7, HeldHere DEF Warns
<1>8. CASE Crashes(j)
  <2>1. CASE job[j].answers = 0
    <3>1. Held'
        BY <1>1, <1>8, <2>1, HeldHere DEF Crashes
    <3> QED
        BY <1>1, <1>8, <2>1, <3>1 DEF Crashes, Kept, Held
  <2>2. CASE job[j].answers # 0
    <3>1. /\ chains' = 0 /\ held' = 0 /\ posted' = << >> /\ known' = 0
          /\ venue' = venue /\ listed' = listed /\ faults' = faults
        BY <1>8, <2>2 DEF Crashes
    <3>2. << >> \in Seq(0 .. MaxVersions)
        OBVIOUS
    <3> QED
        BY <1>1, <3>1, <3>2 DEF Kept
  <2> QED
      BY <2>1, <2>2
<1>9. CASE Builds(j)
  <2>1. CASE GoOn(j, job[j]) /\ UNCHANGED faults
      BY <1>1, <1>2, <1>9, <2>1, HeldHere DEF Builds
  <2>2. CASE /\ faults < MaxFaults /\ faults' = faults + 1
             /\ Restart([job EXCEPT ![j].mode = "over", ![j].failed = TRUE])
      BY <1>1, <1>3, <1>9, <2>2, HeldHere DEF Builds
  <2> QED
      BY <1>9, <2>1, <2>2 DEF Builds
<1>10. CASE Ignores(j) \/ Declines(j) \/ Succeeds(j)
    BY <1>1, <1>2, <1>10, HeldHere DEF Ignores, Declines, Succeeds
<1>11. CASE Looks(j)
    BY <1>1, <1>2, <1>11, HeldHere DEF Looks
<1>12. CASE Takes(j) \/ Waits(j) \/ Leaves(j) \/ Sends(j)
    BY <1>2, <1>4, <1>12 DEF Takes, Waits, Leaves, Sends, Count
<1>13. CASE Skips(j)
    BY <1>1, <1>2, <1>13, HeldHere DEF Skips
<1>14. CASE Queries(j)
    BY <1>1, <1>14, KeptReplied DEF Queries
<1>15. CASE JudgesAgain(j)
    BY <1>1, <1>2, <1>15, HeldHere DEF JudgesAgain
<1>16. CASE AsksRegistry(j)
  <2>1. CASE GoOn(j, job[j]) /\ UNCHANGED faults
      BY <1>1, <1>2, <1>16, <2>1, HeldHere DEF AsksRegistry
  <2>2. CASE faults < MaxFaults /\ faults' = faults + 1 /\ Refused(j, job[j], "refused")
      BY <1>1, <1>3, <1>16, <2>2, HeldHere DEF AsksRegistry
  <2> QED
      BY <1>16, <2>1, <2>2 DEF AsksRegistry
<1>17. CASE SyncSecurities(j)
  <2>1. held' \in 0 .. MaxVersions
      BY <1>1, <1>5, <1>17 DEF SyncSecurities, Kept
  <2> QED
      BY <1>1, <1>17, <2>1 DEF SyncSecurities, Kept, lists
<1>18. CASE Publishes(j)
  <2>1. Held' /\ job[j].version \in 0 .. MaxVersions
      BY <1>1, <1>5, <1>18, HeldHere DEF Publishes
  <2>2. posted' \in Seq(0 .. MaxVersions)
    <3>1. posted' = posted \/ posted' = Append(posted, job[j].version)
        BY <1>18 DEF Publishes
    <3>2. posted \in Seq(0 .. MaxVersions)
        BY <1>1 DEF Kept
    <3>3. \A V : posted \in Seq(V) /\ job[j].version \in V =>
                    Append(posted, job[j].version) \in Seq(V)
        OBVIOUS
    <3> QED
        BY <2>1, <3>1, <3>2, <3>3
  <2> QED
      BY <1>1, <1>18, <2>1, <2>2 DEF Publishes, Kept, Held
<1>19. CASE Measures(j)
    BY <1>1, <1>2, <1>19, HeldHere DEF Measures
<1>20. CASE Copies(j)
    BY <1>1, <1>2, <1>20, HeldHere DEF Copies
<1> QED
    BY <1>6, <1>7, <1>8, <1>9, <1>10, <1>11, <1>12, <1>13, <1>14, <1>15, <1>16, <1>17,
       <1>18, <1>19, <1>20 DEF Step

\* What is counted stays within its bound.
LEMMA SpentHere ==
    ASSUME Base, NEW j \in Everyone, Effect(j)
    PROVE  DOMAIN job' = Everyone /\ DOMAIN spent' = Limits
           /\ \A l \in Limits : spent'[l] \in 0 .. MaxCounted[l]
<1>1. /\ DOMAIN job = Everyone /\ DOMAIN spent = Limits
      /\ \A l \in Limits : spent[l] \in 0 .. MaxCounted[l] /\ MaxCounted[l] \in Nat
    BY ExecutorAssumption DEF Base, Globals, Limits
<1>2. CASE Restarts
    BY <1>1, <1>2 DEF Restarts
<1>3. ASSUME NEW q, Moves(j, q), Spends(j)
      PROVE  DOMAIN job' = Everyone /\ DOMAIN spent' = Limits
             /\ \A l \in Limits : spent'[l] \in 0 .. MaxCounted[l]
  <2>1. DOMAIN job' = Everyone
      BY <1>1, <1>3 DEF Moves
  <2>2. CASE spent' = spent
      BY <1>1, <2>1, <2>2
  <2>3. ASSUME NEW k \in Limits, spent[k] # MaxCounted[k],
               spent' = [spent EXCEPT ![k] = @ + 1]
        PROVE  DOMAIN spent' = Limits /\ \A l \in Limits : spent'[l] \in 0 .. MaxCounted[l]
    <3>1. ASSUME NEW l \in Limits PROVE spent'[l] \in 0 .. MaxCounted[l]
      <4>1. spent'[l] = IF l = k THEN spent[l] + 1 ELSE spent[l]
          BY <1>1, <2>3
      <4>2. spent[l] \in 0 .. MaxCounted[l] /\ MaxCounted[l] \in Nat
          BY <1>1
      <4> QED
          BY <2>3, <4>1, <4>2
    <3> QED
        BY <1>1, <2>3, <3>1
  <2> QED
      BY <1>3, <2>1, <2>2, <2>3 DEF Spends
<1> QED
    BY <1>2, <1>3 DEF Effect

(***************************************************************************)
(* By the world.                                                            *)
(***************************************************************************)
\* A job arrives where there was none, or goes where it was over.
Arrives(j, q) ==
    /\ job' = [job EXCEPT ![j] = q] /\ Good(venue, j, q)
    /\ q.mode \in {"idle", "actor", "task"}
    /\ q.mode # "idle" => q.at = 1 /\ ~Working

LEMMA ArrivesHere ==
    ASSUME Base, Counted, NEW j \in Slots, NEW q, Arrives(j, q),
           UNCHANGED <<venue, spent, chains, held, lists, faults>>
    PROVE  Base' /\ Counted'
<1>1. /\ DOMAIN job = Everyone /\ j \in Everyone /\ j # Boot /\ Boot \in Everyone
      /\ job'[j] = q /\ DOMAIN job' = Everyone
      /\ \A k \in Everyone \ {j} : job'[k] = job[k]
    BY ExecutorAssumption DEF Arrives, Base, Globals, Everyone
<1>2. Globals'
    BY <1>1 DEF Base, Globals, lists
<1>3. (\A k \in Everyone : Good(venue, k, job[k]))'
    BY <1>1 DEF Arrives, Base, Everyone
<1>4. BootsAlone'
    BY <1>1 DEF Arrives, Base, BootsAlone, Working, Everyone
<1>5. OneActor'
  <2> SUFFICES ASSUME NEW m \in Everyone, NEW k \in Everyone,
                      job'[m].mode = "actor", job'[k].mode = "actor"
      PROVE  m = k
      BY DEF OneActor, Everyone
  <2>1. q.mode = "actor" => \A n \in Everyone : job[n].mode # "actor"
      BY <1>1 DEF Arrives, Working
  <2> QED
      BY <1>1, <2>1 DEF Base, OneActor
<1>6. ASSUME NEW l \in Followed(venue)
      PROVE  /\ spent'[l] + Cardinality(Looking(l)') < Capacity[l] + Cardinality(Slots)
             /\ job'[Boot].mode = "actor" /\ First(Code(venue, "boot"), job'[Boot].at, l) =>
                    spent'[l] = 0
  <2>1. j \notin Looking(l)'
      BY <1>1, NotYet DEF Looking, Arrives, Active
  <2>2. Looking(l)' \subseteq Looking(l)
      BY <1>1, <2>1 DEF Looking, Everyone
  <2>3. /\ IsFiniteSet(Looking(l)) /\ Cardinality(Looking(l)) \in Nat
        /\ Cardinality(Slots) \in Nat
      BY LookingSet, LookingFew
  <2>4. Cardinality(Looking(l)') <= Cardinality(Looking(l)) /\ Cardinality(Looking(l)') \in Nat
      BY <2>2, <2>3, FS_Subset, FS_CardinalityType
  <2>5. spent[l] \in Nat /\ Capacity[l] \in Nat
      BY ExecutorAssumption DEF Followed, Base, Globals, Limits
  <2>6. spent[l] + Cardinality(Looking(l)) < Capacity[l] + Cardinality(Slots)
      BY DEF Counted
  <2> QED
      BY <1>1, <2>3, <2>4, <2>5, <2>6 DEF Counted
<1> QED
    BY <1>2, <1>3, <1>4, <1>5, <1>6 DEF Base, Counted

LEMMA WorldHere ==
    ASSUME Suits(venue), Base, Counted, NEW j \in Slots, Ask(j) \/ Forget(j) \/ Tick(j)
    PROVE  Base' /\ Counted'
<1>1. MaxVersions \in Nat /\ j \in Everyone
    BY ExecutorAssumption DEF Everyone
<1>2. CASE Ask(j)
  <2>1. PICK h \in Handlers[venue] : job' = [job EXCEPT ![j] = Job(h, "actor")]
      BY <1>2 DEF Ask
  <2>2. h \in Requests(venue)
    <3>1. venue \in DOMAIN Executors
        BY ExecutorAssumption DEF Base, Globals
    <3>2. \A R : {CHOOSE g \in DOMAIN R : R[g] = program :
                    program \in {R[g] : g \in DOMAIN R}} \subseteq DOMAIN R
        OBVIOUS
    <3> QED
        BY <2>1, <3>1, <3>2 DEF Handlers, Requests
  <2>3. Good(venue, j, Job(h, "actor"))
      BY <1>1, <2>2, Started
  <2>4. Job(h, "actor").mode = "actor" /\ Job(h, "actor").at = 1
      BY DEF Job
  <2> QED
      BY <1>2, <2>1, <2>3, <2>4, ArrivesHere DEF Ask, Arrives
<1>3. CASE Forget(j)
  <2>1. Good(venue, j, Idle) /\ Idle.mode = "idle"
      BY <1>1, Started DEF Idle, Job
  <2> QED
      BY <1>3, <2>1, ArrivesHere DEF Forget, Arrives
<1>4. CASE Tick(j)
  <2>1. /\ Good(venue, j, Job("update", "task")) /\ Job("update", "task").mode = "task"
        /\ Job("update", "task").at = 1
      BY <1>1, Started DEF Job
  <2> QED
      BY <1>4, <2>1, ArrivesHere DEF Tick, Arrives
<1> QED
    BY <1>2, <1>3, <1>4

\* The jobs stay as they are, and the counts fall, or stay too.
LEMMA StaysHere ==
    ASSUME Base, Counted, Kept', UNCHANGED <<venue, job>>, DOMAIN spent' = Limits,
           \A l \in Limits : spent'[l] \in {0, spent[l]}
    PROVE  Base' /\ Counted'
<1>1. \A l \in Limits : spent[l] \in Nat /\ spent'[l] \in 0 .. MaxCounted[l]
                        /\ spent'[l] \in Nat /\ spent'[l] <= spent[l] /\ Capacity[l] \in Nat
    BY ExecutorAssumption DEF Base, Globals, Limits
<1>2. Base'
    BY <1>1 DEF Base, Globals, Kept, Good, BootsAlone, OneActor
<1>3. ASSUME NEW l \in Followed(venue)
      PROVE  /\ spent'[l] + Cardinality(Looking(l)') < Capacity[l] + Cardinality(Slots)
             /\ job'[Boot].mode = "actor" /\ First(Code(venue, "boot"), job'[Boot].at, l) =>
                    spent'[l] = 0
  <2>1. l \in Limits
      BY DEF Followed
  <2>2. Looking(l)' = Looking(l)
      BY DEF Looking
  <2>3. Cardinality(Looking(l)) \in Nat /\ Cardinality(Slots) \in Nat
      BY LookingSet, LookingFew
  <2>4. /\ spent[l] + Cardinality(Looking(l)) < Capacity[l] + Cardinality(Slots)
        /\ job[Boot].mode = "actor" /\ First(Code(venue, "boot"), job[Boot].at, l) =>
                spent[l] = 0
      BY DEF Counted
  <2> QED
      BY <1>1, <2>1, <2>2, <2>3, <2>4
<1> QED
    BY <1>2, <1>3 DEF Counted

\* Every step keeps the invariant.
LEMMA NextHere ==
    ASSUME \A v \in Venues : Suits(v), Base, Counted, [Next]_vars
    PROVE  Base' /\ Counted'
<1>1. Suits(venue) /\ Kept /\ MaxVersions \in Nat
    BY SuitsHere, ExecutorAssumption DEF Base, Globals, Kept
<1>2. \A l \in Limits : spent[l] \in 0 .. MaxCounted[l]
    BY DEF Base, Globals
<1>3. ASSUME NEW j \in Everyone, job[j].mode \in Active, Effect(j), venue' = venue, Kept'
      PROVE  Base' /\ Counted'
  <2>1. /\ (\A k \in Everyone : Good(venue, k, job[k]))' /\ BootsAlone' /\ OneActor'
        /\ DOMAIN job' = Everyone /\ DOMAIN spent' = Limits
        /\ \A l \in Limits : spent'[l] \in 0 .. MaxCounted[l]
      BY <1>1, <1>3, BaseHere, SpentHere
  <2>2. Base'
      BY <1>3, <2>1 DEF Base, Globals, Kept
  <2> QED
      BY <1>1, <1>3, <2>2, CountedHere
<1>4. ASSUME NEW j \in Everyone, Step(j)
      PROVE  Base' /\ Counted'
  <2>1. job[j].mode \in Active
      BY <1>4 DEF Step, Checks, Warns, Crashes, Builds, Ignores, Declines, Succeeds, Looks,
                  Takes, Waits, Leaves, Skips, Queries, Sends, JudgesAgain, AsksRegistry,
                  SyncSecurities, Publishes, Measures, Copies, Runs, Active
  <2>2. Effect(j) /\ venue' = venue /\ Kept'
      BY <1>1, <1>4, StepHere, KeptHere
  <2> QED
      BY <1>3, <2>1, <2>2
<1>5. ASSUME NEW j \in Slots, ComesBack(j)
      PROVE  Base' /\ Counted'
  <2>1. j \in Everyone /\ job[j].mode \in Active
      BY <1>5 DEF ComesBack, Active, Everyone
  <2>2. Effect(j)
      BY <1>1, <1>5, ComesBackHere
  <2>3. venue' = venue /\ Kept'
      BY <1>1, <1>5, KeptReplied DEF ComesBack
  <2> QED
      BY <1>3, <2>1, <2>2, <2>3
<1>6. ASSUME NEW j \in Slots, Ask(j) \/ Forget(j) \/ Tick(j)
      PROVE  Base' /\ Counted'
    BY <1>1, <1>6, WorldHere
<1>7. ASSUME NEW l \in Limits, Window(l)
      PROVE  Base' /\ Counted'
  <2>1. DOMAIN spent = Limits
      BY DEF Base, Globals
  <2>2. DOMAIN spent' = Limits /\ \A k \in Limits : spent'[k] \in {0, spent[k]}
      BY <1>7, <2>1 DEF Window
  <2>3. Kept' /\ UNCHANGED <<venue, job>>
      BY <1>1, <1>7 DEF Window, Kept, lists
  <2> QED
      BY <2>2, <2>3, StaysHere
<1>8. ASSUME Kept', UNCHANGED <<venue, job, spent>>
      PROVE  Base' /\ Counted'
  <2>1. DOMAIN spent' = Limits /\ \A k \in Limits : spent'[k] \in {0, spent[k]}
      BY <1>8 DEF Base, Globals
  <2> QED
      BY <1>8, <2>1, StaysHere
<1>9. CASE Relist
    BY <1>1, <1>8, <1>9 DEF Relist, Kept
<1>10. CASE OnSecurityList
  <2>1. posted \in Seq(0 .. MaxVersions) /\ posted # << >>
      BY <1>1, <1>10 DEF OnSecurityList, Kept
  <2>2. \A V : posted \in Seq(V) => Head(posted) \in V /\ Tail(posted) \in Seq(V)
      BY <2>1
  <2>3. known' \in 0 .. MaxVersions /\ posted' \in Seq(0 .. MaxVersions)
    <3>1. known \in 0 .. MaxVersions
        BY <1>1 DEF Kept
    <3> QED
        BY <1>10, <2>1, <2>2, <3>1 DEF OnSecurityList
  <2>4. Kept' /\ UNCHANGED <<venue, job, spent>>
      BY <1>1, <1>10, <2>3 DEF OnSecurityList, Kept
  <2> QED
      BY <1>8, <2>4
<1>11. CASE UNCHANGED vars
    BY <1>1, <1>8, <1>11 DEF vars, Kept
<1> QED
    BY <1>4, <1>5, <1>6, <1>7, <1>9, <1>10, <1>11 DEF Next, Everyone

LEMMA InitHere ==
    ASSUME \A v \in Venues : Suits(v), Init
    PROVE  Base /\ Counted
<1>1. /\ Suits(venue) /\ MaxVersions \in Nat /\ MaxFaults \in Nat /\ MaxChains \in Nat
      /\ Boot \notin Slots
    BY ExecutorAssumption DEF Init
<1>2. /\ job = [j \in Everyone |-> IF j = Boot THEN Job("boot", "actor") ELSE Idle]
      /\ spent = [l \in Limits |-> 0]
    BY DEF Init, Everyone
<1>3. Globals
  <2>1. MaxVersions >= 1 /\ << >> \in Seq(0 .. MaxVersions)
      BY ExecutorAssumption
  <2>2. \A l \in Limits : 0 \in 0 .. MaxCounted[l]
      BY ExecutorAssumption DEF Limits
  <2>3. DOMAIN job = Everyone /\ DOMAIN spent = Limits /\ \A l \in Limits : spent[l] = 0
      BY <1>2
  <2> QED
      BY <1>1, <2>1, <2>2, <2>3 DEF Globals, Init
<1>4. ASSUME NEW j \in Everyone PROVE Good(venue, j, job[j])
    BY <1>1, <1>2, <1>4, Started DEF Everyone
<1>5. \A j \in Everyone : /\ j # Boot => job[j].mode = "idle"
                          /\ job[j].at = 1
                          /\ j = Boot => job[j].mode = "actor" /\ job[j].of = "boot"
    BY <1>2 DEF Job, Idle
<1>6. BootsAlone /\ OneActor
    BY <1>1, <1>5 DEF BootsAlone, OneActor, Everyone
<1>7. Counted
  <2> SUFFICES ASSUME NEW l \in Followed(venue)
      PROVE  /\ spent[l] = 0
             /\ Cardinality(Looking(l)) = 0 /\ Capacity[l] \in Nat \ {0}
             /\ Cardinality(Slots) \in Nat
      BY DEF Counted
  <2>1. l \in Limits
      BY DEF Followed
  <2>2. Looking(l) = {}
      BY <1>5, NotYet DEF Looking, Active
  <2>3. Cardinality(Looking(l)) = 0
      BY <2>2, FS_EmptySet
  <2>4. Cardinality(Slots) \in Nat
      BY LookingFew
  <2> QED
      BY <1>2, <2>1, <2>3, <2>4, ExecutorAssumption DEF Limits
<1> QED
    BY <1>3, <1>4, <1>6, <1>7 DEF Base

(***************************************************************************)
(* The shapes of the handlers.                                              *)
(***************************************************************************)
\* A request's handler has its shape, limits S apart.
Proper(P, S) == /\ Formed(P) /\ Answering(P) /\ (P \in Unchecked \/ Truthful(P))
                /\ \A l \in Limits \ S : LooksFirst(P, l)

\* Formed, in the three parts it is proved in.
Stepping(P) ==
    /\ Len(P) \in Nat \ {0}
    /\ \A i \in Positions(P) :
        /\ P[i].do \in Does
        /\ i = Len(P) => P[i].do \in Ending
        /\ P[i].do \in {"free", "take", "wait"} => P[i].limit \in Limits
        /\ P[i].do = "skip" => P[i].count \in Nat /\ i + P[i].count < Len(P)
InVerdicts(P) ==
    \A i \in Positions(P) : P[i].do \in Judging =>
        \A r \in DOMAIN P[i].verdict : r # "fine" /\ P[i].verdict[r] \in Verdicts
InActor(P) ==
    \A i \in Positions(P) : P[i].do \in {"build", "copy"} =>
        \A k \in 1 .. i - 1 : P[k].do # "task"

USE DEF Check, Warn, Build, Ignore, Crash, Decline, Done, Free, Take, Wait, Task, Skip,
        Refuse, Unsure, Warned, Perhaps, Drop, Trouble, Query, Future, Judge, Registry,
        Sync, Publish, Measure, Copy, Read, Fetch, Listed, Command, NewOrder, LaterCommand,
        Ending, Asking, Judging, Does, Verdicts, Positions

LEMMA MeasuredShape == Proper(OnSecurityListRequest, {})
<1> DEFINE P == OnSecurityListRequest
<1>1. Stepping(P) /\ InActor(P)
    BY LimitsAssumption DEF Stepping, InActor, Limits, OnSecurityListRequest
<1>2. InVerdicts(P)
    BY DEF InVerdicts, ++, OnSecurityListRequest
<1>3. Answering(P)
    BY DEF Answering, ++, OnSecurityListRequest
<1>4. Truthful(P)
    BY DEF Truthful, Orders, Later, Judges, ++, OnSecurityListRequest
<1>5. \A l \in Limits \ {} : LooksFirst(P, l)
    BY DEF LooksFirst, After, On, ++, OnSecurityListRequest
<1> QED
    BY <1>1, <1>2, <1>3, <1>4, <1>5 DEF Proper, Formed, Stepping, InVerdicts, InActor

LEMMA DeclinedShape == Proper(<<Decline>>, {})
<1> DEFINE P == <<Decline>>
<1>1. Stepping(P) /\ InActor(P)
    BY LimitsAssumption DEF Stepping, InActor, Limits
<1>2. InVerdicts(P)
    BY DEF InVerdicts, ++
<1>3. Answering(P)
    BY DEF Answering, ++
<1>4. Truthful(P)
    BY DEF Truthful, Orders, Later, Judges, ++
<1>5. \A l \in Limits \ {} : LooksFirst(P, l)
    BY DEF LooksFirst, After, On, ++
<1> QED
    BY <1>1, <1>2, <1>3, <1>4, <1>5 DEF Proper, Formed, Stepping, InVerdicts, InActor

LEMMA IgnoredShape == Proper(<<Ignore>>, {})
<1> DEFINE P == <<Ignore>>
<1>1. Stepping(P) /\ InActor(P)
    BY LimitsAssumption DEF Stepping, InActor, Limits
<1>2. InVerdicts(P)
    BY DEF InVerdicts, ++
<1>3. Answering(P)
    BY DEF Answering, ++, NotAnswered
<1>4. Truthful(P)
    BY DEF Truthful, Orders, Later, Judges, ++
<1>5. \A l \in Limits \ {} : LooksFirst(P, l)
    BY DEF LooksFirst, After, On, ++
<1> QED
    BY <1>1, <1>2, <1>3, <1>4, <1>5 DEF Proper, Formed, Stepping, InVerdicts, InActor

LEMMA DoneAtOnceShape == Proper(<<Done>>, {})
<1> DEFINE P == <<Done>>
<1>1. Stepping(P) /\ InActor(P)
    BY LimitsAssumption DEF Stepping, InActor, Limits
<1>2. InVerdicts(P)
    BY DEF InVerdicts, ++
<1>3. Answering(P)
    BY DEF Answering, ++
<1>4. Truthful(P)
    BY DEF Truthful, Orders, Later, Judges, ++
<1>5. \A l \in Limits \ {} : LooksFirst(P, l)
    BY DEF LooksFirst, After, On, ++
<1> QED
    BY <1>1, <1>2, <1>3, <1>4, <1>5 DEF Proper, Formed, Stepping, InVerdicts, InActor

LEMMA ReadLaterShape == Proper(<<Task>> \o ReadTask("address"), {})
<1> DEFINE P == <<Task>> \o ReadTask("address")
<1>1. Stepping(P) /\ InActor(P)
    BY LimitsAssumption DEF Stepping, InActor, Limits, ReadTask
<1>2. InVerdicts(P)
    BY DEF InVerdicts, ++, ReadTask
<1>3. Answering(P)
    BY DEF Answering, ++, ReadTask
<1>4. Truthful(P)
    BY DEF Truthful, Orders, Later, Judges, ++, ReadTask
<1>5. \A l \in Limits \ {} : LooksFirst(P, l)
    BY DEF LooksFirst, After, On, ++, ReadTask
<1> QED
    BY <1>1, <1>2, <1>3, <1>4, <1>5 DEF Proper, Formed, Stepping, InVerdicts, InActor

LEMMA CheckedReadLaterShape == Proper(<<Check, Task>> \o ReadTask("address"), {})
<1> DEFINE P == <<Check, Task>> \o ReadTask("address")
<1>1. Stepping(P) /\ InActor(P)
    BY LimitsAssumption DEF Stepping, InActor, Limits, ReadTask
<1>2. InVerdicts(P)
    BY DEF InVerdicts, ++, ReadTask
<1>3. Answering(P)
    BY DEF Answering, ++, ReadTask
<1>4. Truthful(P)
    BY DEF Truthful, Orders, Later, Judges, ++, ReadTask
<1>5. \A l \in Limits \ {} : LooksFirst(P, l)
    BY DEF LooksFirst, After, On, ++, ReadTask
<1> QED
    BY <1>1, <1>2, <1>3, <1>4, <1>5 DEF Proper, Formed, Stepping, InVerdicts, InActor

LEMMA FetchedLaterShape == Proper(FetchLater("address"), {})
<1> DEFINE P == FetchLater("address")
<1>1. Stepping(P) /\ InActor(P)
    BY LimitsAssumption DEF Stepping, InActor, Limits, FetchLater
<1>2. InVerdicts(P)
    BY DEF InVerdicts, ++, FetchLater
<1>3. Answering(P)
    BY DEF Answering, ++, FetchLater
<1>4. Truthful(P)
    BY DEF Truthful, Orders, Later, Judges, ++, FetchLater
<1>5. \A l \in Limits \ {} : LooksFirst(P, l)
    BY DEF LooksFirst, After, On, ++, FetchLater
<1> QED
    BY <1>1, <1>2, <1>3, <1>4, <1>5 DEF Proper, Formed, Stepping, InVerdicts, InActor

LEMMA CheckedFetchedLaterShape == Proper(<<Check>> \o FetchLater("address"), {})
<1> DEFINE P == <<Check>> \o FetchLater("address")
<1>1. Stepping(P) /\ InActor(P)
    BY LimitsAssumption DEF Stepping, InActor, Limits, FetchLater
<1>2. InVerdicts(P)
    BY DEF InVerdicts, ++, FetchLater
<1>3. Answering(P)
    BY DEF Answering, ++, FetchLater
<1>4. Truthful(P)
    BY DEF Truthful, Orders, Later, Judges, ++, FetchLater
<1>5. \A l \in Limits \ {} : LooksFirst(P, l)
    BY DEF LooksFirst, After, On, ++, FetchLater
<1> QED
    BY <1>1, <1>2, <1>3, <1>4, <1>5 DEF Proper, Formed, Stepping, InVerdicts, InActor

LEMMA StatisticsReadShape == Proper(Statistics("address"), {})
<1> DEFINE P == Statistics("address")
<1>1. Stepping(P) /\ InActor(P)
    BY LimitsAssumption DEF Stepping, InActor, Limits, Statistics
<1>2. InVerdicts(P)
    BY DEF InVerdicts, ++, Statistics
<1>3. Answering(P)
    BY DEF Answering, ++, Statistics
<1>4. Truthful(P)
    BY DEF Truthful, Orders, Later, Judges, ++, Statistics
<1>5. \A l \in Limits \ {} : LooksFirst(P, l)
    BY DEF LooksFirst, After, On, ++, Statistics
<1> QED
    BY <1>1, <1>2, <1>3, <1>4, <1>5 DEF Proper, Formed, Stepping, InVerdicts, InActor

LEMMA FbinanceMarketStatisticsShape ==
    Proper(FbinanceOnMarketStatisticsRequest, {"address"})
<1> DEFINE P == FbinanceOnMarketStatisticsRequest
<1>1. Stepping(P) /\ InActor(P)
    BY LimitsAssumption DEF Stepping, InActor, Limits, FbinanceOnMarketStatisticsRequest
<1>2. InVerdicts(P)
    BY DEF InVerdicts, ++, FbinanceOnMarketStatisticsRequest
<1>3. Answering(P)
    BY DEF Answering, ++, FbinanceOnMarketStatisticsRequest
<1>4. Truthful(P)
    BY DEF Truthful, Orders, Later, Judges, ++, FbinanceOnMarketStatisticsRequest
<1>5. \A l \in Limits \ {"address"} : LooksFirst(P, l)
    BY DEF LooksFirst, After, On, ++, FbinanceOnMarketStatisticsRequest
<1> QED
    BY <1>1, <1>2, <1>3, <1>4, <1>5 DEF Proper, Formed, Stepping, InVerdicts, InActor

LEMMA FbinanceNewOrderSingleShape == Proper(FbinanceOnNewOrderSingleRequest, {"address"})
<1> DEFINE P == FbinanceOnNewOrderSingleRequest
<1>1. Stepping(P) /\ InActor(P)
    BY LimitsAssumption DEF Stepping, InActor, Limits, FbinanceOnNewOrderSingleRequest
<1>2. InVerdicts(P)
    BY DEF InVerdicts, ++, FbinanceOnNewOrderSingleRequest
<1>3. Answering(P)
    BY DEF Answering, ++, FbinanceOnNewOrderSingleRequest
<1>4. Truthful(P)
    BY DEF Truthful, Orders, Later, Judges, ++, FbinanceOnNewOrderSingleRequest
<1>5. \A l \in Limits \ {"address"} : LooksFirst(P, l)
    BY DEF LooksFirst, After, On, ++, FbinanceOnNewOrderSingleRequest
<1> QED
    BY <1>1, <1>2, <1>3, <1>4, <1>5 DEF Proper, Formed, Stepping, InVerdicts, InActor

LEMMA FbinanceOrderCancelShape == Proper(FbinanceOnOrderCancelRequest, {"address"})
<1> DEFINE P == FbinanceOnOrderCancelRequest
<1>1. Stepping(P) /\ InActor(P)
    BY LimitsAssumption DEF Stepping, InActor, Limits, FbinanceOnOrderCancelRequest
<1>2. InVerdicts(P)
    BY DEF InVerdicts, ++, FbinanceOnOrderCancelRequest
<1>3. Answering(P)
    BY DEF Answering, ++, FbinanceOnOrderCancelRequest
<1>4. Truthful(P)
    BY DEF Truthful, Orders, Later, Judges, ++, FbinanceOnOrderCancelRequest
<1>5. \A l \in Limits \ {"address"} : LooksFirst(P, l)
    BY DEF LooksFirst, After, On, ++, FbinanceOnOrderCancelRequest
<1> QED
    BY <1>1, <1>2, <1>3, <1>4, <1>5 DEF Proper, Formed, Stepping, InVerdicts, InActor

LEMMA FbinanceOrderMassCancelShape == Proper(FbinanceOnOrderMassCancelRequest, {"address"})
<1> DEFINE P == FbinanceOnOrderMassCancelRequest
<1>1. Stepping(P) /\ InActor(P)
    BY LimitsAssumption DEF Stepping, InActor, Limits, FbinanceOnOrderMassCancelRequest
<1>2. InVerdicts(P)
    BY DEF InVerdicts, ++, FbinanceOnOrderMassCancelRequest
<1>3. Answering(P)
    BY DEF Answering, ++, FbinanceOnOrderMassCancelRequest
<1>4. Truthful(P)
    BY DEF Truthful, Orders, Later, Judges, ++, FbinanceOnOrderMassCancelRequest
<1>5. \A l \in Limits \ {"address"} : LooksFirst(P, l)
    BY DEF LooksFirst, After, On, ++, FbinanceOnOrderMassCancelRequest
<1> QED
    BY <1>1, <1>2, <1>3, <1>4, <1>5 DEF Proper, Formed, Stepping, InVerdicts, InActor

LEMMA BinanceDepositHistoryShape == Proper(BinanceOnDepositHistoryRequest, {})
<1> DEFINE P == BinanceOnDepositHistoryRequest
<1>1. Stepping(P) /\ InActor(P)
    BY LimitsAssumption DEF Stepping, InActor, Limits, BinanceOnDepositHistoryRequest
<1>2. InVerdicts(P)
    BY DEF InVerdicts, ++, BinanceOnDepositHistoryRequest
<1>3. Answering(P)
    BY DEF Answering, ++, BinanceOnDepositHistoryRequest
<1>4. P \in Unchecked
    BY DEF Unchecked
<1>5. \A l \in Limits \ {} : LooksFirst(P, l)
    BY DEF LooksFirst, After, On, ++, BinanceOnDepositHistoryRequest
<1> QED
    BY <1>1, <1>2, <1>3, <1>4, <1>5 DEF Proper, Formed, Stepping, InVerdicts, InActor

LEMMA BinanceWithdrawalHistoryShape == Proper(BinanceOnWithdrawalHistoryRequest, {})
<1> DEFINE P == BinanceOnWithdrawalHistoryRequest
<1>1. Stepping(P) /\ InActor(P)
    BY LimitsAssumption DEF Stepping, InActor, Limits, BinanceOnWithdrawalHistoryRequest
<1>2. InVerdicts(P)
    BY DEF InVerdicts, ++, BinanceOnWithdrawalHistoryRequest
<1>3. Answering(P)
    BY DEF Answering, ++, BinanceOnWithdrawalHistoryRequest
<1>4. P \in Unchecked
    BY DEF Unchecked
<1>5. \A l \in Limits \ {} : LooksFirst(P, l)
    BY DEF LooksFirst, After, On, ++, BinanceOnWithdrawalHistoryRequest
<1> QED
    BY <1>1, <1>2, <1>3, <1>4, <1>5 DEF Proper, Formed, Stepping, InVerdicts, InActor

LEMMA BinanceConvertHistoryShape == Proper(BinanceOnConvertHistoryRequest, {})
<1> DEFINE P == BinanceOnConvertHistoryRequest
<1>1. Stepping(P) /\ InActor(P)
    BY LimitsAssumption DEF Stepping, InActor, Limits, BinanceOnConvertHistoryRequest
<1>2. InVerdicts(P)
    BY DEF InVerdicts, ++, BinanceOnConvertHistoryRequest
<1>3. Answering(P)
    BY DEF Answering, ++, AnsweredTwice, BinanceOnConvertHistoryRequest
<1>4. P \in Unchecked
    BY DEF Unchecked
<1>5. \A l \in Limits \ {} : LooksFirst(P, l)
    BY DEF LooksFirst, After, On, ++, BinanceOnConvertHistoryRequest
<1> QED
    BY <1>1, <1>2, <1>3, <1>4, <1>5 DEF Proper, Formed, Stepping, InVerdicts, InActor

LEMMA BinanceBalancesShape == Proper(BinanceOnBalancesRequest, {})
<1> DEFINE P == BinanceOnBalancesRequest
<1>1. Stepping(P) /\ InActor(P)
    BY LimitsAssumption DEF Stepping, InActor, Limits, BinanceOnBalancesRequest
<1>2. InVerdicts(P)
    BY DEF InVerdicts, ++, BinanceOnBalancesRequest
<1>3. Answering(P)
    BY DEF Answering, ++, BinanceOnBalancesRequest
<1>4. P \in Unchecked
    BY DEF Unchecked
<1>5. \A l \in Limits \ {} : LooksFirst(P, l)
    BY DEF LooksFirst, After, On, ++, BinanceOnBalancesRequest
<1> QED
    BY <1>1, <1>2, <1>3, <1>4, <1>5 DEF Proper, Formed, Stepping, InVerdicts, InActor

LEMMA BinanceNewOrderSingleShape == Proper(BinanceOnNewOrderSingleRequest, {})
<1> DEFINE P == BinanceOnNewOrderSingleRequest
<1>1. Stepping(P) /\ InActor(P)
    BY LimitsAssumption DEF Stepping, InActor, Limits, BinanceOnNewOrderSingleRequest
<1>2. InVerdicts(P)
    BY DEF InVerdicts, ++, BinanceOnNewOrderSingleRequest
<1>3. Answering(P)
    BY DEF Answering, ++, BinanceOnNewOrderSingleRequest
<1>4. Truthful(P)
    BY DEF Truthful, Orders, Later, Judges, ++, BinanceOnNewOrderSingleRequest
<1>5. \A l \in Limits \ {} : LooksFirst(P, l)
    BY DEF LooksFirst, After, On, ++, BinanceOnNewOrderSingleRequest
<1> QED
    BY <1>1, <1>2, <1>3, <1>4, <1>5 DEF Proper, Formed, Stepping, InVerdicts, InActor

LEMMA BinanceOrderCancelShape == Proper(BinanceOnOrderCancelRequest, {})
<1> DEFINE P == BinanceOnOrderCancelRequest
<1>1. Stepping(P) /\ InActor(P)
    BY LimitsAssumption DEF Stepping, InActor, Limits, BinanceOnOrderCancelRequest
<1>2. InVerdicts(P)
    BY DEF InVerdicts, ++, BinanceOnOrderCancelRequest
<1>3. Answering(P)
    BY DEF Answering, ++, BinanceOnOrderCancelRequest
<1>4. Truthful(P)
    BY DEF Truthful, Orders, Later, Judges, ++, BinanceOnOrderCancelRequest
<1>5. \A l \in Limits \ {} : LooksFirst(P, l)
    BY DEF LooksFirst, After, On, ++, BinanceOnOrderCancelRequest
<1> QED
    BY <1>1, <1>2, <1>3, <1>4, <1>5 DEF Proper, Formed, Stepping, InVerdicts, InActor

LEMMA KrakenfHistoricalFundingRatesShape ==
    Proper(KrakenfOnHistoricalFundingRatesRequest, {"address"})
<1> DEFINE P == KrakenfOnHistoricalFundingRatesRequest
<1>1. Stepping(P) /\ InActor(P)
    BY LimitsAssumption
       DEF Stepping, InActor, Limits, KrakenfOnHistoricalFundingRatesRequest
<1>2. InVerdicts(P)
    BY DEF InVerdicts, ++, KrakenfOnHistoricalFundingRatesRequest
<1>3. Answering(P)
    BY DEF Answering, ++, KrakenfOnHistoricalFundingRatesRequest
<1>4. Truthful(P)
    BY DEF Truthful, Orders, Later, Judges, ++, KrakenfOnHistoricalFundingRatesRequest
<1>5. \A l \in Limits \ {"address"} : LooksFirst(P, l)
    BY DEF LooksFirst, After, On, ++, KrakenfOnHistoricalFundingRatesRequest
<1> QED
    BY <1>1, <1>2, <1>3, <1>4, <1>5 DEF Proper, Formed, Stepping, InVerdicts, InActor

LEMMA KrakenfOrderStatusShape == Proper(KrakenfOnOrderStatusRequest, {"address"})
<1> DEFINE P == KrakenfOnOrderStatusRequest
<1>1. Stepping(P) /\ InActor(P)
    BY LimitsAssumption DEF Stepping, InActor, Limits, KrakenfOnOrderStatusRequest
<1>2. InVerdicts(P)
    BY DEF InVerdicts, ++, KrakenfOnOrderStatusRequest
<1>3. Answering(P)
    BY DEF Answering, ++, KrakenfOnOrderStatusRequest
<1>4. Truthful(P)
    BY DEF Truthful, Orders, Later, Judges, ++, KrakenfOnOrderStatusRequest
<1>5. \A l \in Limits \ {"address"} : LooksFirst(P, l)
    BY DEF LooksFirst, After, On, ++, KrakenfOnOrderStatusRequest
<1> QED
    BY <1>1, <1>2, <1>3, <1>4, <1>5 DEF Proper, Formed, Stepping, InVerdicts, InActor

LEMMA KrakenfNewOrderSingleShape == Proper(KrakenfOnNewOrderSingleRequest, {"address"})
<1> DEFINE P == KrakenfOnNewOrderSingleRequest
<1>1. Stepping(P) /\ InActor(P)
    BY LimitsAssumption DEF Stepping, InActor, Limits, KrakenfOnNewOrderSingleRequest
<1>2. InVerdicts(P)
    BY DEF InVerdicts, ++, KrakenfOnNewOrderSingleRequest
<1>3. Answering(P)
    BY DEF Answering, ++, KrakenfOnNewOrderSingleRequest
<1>4. Truthful(P)
    BY DEF Truthful, Orders, Later, Judges, ++, KrakenfOnNewOrderSingleRequest
<1>5. \A l \in Limits \ {"address"} : LooksFirst(P, l)
    BY DEF LooksFirst, After, On, ++, KrakenfOnNewOrderSingleRequest
<1> QED
    BY <1>1, <1>2, <1>3, <1>4, <1>5 DEF Proper, Formed, Stepping, InVerdicts, InActor

LEMMA KrakenfBalancesShape == Proper(KrakenfOnBalancesRequest, {"address"})
<1> DEFINE P == KrakenfOnBalancesRequest
<1>1. Stepping(P) /\ InActor(P)
    BY LimitsAssumption DEF Stepping, InActor, Limits, KrakenfOnBalancesRequest
<1>2. InVerdicts(P)
    BY DEF InVerdicts, ++, KrakenfOnBalancesRequest
<1>3. Answering(P)
    BY DEF Answering, ++, KrakenfOnBalancesRequest
<1>4. Truthful(P)
    BY DEF Truthful, Orders, Later, Judges, ++, KrakenfOnBalancesRequest
<1>5. \A l \in Limits \ {"address"} : LooksFirst(P, l)
    BY DEF LooksFirst, After, On, ++, KrakenfOnBalancesRequest
<1> QED
    BY <1>1, <1>2, <1>3, <1>4, <1>5 DEF Proper, Formed, Stepping, InVerdicts, InActor

LEMMA KrakenfPositionsShape == Proper(KrakenfOnPositionsRequest, {"address"})
<1> DEFINE P == KrakenfOnPositionsRequest
<1>1. Stepping(P) /\ InActor(P)
    BY LimitsAssumption DEF Stepping, InActor, Limits, KrakenfOnPositionsRequest
<1>2. InVerdicts(P)
    BY DEF InVerdicts, ++, KrakenfOnPositionsRequest
<1>3. Answering(P)
    BY DEF Answering, ++, KrakenfOnPositionsRequest
<1>4. Truthful(P)
    BY DEF Truthful, Orders, Later, Judges, ++, KrakenfOnPositionsRequest
<1>5. \A l \in Limits \ {"address"} : LooksFirst(P, l)
    BY DEF LooksFirst, After, On, ++, KrakenfOnPositionsRequest
<1> QED
    BY <1>1, <1>2, <1>3, <1>4, <1>5 DEF Proper, Formed, Stepping, InVerdicts, InActor

LEMMA KrakenfOrderReplaceShape == Proper(KrakenfOnOrderReplaceRequest, {"address"})
<1> DEFINE P == KrakenfOnOrderReplaceRequest
<1>1. Stepping(P) /\ InActor(P)
    BY LimitsAssumption DEF Stepping, InActor, Limits, KrakenfOnOrderReplaceRequest
<1>2. InVerdicts(P)
    BY DEF InVerdicts, ++, KrakenfOnOrderReplaceRequest
<1>3. Answering(P)
    BY DEF Answering, ++, KrakenfOnOrderReplaceRequest
<1>4. Truthful(P)
    BY DEF Truthful, Orders, Later, Judges, ++, KrakenfOnOrderReplaceRequest
<1>5. \A l \in Limits \ {"address"} : LooksFirst(P, l)
    BY DEF LooksFirst, After, On, ++, KrakenfOnOrderReplaceRequest
<1> QED
    BY <1>1, <1>2, <1>3, <1>4, <1>5 DEF Proper, Formed, Stepping, InVerdicts, InActor

LEMMA KrakenfOrderCancelShape == Proper(KrakenfOnOrderCancelRequest, {"address"})
<1> DEFINE P == KrakenfOnOrderCancelRequest
<1>1. Stepping(P) /\ InActor(P)
    BY LimitsAssumption DEF Stepping, InActor, Limits, KrakenfOnOrderCancelRequest
<1>2. InVerdicts(P)
    BY DEF InVerdicts, ++, KrakenfOnOrderCancelRequest
<1>3. Answering(P)
    BY DEF Answering, ++, KrakenfOnOrderCancelRequest
<1>4. Truthful(P)
    BY DEF Truthful, Orders, Later, Judges, ++, KrakenfOnOrderCancelRequest
<1>5. \A l \in Limits \ {"address"} : LooksFirst(P, l)
    BY DEF LooksFirst, After, On, ++, KrakenfOnOrderCancelRequest
<1> QED
    BY <1>1, <1>2, <1>3, <1>4, <1>5 DEF Proper, Formed, Stepping, InVerdicts, InActor

LEMMA KrakenfOrderMassCancelShape == Proper(KrakenfOnOrderMassCancelRequest, {"address"})
<1> DEFINE P == KrakenfOnOrderMassCancelRequest
<1>1. Stepping(P) /\ InActor(P)
    BY LimitsAssumption DEF Stepping, InActor, Limits, KrakenfOnOrderMassCancelRequest
<1>2. InVerdicts(P)
    BY DEF InVerdicts, ++, KrakenfOnOrderMassCancelRequest
<1>3. Answering(P)
    BY DEF Answering, ++, KrakenfOnOrderMassCancelRequest
<1>4. Truthful(P)
    BY DEF Truthful, Orders, Later, Judges, ++, KrakenfOnOrderMassCancelRequest
<1>5. \A l \in Limits \ {"address"} : LooksFirst(P, l)
    BY DEF LooksFirst, After, On, ++, KrakenfOnOrderMassCancelRequest
<1> QED
    BY <1>1, <1>2, <1>3, <1>4, <1>5 DEF Proper, Formed, Stepping, InVerdicts, InActor

LEMMA BybitlMarketStatisticsShape ==
    Proper(BybitlOnMarketStatisticsRequest, {"post", "order"})
<1> DEFINE P == BybitlOnMarketStatisticsRequest
<1>1. Stepping(P) /\ InActor(P)
    BY LimitsAssumption DEF Stepping, InActor, Limits, BybitlOnMarketStatisticsRequest
<1>2. InVerdicts(P)
    BY DEF InVerdicts, ++, BybitlOnMarketStatisticsRequest
<1>3. Answering(P)
    BY DEF Answering, ++, AnsweredTwice, BybitlOnMarketStatisticsRequest
<1>4. Truthful(P)
    BY DEF Truthful, Orders, Later, Judges, ++, BybitlOnMarketStatisticsRequest
<1>5. \A l \in Limits \ {"post", "order"} : LooksFirst(P, l)
    BY DEF LooksFirst, After, On, ++, BybitlOnMarketStatisticsRequest
<1> QED
    BY <1>1, <1>2, <1>3, <1>4, <1>5 DEF Proper, Formed, Stepping, InVerdicts, InActor

LEMMA BybitlBalancesShape == Proper(BybitlOnBalancesRequest, {"post", "order"})
<1> DEFINE P == BybitlOnBalancesRequest
<1>1. Stepping(P) /\ InActor(P)
    BY LimitsAssumption DEF Stepping, InActor, Limits, BybitlOnBalancesRequest
<1>2. InVerdicts(P)
    BY DEF InVerdicts, ++, BybitlOnBalancesRequest
<1>3. Answering(P)
    BY DEF Answering, ++, BybitlOnBalancesRequest
<1>4. Truthful(P)
    BY DEF Truthful, Orders, Later, Judges, ++, BybitlOnBalancesRequest
<1>5. \A l \in Limits \ {"post", "order"} : LooksFirst(P, l)
    BY DEF LooksFirst, After, On, ++, BybitlOnBalancesRequest
<1> QED
    BY <1>1, <1>2, <1>3, <1>4, <1>5 DEF Proper, Formed, Stepping, InVerdicts, InActor

LEMMA BybitlPositionsShape == Proper(BybitlOnPositionsRequest, {"post", "order"})
<1> DEFINE P == BybitlOnPositionsRequest
<1>1. Stepping(P) /\ InActor(P)
    BY LimitsAssumption DEF Stepping, InActor, Limits, BybitlOnPositionsRequest
<1>2. InVerdicts(P)
    BY DEF InVerdicts, ++, BybitlOnPositionsRequest
<1>3. Answering(P)
    BY DEF Answering, ++, BybitlOnPositionsRequest
<1>4. Truthful(P)
    BY DEF Truthful, Orders, Later, Judges, ++, BybitlOnPositionsRequest
<1>5. \A l \in Limits \ {"post", "order"} : LooksFirst(P, l)
    BY DEF LooksFirst, After, On, ++, BybitlOnPositionsRequest
<1> QED
    BY <1>1, <1>2, <1>3, <1>4, <1>5 DEF Proper, Formed, Stepping, InVerdicts, InActor

LEMMA BybitlAccountInformationShape ==
    Proper(BybitlOnAccountInformationRequest, {"post", "order"})
<1> DEFINE P == BybitlOnAccountInformationRequest
<1>1. Stepping(P) /\ InActor(P)
    BY LimitsAssumption
       DEF Stepping, InActor, Limits, BybitlOnAccountInformationRequest, ReadTask
<1>2. InVerdicts(P)
    BY DEF InVerdicts, ++, BybitlOnAccountInformationRequest, ReadTask
<1>3. Answering(P)
    BY DEF Answering, ++, BybitlOnAccountInformationRequest, ReadTask
<1>4. Truthful(P)
    BY DEF Truthful, Orders, Later, Judges, ++, BybitlOnAccountInformationRequest, ReadTask
<1>5. \A l \in Limits \ {"post", "order"} : LooksFirst(P, l)
    BY DEF LooksFirst, After, On, ++, BybitlOnAccountInformationRequest, ReadTask
<1> QED
    BY <1>1, <1>2, <1>3, <1>4, <1>5 DEF Proper, Formed, Stepping, InVerdicts, InActor

LEMMA BybitlFundingMovementShape ==
    Proper(BybitlOnFundingMovementRequest, {"post", "order"})
<1> DEFINE P == BybitlOnFundingMovementRequest
<1>1. Stepping(P) /\ InActor(P)
    BY LimitsAssumption DEF Stepping, InActor, Limits, BybitlOnFundingMovementRequest
<1>2. InVerdicts(P)
    BY DEF InVerdicts, ++, BybitlOnFundingMovementRequest
<1>3. Answering(P)
    BY DEF Answering, ++, BybitlOnFundingMovementRequest
<1>4. Truthful(P)
    BY DEF Truthful, Orders, Later, Judges, ++, BybitlOnFundingMovementRequest
<1>5. \A l \in Limits \ {"post", "order"} : LooksFirst(P, l)
    BY DEF LooksFirst, After, On, ++, BybitlOnFundingMovementRequest
<1> QED
    BY <1>1, <1>2, <1>3, <1>4, <1>5 DEF Proper, Formed, Stepping, InVerdicts, InActor

LEMMA BybitlDepositMovementShape ==
    Proper(BybitlOnDepositMovementRequest, {"post", "order"})
<1> DEFINE P == BybitlOnDepositMovementRequest
<1>1. Stepping(P) /\ InActor(P)
    BY LimitsAssumption DEF Stepping, InActor, Limits, BybitlOnDepositMovementRequest
<1>2. InVerdicts(P)
    BY DEF InVerdicts, ++, BybitlOnDepositMovementRequest
<1>3. Answering(P)
    BY DEF Answering, ++, BybitlOnDepositMovementRequest
<1>4. Truthful(P)
    BY DEF Truthful, Orders, Later, Judges, ++, BybitlOnDepositMovementRequest
<1>5. \A l \in Limits \ {"post", "order"} : LooksFirst(P, l)
    BY DEF LooksFirst, After, On, ++, BybitlOnDepositMovementRequest
<1> QED
    BY <1>1, <1>2, <1>3, <1>4, <1>5 DEF Proper, Formed, Stepping, InVerdicts, InActor

LEMMA BybitlWithdrawalMovementShape ==
    Proper(BybitlOnWithdrawalMovementRequest, {"post", "order"})
<1> DEFINE P == BybitlOnWithdrawalMovementRequest
<1>1. Stepping(P) /\ InActor(P)
    BY LimitsAssumption DEF Stepping, InActor, Limits, BybitlOnWithdrawalMovementRequest
<1>2. InVerdicts(P)
    BY DEF InVerdicts, ++, BybitlOnWithdrawalMovementRequest
<1>3. Answering(P)
    BY DEF Answering, ++, BybitlOnWithdrawalMovementRequest
<1>4. Truthful(P)
    BY DEF Truthful, Orders, Later, Judges, ++, BybitlOnWithdrawalMovementRequest
<1>5. \A l \in Limits \ {"post", "order"} : LooksFirst(P, l)
    BY DEF LooksFirst, After, On, ++, BybitlOnWithdrawalMovementRequest
<1> QED
    BY <1>1, <1>2, <1>3, <1>4, <1>5 DEF Proper, Formed, Stepping, InVerdicts, InActor

LEMMA BybitlTradeCaptureReportShape ==
    Proper(BybitlOnTradeCaptureReportRequest, {"post", "order"})
<1> DEFINE P == BybitlOnTradeCaptureReportRequest
<1>1. Stepping(P) /\ InActor(P)
    BY LimitsAssumption DEF Stepping, InActor, Limits, BybitlOnTradeCaptureReportRequest
<1>2. InVerdicts(P)
    BY DEF InVerdicts, ++, BybitlOnTradeCaptureReportRequest
<1>3. Answering(P)
    BY DEF Answering, ++, BybitlOnTradeCaptureReportRequest
<1>4. Truthful(P)
    BY DEF Truthful, Orders, Later, Judges, ++, BybitlOnTradeCaptureReportRequest
<1>5. \A l \in Limits \ {"post", "order"} : LooksFirst(P, l)
    BY DEF LooksFirst, After, On, ++, BybitlOnTradeCaptureReportRequest
<1> QED
    BY <1>1, <1>2, <1>3, <1>4, <1>5 DEF Proper, Formed, Stepping, InVerdicts, InActor

LEMMA BybitlOrderStatusShape == Proper(BybitlOnOrderStatusRequest, {"post", "order"})
<1> DEFINE P == BybitlOnOrderStatusRequest
<1>1. Stepping(P) /\ InActor(P)
    BY LimitsAssumption DEF Stepping, InActor, Limits, BybitlOnOrderStatusRequest
<1>2. InVerdicts(P)
    BY DEF InVerdicts, ++, BybitlOnOrderStatusRequest
<1>3. Answering(P)
    BY DEF Answering, ++, BybitlOnOrderStatusRequest
<1>4. Truthful(P)
    BY DEF Truthful, Orders, Later, Judges, ++, BybitlOnOrderStatusRequest
<1>5. \A l \in Limits \ {"post", "order"} : LooksFirst(P, l)
    BY DEF LooksFirst, After, On, ++, BybitlOnOrderStatusRequest
<1> QED
    BY <1>1, <1>2, <1>3, <1>4, <1>5 DEF Proper, Formed, Stepping, InVerdicts, InActor

LEMMA BybitlNewOrderSingleShape == Proper(BybitlOnNewOrderSingleRequest, {"post", "order"})
<1> DEFINE P == BybitlOnNewOrderSingleRequest
<1>1. Stepping(P) /\ InActor(P)
    BY LimitsAssumption DEF Stepping, InActor, Limits, BybitlOnNewOrderSingleRequest
<1>2. InVerdicts(P)
    BY DEF InVerdicts, ++, BybitlOnNewOrderSingleRequest
<1>3. Answering(P)
    BY DEF Answering, ++, BybitlOnNewOrderSingleRequest
<1>4. Truthful(P)
    BY DEF Truthful, Orders, Later, Judges, ++, BybitlOnNewOrderSingleRequest
<1>5. \A l \in Limits \ {"post", "order"} : LooksFirst(P, l)
    BY DEF LooksFirst, After, On, ++, BybitlOnNewOrderSingleRequest
<1> QED
    BY <1>1, <1>2, <1>3, <1>4, <1>5 DEF Proper, Formed, Stepping, InVerdicts, InActor

LEMMA BybitlOrderCancelShape == Proper(BybitlOnOrderCancelRequest, {"post", "order"})
<1> DEFINE P == BybitlOnOrderCancelRequest
<1>1. Stepping(P) /\ InActor(P)
    BY LimitsAssumption DEF Stepping, InActor, Limits, BybitlOnOrderCancelRequest
<1>2. InVerdicts(P)
    BY DEF InVerdicts, ++, BybitlOnOrderCancelRequest
<1>3. Answering(P)
    BY DEF Answering, ++, BybitlOnOrderCancelRequest
<1>4. Truthful(P)
    BY DEF Truthful, Orders, Later, Judges, ++, BybitlOnOrderCancelRequest
<1>5. \A l \in Limits \ {"post", "order"} : LooksFirst(P, l)
    BY DEF LooksFirst, After, On, ++, BybitlOnOrderCancelRequest
<1> QED
    BY <1>1, <1>2, <1>3, <1>4, <1>5 DEF Proper, Formed, Stepping, InVerdicts, InActor

LEMMA BybitlOrderMassCancelShape ==
    Proper(BybitlOnOrderMassCancelRequest, {"post", "order"})
<1> DEFINE P == BybitlOnOrderMassCancelRequest
<1>1. Stepping(P) /\ InActor(P)
    BY LimitsAssumption DEF Stepping, InActor, Limits, BybitlOnOrderMassCancelRequest
<1>2. InVerdicts(P)
    BY DEF InVerdicts, ++, BybitlOnOrderMassCancelRequest
<1>3. Answering(P)
    BY DEF Answering, ++, BybitlOnOrderMassCancelRequest
<1>4. Truthful(P)
    BY DEF Truthful, Orders, Later, Judges, ++, BybitlOnOrderMassCancelRequest
<1>5. \A l \in Limits \ {"post", "order"} : LooksFirst(P, l)
    BY DEF LooksFirst, After, On, ++, BybitlOnOrderMassCancelRequest
<1> QED
    BY <1>1, <1>2, <1>3, <1>4, <1>5 DEF Proper, Formed, Stepping, InVerdicts, InActor

LEMMA BybitlOrderReplaceShape == Proper(BybitlOnOrderReplaceRequest, {"post", "order"})
<1> DEFINE P == BybitlOnOrderReplaceRequest
<1>1. Stepping(P) /\ InActor(P)
    BY LimitsAssumption DEF Stepping, InActor, Limits, BybitlOnOrderReplaceRequest
<1>2. InVerdicts(P)
    BY DEF InVerdicts, ++, BybitlOnOrderReplaceRequest
<1>3. Answering(P)
    BY DEF Answering, ++, BybitlOnOrderReplaceRequest
<1>4. Truthful(P)
    BY DEF Truthful, Orders, Later, Judges, ++, BybitlOnOrderReplaceRequest
<1>5. \A l \in Limits \ {"post", "order"} : LooksFirst(P, l)
    BY DEF LooksFirst, After, On, ++, BybitlOnOrderReplaceRequest
<1> QED
    BY <1>1, <1>2, <1>3, <1>4, <1>5 DEF Proper, Formed, Stepping, InVerdicts, InActor

LEMMA BitmexNewOrderSingleShape == Proper(BitmexOnNewOrderSingleRequest, {})
<1> DEFINE P == BitmexOnNewOrderSingleRequest
<1>1. Stepping(P) /\ InActor(P)
    BY LimitsAssumption DEF Stepping, InActor, Limits, BitmexOnNewOrderSingleRequest
<1>2. InVerdicts(P)
    BY DEF InVerdicts, ++, BitmexOnNewOrderSingleRequest
<1>3. Answering(P)
    BY DEF Answering, ++, BitmexOnNewOrderSingleRequest
<1>4. Truthful(P)
    BY DEF Truthful, Orders, Later, Judges, ++, BitmexOnNewOrderSingleRequest
<1>5. \A l \in Limits \ {} : LooksFirst(P, l)
    BY DEF LooksFirst, After, On, ++, BitmexOnNewOrderSingleRequest
<1> QED
    BY <1>1, <1>2, <1>3, <1>4, <1>5 DEF Proper, Formed, Stepping, InVerdicts, InActor

LEMMA BitmexOrderReplaceShape == Proper(BitmexOnOrderReplaceRequest, {})
<1> DEFINE P == BitmexOnOrderReplaceRequest
<1>1. Stepping(P) /\ InActor(P)
    BY LimitsAssumption DEF Stepping, InActor, Limits, BitmexOnOrderReplaceRequest
<1>2. InVerdicts(P)
    BY DEF InVerdicts, ++, BitmexOnOrderReplaceRequest
<1>3. Answering(P)
    BY DEF Answering, ++, BitmexOnOrderReplaceRequest
<1>4. Truthful(P)
    BY DEF Truthful, Orders, Later, Judges, ++, BitmexOnOrderReplaceRequest
<1>5. \A l \in Limits \ {} : LooksFirst(P, l)
    BY DEF LooksFirst, After, On, ++, BitmexOnOrderReplaceRequest
<1> QED
    BY <1>1, <1>2, <1>3, <1>4, <1>5 DEF Proper, Formed, Stepping, InVerdicts, InActor

LEMMA BitmexOrderCancelShape == Proper(BitmexOnOrderCancelRequest, {})
<1> DEFINE P == BitmexOnOrderCancelRequest
<1>1. Stepping(P) /\ InActor(P)
    BY LimitsAssumption DEF Stepping, InActor, Limits, BitmexOnOrderCancelRequest
<1>2. InVerdicts(P)
    BY DEF InVerdicts, ++, BitmexOnOrderCancelRequest
<1>3. Answering(P)
    BY DEF Answering, ++, BitmexOnOrderCancelRequest
<1>4. Truthful(P)
    BY DEF Truthful, Orders, Later, Judges, ++, BitmexOnOrderCancelRequest
<1>5. \A l \in Limits \ {} : LooksFirst(P, l)
    BY DEF LooksFirst, After, On, ++, BitmexOnOrderCancelRequest
<1> QED
    BY <1>1, <1>2, <1>3, <1>4, <1>5 DEF Proper, Formed, Stepping, InVerdicts, InActor

LEMMA BitmexOrderMassCancelShape == Proper(BitmexOnOrderMassCancelRequest, {})
<1> DEFINE P == BitmexOnOrderMassCancelRequest
<1>1. Stepping(P) /\ InActor(P)
    BY LimitsAssumption DEF Stepping, InActor, Limits, BitmexOnOrderMassCancelRequest
<1>2. InVerdicts(P)
    BY DEF InVerdicts, ++, BitmexOnOrderMassCancelRequest
<1>3. Answering(P)
    BY DEF Answering, ++, BitmexOnOrderMassCancelRequest
<1>4. Truthful(P)
    BY DEF Truthful, Orders, Later, Judges, ++, BitmexOnOrderMassCancelRequest
<1>5. \A l \in Limits \ {} : LooksFirst(P, l)
    BY DEF LooksFirst, After, On, ++, BitmexOnOrderMassCancelRequest
<1> QED
    BY <1>1, <1>2, <1>3, <1>4, <1>5 DEF Proper, Formed, Stepping, InVerdicts, InActor

LEMMA DydxOrderStatusShape == Proper(DydxOnOrderStatusRequest, {"get"})
<1> DEFINE P == DydxOnOrderStatusRequest
<1>1. Stepping(P) /\ InActor(P)
    BY LimitsAssumption DEF Stepping, InActor, Limits, DydxOnOrderStatusRequest
<1>2. InVerdicts(P)
    BY DEF InVerdicts, ++, DydxOnOrderStatusRequest
<1>3. Answering(P)
    BY DEF Answering, ++, DydxOnOrderStatusRequest
<1>4. Truthful(P)
    BY DEF Truthful, Orders, Later, Judges, ++, DydxOnOrderStatusRequest
<1>5. \A l \in Limits \ {"get"} : LooksFirst(P, l)
    BY DEF LooksFirst, After, On, ++, DydxOnOrderStatusRequest
<1> QED
    BY <1>1, <1>2, <1>3, <1>4, <1>5 DEF Proper, Formed, Stepping, InVerdicts, InActor

LEMMA DydxPositionsShape == Proper(DydxOnPositionsRequest, {"get"})
<1> DEFINE P == DydxOnPositionsRequest
<1>1. Stepping(P) /\ InActor(P)
    BY LimitsAssumption DEF Stepping, InActor, Limits, DydxOnPositionsRequest
<1>2. InVerdicts(P)
    BY DEF InVerdicts, ++, DydxOnPositionsRequest
<1>3. Answering(P)
    BY DEF Answering, ++, DydxOnPositionsRequest
<1>4. Truthful(P)
    BY DEF Truthful, Orders, Later, Judges, ++, DydxOnPositionsRequest
<1>5. \A l \in Limits \ {"get"} : LooksFirst(P, l)
    BY DEF LooksFirst, After, On, ++, DydxOnPositionsRequest
<1> QED
    BY <1>1, <1>2, <1>3, <1>4, <1>5 DEF Proper, Formed, Stepping, InVerdicts, InActor

LEMMA DydxBalancesShape == Proper(DydxOnBalancesRequest, {"get"})
<1> DEFINE P == DydxOnBalancesRequest
<1>1. Stepping(P) /\ InActor(P)
    BY LimitsAssumption DEF Stepping, InActor, Limits, DydxOnBalancesRequest
<1>2. InVerdicts(P)
    BY DEF InVerdicts, ++, DydxOnBalancesRequest
<1>3. Answering(P)
    BY DEF Answering, ++, DydxOnBalancesRequest
<1>4. Truthful(P)
    BY DEF Truthful, Orders, Later, Judges, ++, DydxOnBalancesRequest
<1>5. \A l \in Limits \ {"get"} : LooksFirst(P, l)
    BY DEF LooksFirst, After, On, ++, DydxOnBalancesRequest
<1> QED
    BY <1>1, <1>2, <1>3, <1>4, <1>5 DEF Proper, Formed, Stepping, InVerdicts, InActor

LEMMA DydxNewOrderSingleShape == Proper(DydxOnNewOrderSingleRequest, {"get"})
<1> DEFINE P == DydxOnNewOrderSingleRequest
<1>1. Stepping(P) /\ InActor(P)
    BY LimitsAssumption DEF Stepping, InActor, Limits, DydxOnNewOrderSingleRequest
<1>2. InVerdicts(P)
    BY DEF InVerdicts, ++, DydxOnNewOrderSingleRequest
<1>3. Answering(P)
    BY DEF Answering, ++, DydxOnNewOrderSingleRequest
<1>4. Truthful(P)
    BY DEF Truthful, Orders, Later, Judges, ++, DydxOnNewOrderSingleRequest
<1>5. \A l \in Limits \ {"get"} : LooksFirst(P, l)
    BY DEF LooksFirst, After, On, ++, DydxOnNewOrderSingleRequest
<1> QED
    BY <1>1, <1>2, <1>3, <1>4, <1>5 DEF Proper, Formed, Stepping, InVerdicts, InActor

LEMMA DydxOrderCancelShape == Proper(DydxOnOrderCancelRequest, {"get"})
<1> DEFINE P == DydxOnOrderCancelRequest
<1>1. Stepping(P) /\ InActor(P)
    BY LimitsAssumption DEF Stepping, InActor, Limits, DydxOnOrderCancelRequest
<1>2. InVerdicts(P)
    BY DEF InVerdicts, ++, DydxOnOrderCancelRequest
<1>3. Answering(P)
    BY DEF Answering, ++, AnsweredTwice, DydxOnOrderCancelRequest
<1>4. P \in Unchecked
    BY DEF Unchecked
<1>5. \A l \in Limits \ {"get"} : LooksFirst(P, l)
    BY DEF LooksFirst, After, On, ++, DydxOnOrderCancelRequest
<1> QED
    BY <1>1, <1>2, <1>3, <1>4, <1>5 DEF Proper, Formed, Stepping, InVerdicts, InActor

LEMMA OkexBalancesShape == Proper(OkexOnBalancesRequest, {})
<1> DEFINE P == OkexOnBalancesRequest
<1>1. Stepping(P) /\ InActor(P)
    BY LimitsAssumption DEF Stepping, InActor, Limits, OkexOnBalancesRequest
<1>2. InVerdicts(P)
    BY DEF InVerdicts, ++, OkexOnBalancesRequest
<1>3. Answering(P)
    BY DEF Answering, ++, OkexOnBalancesRequest
<1>4. Truthful(P)
    BY DEF Truthful, Orders, Later, Judges, ++, OkexOnBalancesRequest
<1>5. \A l \in Limits \ {} : LooksFirst(P, l)
    BY DEF LooksFirst, After, On, ++, OkexOnBalancesRequest
<1> QED
    BY <1>1, <1>2, <1>3, <1>4, <1>5 DEF Proper, Formed, Stepping, InVerdicts, InActor

LEMMA OkexPositionsShape == Proper(OkexOnPositionsRequest, {})
<1> DEFINE P == OkexOnPositionsRequest
<1>1. Stepping(P) /\ InActor(P)
    BY LimitsAssumption DEF Stepping, InActor, Limits, OkexOnPositionsRequest
<1>2. InVerdicts(P)
    BY DEF InVerdicts, ++, OkexOnPositionsRequest
<1>3. Answering(P)
    BY DEF Answering, ++, OkexOnPositionsRequest
<1>4. Truthful(P)
    BY DEF Truthful, Orders, Later, Judges, ++, OkexOnPositionsRequest
<1>5. \A l \in Limits \ {} : LooksFirst(P, l)
    BY DEF LooksFirst, After, On, ++, OkexOnPositionsRequest
<1> QED
    BY <1>1, <1>2, <1>3, <1>4, <1>5 DEF Proper, Formed, Stepping, InVerdicts, InActor

LEMMA OkexAllOrdersShape == Proper(OkexOnOrderStatusRequest.allOrders, {})
<1> DEFINE P == OkexOnOrderStatusRequest.allOrders
<1>1. Stepping(P) /\ InActor(P)
    BY LimitsAssumption DEF Stepping, InActor, Limits, OkexOnOrderStatusRequest
<1>2. InVerdicts(P)
    BY DEF InVerdicts, ++, OkexOnOrderStatusRequest
<1>3. Answering(P)
    BY DEF Answering, ++, OkexOnOrderStatusRequest
<1>4. Truthful(P)
    BY DEF Truthful, Orders, Later, Judges, ++, OkexOnOrderStatusRequest
<1>5. \A l \in Limits \ {} : LooksFirst(P, l)
    BY DEF LooksFirst, After, On, ++, OkexOnOrderStatusRequest
<1> QED
    BY <1>1, <1>2, <1>3, <1>4, <1>5 DEF Proper, Formed, Stepping, InVerdicts, InActor

LEMMA BithumbgSnapshotsShape == Proper(BithumbgOnMarketDataRequest.snapshots, {})
<1> DEFINE P == BithumbgOnMarketDataRequest.snapshots
<1>1. Stepping(P) /\ InActor(P)
    BY LimitsAssumption DEF Stepping, InActor, Limits, BithumbgOnMarketDataRequest
<1>2. InVerdicts(P)
    BY DEF InVerdicts, ++, BithumbgOnMarketDataRequest
<1>3. Answering(P)
    BY DEF Answering, ++, BithumbgOnMarketDataRequest
<1>4. Truthful(P)
    BY DEF Truthful, Orders, Later, Judges, ++, BithumbgOnMarketDataRequest
<1>5. \A l \in Limits \ {} : LooksFirst(P, l)
    BY DEF LooksFirst, After, On, ++, BithumbgOnMarketDataRequest
<1> QED
    BY <1>1, <1>2, <1>3, <1>4, <1>5 DEF Proper, Formed, Stepping, InVerdicts, InActor

LEMMA BithumbgOthersShape == Proper(BithumbgOnMarketDataRequest.otherAggregations, {})
<1> DEFINE P == BithumbgOnMarketDataRequest.otherAggregations
<1>1. Stepping(P) /\ InActor(P)
    BY LimitsAssumption DEF Stepping, InActor, Limits, BithumbgOnMarketDataRequest
<1>2. InVerdicts(P)
    BY DEF InVerdicts, ++, BithumbgOnMarketDataRequest
<1>3. Answering(P)
    BY DEF Answering, ++, NotAnswered, BithumbgOnMarketDataRequest
<1>4. Truthful(P)
    BY DEF Truthful, Orders, Later, Judges, ++, BithumbgOnMarketDataRequest
<1>5. \A l \in Limits \ {} : LooksFirst(P, l)
    BY DEF LooksFirst, After, On, ++, BithumbgOnMarketDataRequest
<1> QED
    BY <1>1, <1>2, <1>3, <1>4, <1>5 DEF Proper, Formed, Stepping, InVerdicts, InActor

LEMMA CoinbaseproMarketDataShape == Proper(CoinbaseproOnMarketDataRequest, {})
<1> DEFINE P == CoinbaseproOnMarketDataRequest
<1>1. Stepping(P) /\ InActor(P)
    BY LimitsAssumption DEF Stepping, InActor, Limits, CoinbaseproOnMarketDataRequest
<1>2. InVerdicts(P)
    BY DEF InVerdicts, ++, CoinbaseproOnMarketDataRequest
<1>3. Answering(P)
    BY DEF Answering, ++, CoinbaseproOnMarketDataRequest
<1>4. Truthful(P)
    BY DEF Truthful, Orders, Later, Judges, ++, CoinbaseproOnMarketDataRequest
<1>5. \A l \in Limits \ {} : LooksFirst(P, l)
    BY DEF LooksFirst, After, On, ++, CoinbaseproOnMarketDataRequest
<1> QED
    BY <1>1, <1>2, <1>3, <1>4, <1>5 DEF Proper, Formed, Stepping, InVerdicts, InActor

\* An update of the list of securities, limits S apart.
Renewing(P, S) == /\ Formed(P) /\ Listing(P)
                  /\ \A l \in Limits \ S : LooksFirst(P, l)

LEMMA FullFromAddressShape == Renewing(FullUpdate("address"), {})
<1> DEFINE P == FullUpdate("address")
<1>1. Stepping(P) /\ InActor(P)
    BY LimitsAssumption DEF Stepping, InActor, Limits, FullUpdate
<1>2. InVerdicts(P)
    BY DEF InVerdicts, FullUpdate
<1>3. Listing(P)
    BY DEF Listing, FullUpdate
<1>4. \A l \in Limits \ {} : LooksFirst(P, l)
    BY DEF LooksFirst, After, On, FullUpdate
<1> QED
    BY <1>1, <1>2, <1>3, <1>4 DEF Renewing, Formed, Stepping, InVerdicts, InActor

LEMMA FullFromGetShape == Renewing(FullUpdate("get"), {})
<1> DEFINE P == FullUpdate("get")
<1>1. Stepping(P) /\ InActor(P)
    BY LimitsAssumption DEF Stepping, InActor, Limits, FullUpdate
<1>2. InVerdicts(P)
    BY DEF InVerdicts, FullUpdate
<1>3. Listing(P)
    BY DEF Listing, FullUpdate
<1>4. \A l \in Limits \ {} : LooksFirst(P, l)
    BY DEF LooksFirst, After, On, FullUpdate
<1> QED
    BY <1>1, <1>2, <1>3, <1>4 DEF Renewing, Formed, Stepping, InVerdicts, InActor

LEMMA ListFromAddressShape == Renewing(ListUpdate("address"), {})
<1> DEFINE P == ListUpdate("address")
<1>1. Stepping(P) /\ InActor(P)
    BY LimitsAssumption DEF Stepping, InActor, Limits, ListUpdate
<1>2. InVerdicts(P)
    BY DEF InVerdicts, ListUpdate
<1>3. Listing(P)
    BY DEF Listing, ListUpdate
<1>4. \A l \in Limits \ {} : LooksFirst(P, l)
    BY DEF LooksFirst, After, On, ListUpdate
<1> QED
    BY <1>1, <1>2, <1>3, <1>4 DEF Renewing, Formed, Stepping, InVerdicts, InActor

LEMMA ListFromListShape == Renewing(ListUpdate("list"), {})
<1> DEFINE P == ListUpdate("list")
<1>1. Stepping(P) /\ InActor(P)
    BY LimitsAssumption DEF Stepping, InActor, Limits, ListUpdate
<1>2. InVerdicts(P)
    BY DEF InVerdicts, ListUpdate
<1>3. Listing(P)
    BY DEF Listing, ListUpdate
<1>4. \A l \in Limits \ {} : LooksFirst(P, l)
    BY DEF LooksFirst, After, On, ListUpdate
<1> QED
    BY <1>1, <1>2, <1>3, <1>4 DEF Renewing, Formed, Stepping, InVerdicts, InActor

LEMMA KrakenfListShape == Renewing(KrakenfUpdateSecurityList, {})
<1> DEFINE P == KrakenfUpdateSecurityList
<1>1. Stepping(P) /\ InActor(P)
    BY LimitsAssumption DEF Stepping, InActor, Limits, KrakenfUpdateSecurityList
<1>2. InVerdicts(P)
    BY DEF InVerdicts, KrakenfUpdateSecurityList
<1>3. Listing(P)
    BY DEF Listing, KrakenfUpdateSecurityList
<1>4. \A l \in Limits \ {} : LooksFirst(P, l)
    BY DEF LooksFirst, After, On, KrakenfUpdateSecurityList
<1> QED
    BY <1>1, <1>2, <1>3, <1>4 DEF Renewing, Formed, Stepping, InVerdicts, InActor

LEMMA BitzListShape == Renewing(BitzUpdateSecurityList, {})
<1> DEFINE P == BitzUpdateSecurityList
<1>1. Stepping(P) /\ InActor(P)
    BY LimitsAssumption DEF Stepping, InActor, Limits, BitzUpdateSecurityList
<1>2. InVerdicts(P)
    BY DEF InVerdicts, BitzUpdateSecurityList
<1>3. Listing(P)
    BY DEF Listing, BitzUpdateSecurityList
<1>4. \A l \in Limits \ {} : LooksFirst(P, l)
    BY DEF LooksFirst, After, On, BitzUpdateSecurityList
<1> QED
    BY <1>1, <1>2, <1>3, <1>4 DEF Renewing, Formed, Stepping, InVerdicts, InActor

LEMMA DeribitListShape == Renewing(DeribitUpdateSecurityList, {})
<1> DEFINE P == DeribitUpdateSecurityList
<1>1. Stepping(P) /\ InActor(P)
    BY LimitsAssumption DEF Stepping, InActor, Limits, DeribitUpdateSecurityList
<1>2. InVerdicts(P)
    BY DEF InVerdicts, DeribitUpdateSecurityList
<1>3. Listing(P)
    BY DEF Listing, DeribitUpdateSecurityList
<1>4. \A l \in Limits \ {} : LooksFirst(P, l)
    BY DEF LooksFirst, After, On, DeribitUpdateSecurityList
<1> QED
    BY <1>1, <1>2, <1>3, <1>4 DEF Renewing, Formed, Stepping, InVerdicts, InActor

LEMMA KrakenListShape == Renewing(KrakenUpdateSecurityList, {})
<1> DEFINE P == KrakenUpdateSecurityList
<1>1. Stepping(P) /\ InActor(P)
    BY LimitsAssumption DEF Stepping, InActor, Limits, KrakenUpdateSecurityList
<1>2. InVerdicts(P)
    BY DEF InVerdicts, KrakenUpdateSecurityList
<1>3. Listing(P)
    BY DEF Listing, KrakenUpdateSecurityList
<1>4. \A l \in Limits \ {} : LooksFirst(P, l)
    BY DEF LooksFirst, After, On, KrakenUpdateSecurityList
<1> QED
    BY <1>1, <1>2, <1>3, <1>4 DEF Renewing, Formed, Stepping, InVerdicts, InActor

LEMMA OkcoinListShape == Renewing(OkcoinUpdateSecurityList, {})
<1> DEFINE P == OkcoinUpdateSecurityList
<1>1. Stepping(P) /\ InActor(P)
    BY LimitsAssumption DEF Stepping, InActor, Limits, OkcoinUpdateSecurityList
<1>2. InVerdicts(P)
    BY DEF InVerdicts, OkcoinUpdateSecurityList
<1>3. Listing(P)
    BY DEF Listing, OkcoinUpdateSecurityList
<1>4. \A l \in Limits \ {} : LooksFirst(P, l)
    BY DEF LooksFirst, After, On, OkcoinUpdateSecurityList
<1> QED
    BY <1>1, <1>2, <1>3, <1>4 DEF Renewing, Formed, Stepping, InVerdicts, InActor

LEMMA DydxListShape == Renewing(DydxUpdateSecurityList, {"get"})
<1> DEFINE P == DydxUpdateSecurityList
<1>1. Stepping(P) /\ InActor(P)
    BY LimitsAssumption DEF Stepping, InActor, Limits, DydxUpdateSecurityList
<1>2. InVerdicts(P)
    BY DEF InVerdicts, DydxUpdateSecurityList
<1>3. Listing(P)
    BY DEF Listing, DydxUpdateSecurityList
<1>4. \A l \in Limits \ {"get"} : LooksFirst(P, l)
    BY DEF LooksFirst, After, On, DydxUpdateSecurityList
<1> QED
    BY <1>1, <1>2, <1>3, <1>4 DEF Renewing, Formed, Stepping, InVerdicts, InActor

\* A boot that asks for the list before it looks at the limit.
LEMMA InitializeShape ==
    LET P == <<Listed, Take("address")>> \o FullUpdate("address") IN
    Formed(P) /\ Listing(P) /\ \A l \in Limits : BootLooks(P, l)
<1> DEFINE P == <<Listed, Take("address")>> \o FullUpdate("address")
<1>1. Stepping(P) /\ InActor(P)
    BY LimitsAssumption DEF Stepping, InActor, Limits, FullUpdate
<1>2. InVerdicts(P)
    BY DEF InVerdicts, FullUpdate
<1>3. Listing(P)
    BY DEF Listing, FullUpdate
<1>4. \A l \in Limits : BootLooks(P, l)
    BY DEF BootLooks, First, After, On, FullUpdate
<1> QED
    BY <1>1, <1>2, <1>3, <1>4 DEF Formed, Stepping, InVerdicts, InActor

HIDE DEF Check, Warn, Build, Ignore, Crash, Decline, Done, Free, Take, Wait, Task, Skip,
         Refuse, Unsure, Warned, Perhaps, Drop, Trouble, Query, Future, Judge, Registry,
         Sync, Publish, Measure, Copy, Read, Fetch, Listed, Command, NewOrder, LaterCommand,
         Ending, Asking, Judging, Does, Verdicts, Positions

(***************************************************************************)
(* The executors.                                                           *)
(***************************************************************************)
\* An executor whose requests, update and boot have the shapes, limits S apart.
Fits(e, S) ==
    /\ {"none", "boot", "update"} \cap DOMAIN e.requests = {}
    /\ \A h \in DOMAIN e.requests : Proper(e.requests[h], S)
    /\ Renewing(e.update, S)
    /\ Formed(e.boot) /\ Listing(e.boot) /\ \A l \in Limits \ S : BootLooks(e.boot, l)

Handling(R, S) ==
    /\ {"none", "boot", "update"} \cap DOMAIN R = {}
    /\ \A h \in DOMAIN R : Proper(R[h], S)

LEMMA LessApart ==
    ASSUME NEW P, NEW S
    PROVE  /\ Proper(P, {}) => Proper(P, S)
           /\ Renewing(P, {}) => Renewing(P, S)
BY DEF Proper, Renewing

LEMMA HandlingBoth ==
    ASSUME NEW Q, NEW R, NEW S, Handling(Q, S), Handling(R, S)
    PROVE  Handling(Q ++ R, S)
BY DEF Handling, ++

LEMMA ExecutorFits ==
    ASSUME NEW P, NEW R, NEW S, Renewing(P, S), Handling(R, S)
    PROVE  /\ Fits(Executor(P, R), S) /\ Fits(Tolerant(Executor(P, R)), S)
           /\ \A Q : Formed(Q) /\ Listing(Q) /\ (\A l \in Limits \ S : BootLooks(Q, l)) =>
                    Fits([Executor(P, R) EXCEPT !.boot = Q], S)
<1> DEFINE more == [securityList |-> OnSecurityListRequest, others |-> OnUnsupportedRequest]
           e == Executor(P, R)
<1>1. Handling(R ++ more, S)
  <2>1. Proper(OnSecurityListRequest, S) /\ Proper(OnUnsupportedRequest, S)
      BY MeasuredShape, DeclinedShape, LessApart DEF OnUnsupportedRequest
  <2>2. Handling(more, S)
      BY <2>1 DEF Handling
  <2> QED
      BY <2>2, HandlingBoth
<1>2. \A l \in Limits \ S : BootLooks(P, l)
    BY DEF Renewing, LooksFirst, BootLooks
<1> DEFINE H == R ++ more
<1>3. e = [update |-> P, boot |-> P, tolerant |-> FALSE, requests |-> H]
    BY DEF Executor
<1>4. Handling(H, S)
    BY <1>1
<1> HIDE DEF H, e
<1>5. /\ e.requests = H /\ e.update = P /\ e.boot = P
      /\ Tolerant(e).requests = H /\ Tolerant(e).update = P /\ Tolerant(e).boot = P
      /\ \A Q : /\ [e EXCEPT !.boot = Q].requests = H
                /\ [e EXCEPT !.boot = Q].update = P /\ [e EXCEPT !.boot = Q].boot = Q
    BY <1>3 DEF Tolerant
<1>6. /\ Fits(e, S) /\ Fits(Tolerant(e), S)
      /\ \A Q : Formed(Q) /\ Listing(Q) /\ (\A l \in Limits \ S : BootLooks(Q, l)) =>
                Fits([e EXCEPT !.boot = Q], S)
    BY <1>2, <1>4, <1>5 DEF Fits, Handling, Renewing
<1> QED
    BY <1>6 DEF e

LEMMA FitsSuits ==
    ASSUME NEW v, NEW S, Fits(Executors[v], S), Followed(v) \subseteq Limits \ S
    PROVE  Suits(v)
<1>1. \A h \in Requests(v) : Proper(Code(v, h), S)
    BY DEF Fits, Requests, Code
<1>2. Code(v, "boot") = Executors[v].boot /\ Code(v, "update") = Executors[v].update
    BY DEF Code
<1> QED
    BY <1>1, <1>2 DEF Fits, Suits, Proper, Renewing, Requests

LEMMA FbinanceFits == Fits(FbinanceExecutor, {"address"})
<1> DEFINE R == [marketStatistics |-> FbinanceOnMarketStatisticsRequest,
                marketData |-> FbinanceOnMarketDataRequest,
                accountInformation |-> FbinanceOnAccountInformationRequest,
                accountMovement |-> FbinanceOnAccountMovementRequest,
                tradeCaptureReport |-> FbinanceOnTradeCaptureReportRequest,
                orderStatus |-> FbinanceOnOrderStatusRequest,
                positions |-> FbinanceOnPositionsRequest,
                balances |-> FbinanceOnBalancesRequest,
                newOrderSingle |-> FbinanceOnNewOrderSingleRequest,
                orderCancel |-> FbinanceOnOrderCancelRequest,
                orderMassCancel |-> FbinanceOnOrderMassCancelRequest]
<1>1. /\ Proper(FbinanceOnMarketStatisticsRequest, {"address"})
      /\ Proper(FbinanceOnMarketDataRequest, {"address"})
      /\ Proper(FbinanceOnAccountInformationRequest, {"address"})
      /\ Proper(FbinanceOnAccountMovementRequest, {"address"})
      /\ Proper(FbinanceOnTradeCaptureReportRequest, {"address"})
      /\ Proper(FbinanceOnOrderStatusRequest, {"address"})
      /\ Proper(FbinanceOnPositionsRequest, {"address"})
      /\ Proper(FbinanceOnBalancesRequest, {"address"})
      /\ Proper(FbinanceOnNewOrderSingleRequest, {"address"})
      /\ Proper(FbinanceOnOrderCancelRequest, {"address"})
      /\ Proper(FbinanceOnOrderMassCancelRequest, {"address"})
    BY FbinanceMarketStatisticsShape, CheckedReadLaterShape, ReadLaterShape,
       FbinanceNewOrderSingleShape, FbinanceOrderCancelShape,
       FbinanceOrderMassCancelShape, LessApart
       DEF FbinanceOnMarketDataRequest, FbinanceOnAccountInformationRequest,
           FbinanceOnAccountMovementRequest, FbinanceOnTradeCaptureReportRequest,
           FbinanceOnOrderStatusRequest, FbinanceOnPositionsRequest,
           FbinanceOnBalancesRequest
<1>2. Handling(R, {"address"})
    BY <1>1 DEF Handling
<1>3. Renewing(FbinanceUpdateSecurityList, {"address"})
    BY FullFromAddressShape, LessApart DEF FbinanceUpdateSecurityList
<1>4. FbinanceExecutor =
          [Executor(FbinanceUpdateSecurityList, R) EXCEPT !.boot = FbinanceInitialize]
    BY DEF FbinanceExecutor
<1>5. /\ Formed(FbinanceInitialize) /\ Listing(FbinanceInitialize)
      /\ \A l \in Limits \ {"address"} : BootLooks(FbinanceInitialize, l)
    BY InitializeShape DEF FbinanceInitialize, FbinanceUpdateSecurityList
<1> HIDE DEF R
<1> QED
    BY <1>2, <1>3, <1>4, <1>5, ExecutorFits

LEMMA BinanceFits == Fits(BinanceExecutor, {})
<1> DEFINE R == [marketData |-> BinanceOnMarketDataRequest,
                tradeCaptureReport |-> BinanceOnTradeCaptureReportRequest,
                orderStatus |-> BinanceOnOrderStatusRequest,
                positions |-> BinanceOnPositionsRequest,
                balances |-> BinanceOnBalancesRequest,
                newOrderSingle |-> BinanceOnNewOrderSingleRequest,
                orderCancel |-> BinanceOnOrderCancelRequest]
               ++ BinanceOnAccountMovementRequest
<1>1. /\ Proper(BinanceOnMarketDataRequest, {})
      /\ Proper(BinanceOnTradeCaptureReportRequest, {})
      /\ Proper(BinanceOnOrderStatusRequest, {})
      /\ Proper(BinanceOnPositionsRequest, {})
      /\ Proper(BinanceOnBalancesRequest, {})
      /\ Proper(BinanceOnNewOrderSingleRequest, {})
      /\ Proper(BinanceOnOrderCancelRequest, {})
      /\ Proper(BinanceOnAccountMovementRequest.deposits, {})
      /\ Proper(BinanceOnAccountMovementRequest.withdrawals, {})
      /\ Proper(BinanceOnAccountMovementRequest.exchanges, {})
      /\ Proper(BinanceOnAccountMovementRequest.otherMovements, {})
    BY CheckedReadLaterShape, ReadLaterShape, DoneAtOnceShape, BinanceBalancesShape,
       BinanceNewOrderSingleShape, BinanceOrderCancelShape, BinanceDepositHistoryShape,
       BinanceWithdrawalHistoryShape, BinanceConvertHistoryShape, IgnoredShape
       DEF BinanceOnMarketDataRequest, BinanceOnTradeCaptureReportRequest,
           BinanceOnOrderStatusRequest, BinanceOnPositionsRequest,
           BinanceOnAccountMovementRequest
<1>2. Handling(R, {})
  <2> DEFINE Q == [marketData |-> BinanceOnMarketDataRequest,
                   tradeCaptureReport |-> BinanceOnTradeCaptureReportRequest,
                   orderStatus |-> BinanceOnOrderStatusRequest,
                   positions |-> BinanceOnPositionsRequest,
                   balances |-> BinanceOnBalancesRequest,
                   newOrderSingle |-> BinanceOnNewOrderSingleRequest,
                   orderCancel |-> BinanceOnOrderCancelRequest]
  <2>1. Handling(Q, {})
      BY <1>1 DEF Handling
  <2>2. Handling(BinanceOnAccountMovementRequest, {})
      BY <1>1 DEF Handling, BinanceOnAccountMovementRequest
  <2> HIDE DEF Q
  <2>3. Handling(Q ++ BinanceOnAccountMovementRequest, {})
      BY <2>1, <2>2, HandlingBoth
  <2> QED
      BY <2>3 DEF Q
<1>3. Renewing(BinanceUpdateSecurityList, {})
    BY FullFromAddressShape DEF BinanceUpdateSecurityList
<1>4. BinanceExecutor =
          [Executor(BinanceUpdateSecurityList, R) EXCEPT !.boot = BinanceInitialize]
    BY DEF BinanceExecutor
<1>5. /\ Formed(BinanceInitialize) /\ Listing(BinanceInitialize)
      /\ \A l \in Limits \ {} : BootLooks(BinanceInitialize, l)
    BY InitializeShape DEF BinanceInitialize, BinanceUpdateSecurityList
<1> HIDE DEF R
<1> QED
    BY <1>2, <1>3, <1>4, <1>5, ExecutorFits

LEMMA KrakenfFits == Fits(KrakenfExecutor, {"address"})
<1> DEFINE R == [historicalFundingRates |-> KrakenfOnHistoricalFundingRatesRequest,
                orderStatus |-> KrakenfOnOrderStatusRequest,
                marketStatistics |-> KrakenfOnMarketStatisticsRequest,
                newOrderSingle |-> KrakenfOnNewOrderSingleRequest,
                balances |-> KrakenfOnBalancesRequest,
                positions |-> KrakenfOnPositionsRequest,
                orderReplace |-> KrakenfOnOrderReplaceRequest,
                orderCancel |-> KrakenfOnOrderCancelRequest,
                orderMassCancel |-> KrakenfOnOrderMassCancelRequest]
<1>1. /\ Proper(KrakenfOnHistoricalFundingRatesRequest, {"address"})
      /\ Proper(KrakenfOnOrderStatusRequest, {"address"})
      /\ Proper(KrakenfOnMarketStatisticsRequest, {"address"})
      /\ Proper(KrakenfOnNewOrderSingleRequest, {"address"})
      /\ Proper(KrakenfOnBalancesRequest, {"address"})
      /\ Proper(KrakenfOnPositionsRequest, {"address"})
      /\ Proper(KrakenfOnOrderReplaceRequest, {"address"})
      /\ Proper(KrakenfOnOrderCancelRequest, {"address"})
      /\ Proper(KrakenfOnOrderMassCancelRequest, {"address"})
    BY KrakenfHistoricalFundingRatesShape, KrakenfOrderStatusShape, DeclinedShape,
       KrakenfNewOrderSingleShape, KrakenfBalancesShape, KrakenfPositionsShape,
       KrakenfOrderReplaceShape, KrakenfOrderCancelShape, KrakenfOrderMassCancelShape,
       LessApart
       DEF KrakenfOnMarketStatisticsRequest
<1>2. Handling(R, {"address"})
    BY <1>1 DEF Handling
<1>3. Renewing(KrakenfUpdateSecurityList, {"address"})
    BY KrakenfListShape, LessApart
<1>4. KrakenfExecutor = Executor(KrakenfUpdateSecurityList, R)
    BY DEF KrakenfExecutor
<1> HIDE DEF R
<1> QED
    BY <1>2, <1>3, <1>4, ExecutorFits

LEMMA BybitlFits == Fits(BybitlExecutor, {"post", "order"})
<1> DEFINE R == [marketStatistics |-> BybitlOnMarketStatisticsRequest,
                balances |-> BybitlOnBalancesRequest,
                positions |-> BybitlOnPositionsRequest,
                accountInformation |-> BybitlOnAccountInformationRequest,
                tradeCaptureReport |-> BybitlOnTradeCaptureReportRequest,
                orderStatus |-> BybitlOnOrderStatusRequest,
                newOrderSingle |-> BybitlOnNewOrderSingleRequest,
                orderCancel |-> BybitlOnOrderCancelRequest,
                orderMassCancel |-> BybitlOnOrderMassCancelRequest,
                orderReplace |-> BybitlOnOrderReplaceRequest]
               ++ BybitlOnAccountMovementRequest
<1>1. /\ Proper(BybitlOnMarketStatisticsRequest, {"post", "order"})
      /\ Proper(BybitlOnBalancesRequest, {"post", "order"})
      /\ Proper(BybitlOnPositionsRequest, {"post", "order"})
      /\ Proper(BybitlOnAccountInformationRequest, {"post", "order"})
      /\ Proper(BybitlOnTradeCaptureReportRequest, {"post", "order"})
      /\ Proper(BybitlOnOrderStatusRequest, {"post", "order"})
      /\ Proper(BybitlOnNewOrderSingleRequest, {"post", "order"})
      /\ Proper(BybitlOnOrderCancelRequest, {"post", "order"})
      /\ Proper(BybitlOnOrderMassCancelRequest, {"post", "order"})
      /\ Proper(BybitlOnOrderReplaceRequest, {"post", "order"})
      /\ Proper(BybitlOnAccountMovementRequest.funding, {"post", "order"})
      /\ Proper(BybitlOnAccountMovementRequest.deposits, {"post", "order"})
      /\ Proper(BybitlOnAccountMovementRequest.withdrawals, {"post", "order"})
      /\ Proper(BybitlOnAccountMovementRequest.otherMovements, {"post", "order"})
    BY BybitlMarketStatisticsShape, BybitlBalancesShape, BybitlPositionsShape,
       BybitlAccountInformationShape, BybitlTradeCaptureReportShape,
       BybitlOrderStatusShape, BybitlNewOrderSingleShape, BybitlOrderCancelShape,
       BybitlOrderMassCancelShape, BybitlOrderReplaceShape, BybitlFundingMovementShape,
       BybitlDepositMovementShape, BybitlWithdrawalMovementShape, IgnoredShape,
       LessApart
       DEF BybitlOnAccountMovementRequest
<1>2. Handling(R, {"post", "order"})
  <2> DEFINE Q == [marketStatistics |-> BybitlOnMarketStatisticsRequest,
                   balances |-> BybitlOnBalancesRequest,
                   positions |-> BybitlOnPositionsRequest,
                   accountInformation |-> BybitlOnAccountInformationRequest,
                   tradeCaptureReport |-> BybitlOnTradeCaptureReportRequest,
                   orderStatus |-> BybitlOnOrderStatusRequest,
                   newOrderSingle |-> BybitlOnNewOrderSingleRequest,
                   orderCancel |-> BybitlOnOrderCancelRequest,
                   orderMassCancel |-> BybitlOnOrderMassCancelRequest,
                   orderReplace |-> BybitlOnOrderReplaceRequest]
  <2>1. Handling(Q, {"post", "order"})
      BY <1>1 DEF Handling
  <2>2. Handling(BybitlOnAccountMovementRequest, {"post", "order"})
      BY <1>1 DEF Handling, BybitlOnAccountMovementRequest
  <2> HIDE DEF Q
  <2>3. Handling(Q ++ BybitlOnAccountMovementRequest, {"post", "order"})
      BY <2>1, <2>2, HandlingBoth
  <2> QED
      BY <2>3 DEF Q
<1>3. Renewing(BybitlUpdateSecurityList, {"post", "order"})
    BY FullFromGetShape, LessApart DEF BybitlUpdateSecurityList
<1>4. BybitlExecutor = Tolerant(Executor(BybitlUpdateSecurityList, R))
    BY DEF BybitlExecutor
<1> HIDE DEF R
<1> QED
    BY <1>2, <1>3, <1>4, ExecutorFits

LEMMA BitmexFits == Fits(BitmexExecutor, {})
<1> DEFINE R == [orderStatus |-> BitmexOnOrderStatusRequest,
                positions |-> BitmexOnPositionsRequest,
                balances |-> BitmexOnBalancesRequest,
                newOrderSingle |-> BitmexOnNewOrderSingleRequest,
                orderReplace |-> BitmexOnOrderReplaceRequest,
                orderCancel |-> BitmexOnOrderCancelRequest,
                orderMassCancel |-> BitmexOnOrderMassCancelRequest]
<1>1. /\ Proper(BitmexOnOrderStatusRequest, {})
      /\ Proper(BitmexOnPositionsRequest, {})
      /\ Proper(BitmexOnBalancesRequest, {})
      /\ Proper(BitmexOnNewOrderSingleRequest, {})
      /\ Proper(BitmexOnOrderReplaceRequest, {})
      /\ Proper(BitmexOnOrderCancelRequest, {})
      /\ Proper(BitmexOnOrderMassCancelRequest, {})
    BY CheckedFetchedLaterShape, FetchedLaterShape, BitmexNewOrderSingleShape,
       BitmexOrderReplaceShape, BitmexOrderCancelShape, BitmexOrderMassCancelShape
       DEF BitmexOnOrderStatusRequest, BitmexOnPositionsRequest, BitmexOnBalancesRequest
<1>2. Handling(R, {})
    BY <1>1 DEF Handling
<1>3. Renewing(BitmexUpdateSecurityList, {})
    BY ListFromAddressShape DEF BitmexUpdateSecurityList
<1>4. BitmexExecutor = Executor(BitmexUpdateSecurityList, R)
    BY DEF BitmexExecutor
<1> HIDE DEF R
<1> QED
    BY <1>2, <1>3, <1>4, ExecutorFits

LEMMA DydxFits == Fits(DydxExecutor, {"get"})
<1> DEFINE R == [orderStatus |-> DydxOnOrderStatusRequest,
                positions |-> DydxOnPositionsRequest,
                balances |-> DydxOnBalancesRequest,
                newOrderSingle |-> DydxOnNewOrderSingleRequest,
                newOrderBulk |-> DydxOnNewOrderBulkRequest,
                orderReplace |-> DydxOnOrderReplaceRequest,
                orderBulkReplace |-> DydxOnOrderBulkReplaceRequest,
                orderCancel |-> DydxOnOrderCancelRequest,
                orderMassCancel |-> DydxOnOrderMassCancelRequest]
<1>1. /\ Proper(DydxOnOrderStatusRequest, {"get"})
      /\ Proper(DydxOnPositionsRequest, {"get"})
      /\ Proper(DydxOnBalancesRequest, {"get"})
      /\ Proper(DydxOnNewOrderSingleRequest, {"get"})
      /\ Proper(DydxOnNewOrderBulkRequest, {"get"})
      /\ Proper(DydxOnOrderReplaceRequest, {"get"})
      /\ Proper(DydxOnOrderBulkReplaceRequest, {"get"})
      /\ Proper(DydxOnOrderCancelRequest, {"get"})
      /\ Proper(DydxOnOrderMassCancelRequest, {"get"})
    BY DydxOrderStatusShape, DydxPositionsShape, DydxBalancesShape,
       DydxNewOrderSingleShape, IgnoredShape, DydxOrderCancelShape, LessApart
       DEF DydxOnNewOrderBulkRequest, DydxOnOrderReplaceRequest,
           DydxOnOrderBulkReplaceRequest, DydxOnOrderMassCancelRequest
<1>2. Handling(R, {"get"})
    BY <1>1 DEF Handling
<1>3. Renewing(DydxUpdateSecurityList, {"get"})
    BY DydxListShape, LessApart
<1>4. DydxExecutor = Executor(DydxUpdateSecurityList, R)
    BY DEF DydxExecutor
<1> HIDE DEF R
<1> QED
    BY <1>2, <1>3, <1>4, ExecutorFits

LEMMA OkexFits == Fits(OkexExecutor, {})
<1> DEFINE R == [historicalLiquidations |-> OkexOnHistoricalLiquidationsRequest,
                balances |-> OkexOnBalancesRequest,
                positions |-> OkexOnPositionsRequest,
                historicalFundingRates |-> OkexOnHistoricalFundingRatesRequest,
                marketStatistics |-> OkexOnMarketStatisticsRequest]
               ++ OkexOnOrderStatusRequest
<1>1. /\ Proper(OkexOnHistoricalLiquidationsRequest, {})
      /\ Proper(OkexOnBalancesRequest, {})
      /\ Proper(OkexOnPositionsRequest, {})
      /\ Proper(OkexOnHistoricalFundingRatesRequest, {})
      /\ Proper(OkexOnMarketStatisticsRequest, {})
      /\ Proper(OkexOnOrderStatusRequest.anOrder, {})
      /\ Proper(OkexOnOrderStatusRequest.allOrders, {})
    BY CheckedFetchedLaterShape, OkexBalancesShape, OkexPositionsShape,
       FetchedLaterShape, StatisticsReadShape, ReadLaterShape, OkexAllOrdersShape
       DEF OkexOnHistoricalLiquidationsRequest, OkexOnHistoricalFundingRatesRequest,
           OkexOnMarketStatisticsRequest, OkexOnOrderStatusRequest
<1>2. Handling(R, {})
  <2> DEFINE Q == [historicalLiquidations |-> OkexOnHistoricalLiquidationsRequest,
                   balances |-> OkexOnBalancesRequest,
                   positions |-> OkexOnPositionsRequest,
                   historicalFundingRates |-> OkexOnHistoricalFundingRatesRequest,
                   marketStatistics |-> OkexOnMarketStatisticsRequest]
  <2>1. Handling(Q, {})
      BY <1>1 DEF Handling
  <2>2. Handling(OkexOnOrderStatusRequest, {})
      BY <1>1 DEF Handling, OkexOnOrderStatusRequest
  <2> HIDE DEF Q
  <2>3. Handling(Q ++ OkexOnOrderStatusRequest, {})
      BY <2>1, <2>2, HandlingBoth
  <2> QED
      BY <2>3 DEF Q
<1>3. Renewing(OkexUpdateSecurityList, {})
    BY ListFromAddressShape DEF OkexUpdateSecurityList
<1>4. OkexExecutor = Executor(OkexUpdateSecurityList, R)
    BY DEF OkexExecutor
<1> HIDE DEF R
<1> QED
    BY <1>2, <1>3, <1>4, ExecutorFits

LEMMA OkexpFits == Fits(OkexpExecutor, {})
<1> DEFINE R == [historicalLiquidations |-> OkexpOnHistoricalLiquidationsRequest,
                historicalFundingRates |-> OkexpOnHistoricalFundingRatesRequest,
                marketStatistics |-> OkexpOnMarketStatisticsRequest]
<1>1. /\ Proper(OkexpOnHistoricalLiquidationsRequest, {})
      /\ Proper(OkexpOnHistoricalFundingRatesRequest, {})
      /\ Proper(OkexpOnMarketStatisticsRequest, {})
    BY CheckedFetchedLaterShape, StatisticsReadShape
       DEF OkexpOnHistoricalLiquidationsRequest, OkexpOnHistoricalFundingRatesRequest,
           OkexpOnMarketStatisticsRequest
<1>2. Handling(R, {})
    BY <1>1 DEF Handling
<1>3. Renewing(OkexpUpdateSecurityList, {})
    BY ListFromAddressShape DEF OkexpUpdateSecurityList
<1>4. OkexpExecutor = Executor(OkexpUpdateSecurityList, R)
    BY DEF OkexpExecutor
<1> HIDE DEF R
<1> QED
    BY <1>2, <1>3, <1>4, ExecutorFits

LEMMA BitfinexFits == Fits(BitfinexExecutor, {})
<1> DEFINE R == [marketData |-> BitfinexOnMarketDataRequest]
<1>1. /\ Proper(BitfinexOnMarketDataRequest, {})
    BY CheckedFetchedLaterShape
       DEF BitfinexOnMarketDataRequest
<1>2. Handling(R, {})
    BY <1>1 DEF Handling
<1>3. Renewing(BitfinexUpdateSecurityList, {})
    BY ListFromListShape DEF BitfinexUpdateSecurityList
<1>4. BitfinexExecutor = Tolerant(Executor(BitfinexUpdateSecurityList, R))
    BY DEF BitfinexExecutor
<1> HIDE DEF R
<1> QED
    BY <1>2, <1>3, <1>4, ExecutorFits

LEMMA BithumbFits == Fits(BithumbExecutor, {})
BY ListFromAddressShape, ExecutorFits
   DEF Handling, BithumbExecutor, BithumbUpdateSecurityList, NoRequest

LEMMA BithumbgFits == Fits(BithumbgExecutor, {})
<1> DEFINE R == BithumbgOnMarketDataRequest
<1>1. /\ Proper(BithumbgOnMarketDataRequest.snapshots, {})
      /\ Proper(BithumbgOnMarketDataRequest.otherAggregations, {})
    BY BithumbgSnapshotsShape, BithumbgOthersShape
<1>2. Handling(R, {})
    BY <1>1 DEF Handling, BithumbgOnMarketDataRequest
<1>3. Renewing(BithumbgUpdateSecurityList, {})
    BY ListFromAddressShape DEF BithumbgUpdateSecurityList
<1>4. BithumbgExecutor = Executor(BithumbgUpdateSecurityList, R)
    BY DEF BithumbgExecutor
<1> HIDE DEF R
<1> QED
    BY <1>2, <1>3, <1>4, ExecutorFits

LEMMA BitstampFits == Fits(BitstampExecutor, {})
<1> DEFINE R == [marketData |-> BitstampOnMarketDataRequest]
<1>1. /\ Proper(BitstampOnMarketDataRequest, {})
    BY CheckedFetchedLaterShape
       DEF BitstampOnMarketDataRequest
<1>2. Handling(R, {})
    BY <1>1 DEF Handling
<1>3. Renewing(BitstampUpdateSecurityList, {})
    BY ListFromAddressShape DEF BitstampUpdateSecurityList
<1>4. BitstampExecutor = Executor(BitstampUpdateSecurityList, R)
    BY DEF BitstampExecutor
<1> HIDE DEF R
<1> QED
    BY <1>2, <1>3, <1>4, ExecutorFits

LEMMA BitzFits == Fits(BitzExecutor, {})
BY BitzListShape, ExecutorFits
   DEF Handling, BitzExecutor, NoRequest

LEMMA BybitiFits == Fits(BybitiExecutor, {})
<1> DEFINE R == [historicalLiquidations |-> BybitiOnHistoricalLiquidationsRequest,
                marketStatistics |-> BybitiOnMarketStatisticsRequest]
<1>1. /\ Proper(BybitiOnHistoricalLiquidationsRequest, {})
      /\ Proper(BybitiOnMarketStatisticsRequest, {})
    BY CheckedFetchedLaterShape, DeclinedShape
       DEF BybitiOnHistoricalLiquidationsRequest, BybitiOnMarketStatisticsRequest
<1>2. Handling(R, {})
    BY <1>1 DEF Handling
<1>3. Renewing(BybitiUpdateSecurityList, {})
    BY ListFromAddressShape DEF BybitiUpdateSecurityList
<1>4. BybitiExecutor = Tolerant(Executor(BybitiUpdateSecurityList, R))
    BY DEF BybitiExecutor
<1> HIDE DEF R
<1> QED
    BY <1>2, <1>3, <1>4, ExecutorFits

LEMMA BybitsFits == Fits(BybitsExecutor, {})
BY ListFromAddressShape, ExecutorFits
   DEF Handling, BybitsExecutor, BybitsUpdateSecurityList, NoRequest

LEMMA CoinbaseproFits == Fits(CoinbaseproExecutor, {})
<1> DEFINE R == [historicalLiquidations |-> CoinbaseproOnHistoricalLiquidationsRequest,
                marketStatistics |-> CoinbaseproOnMarketStatisticsRequest,
                marketData |-> CoinbaseproOnMarketDataRequest]
<1>1. /\ Proper(CoinbaseproOnHistoricalLiquidationsRequest, {})
      /\ Proper(CoinbaseproOnMarketStatisticsRequest, {})
      /\ Proper(CoinbaseproOnMarketDataRequest, {})
    BY DeclinedShape, CoinbaseproMarketDataShape
       DEF CoinbaseproOnHistoricalLiquidationsRequest,
           CoinbaseproOnMarketStatisticsRequest
<1>2. Handling(R, {})
    BY <1>1 DEF Handling
<1>3. Renewing(CoinbaseproUpdateSecurityList, {})
    BY ListFromAddressShape DEF CoinbaseproUpdateSecurityList
<1>4. CoinbaseproExecutor = Executor(CoinbaseproUpdateSecurityList, R)
    BY DEF CoinbaseproExecutor
<1> HIDE DEF R
<1> QED
    BY <1>2, <1>3, <1>4, ExecutorFits

LEMMA DeribitFits == Fits(DeribitExecutor, {})
<1> DEFINE R == [historicalLiquidations |-> DeribitOnHistoricalLiquidationsRequest,
                marketStatistics |-> DeribitOnMarketStatisticsRequest]
<1>1. /\ Proper(DeribitOnHistoricalLiquidationsRequest, {})
      /\ Proper(DeribitOnMarketStatisticsRequest, {})
    BY DeclinedShape
       DEF DeribitOnHistoricalLiquidationsRequest, DeribitOnMarketStatisticsRequest
<1>2. Handling(R, {})
    BY <1>1 DEF Handling
<1>3. Renewing(DeribitUpdateSecurityList, {})
    BY DeribitListShape
<1>4. DeribitExecutor = Executor(DeribitUpdateSecurityList, R)
    BY DEF DeribitExecutor
<1> HIDE DEF R
<1> QED
    BY <1>2, <1>3, <1>4, ExecutorFits

LEMMA GateFits == Fits(GateExecutor, {})
<1> DEFINE R == [historicalLiquidations |-> GateOnHistoricalLiquidationsRequest,
                marketStatistics |-> GateOnMarketStatisticsRequest,
                marketData |-> GateOnMarketDataRequest]
<1>1. /\ Proper(GateOnHistoricalLiquidationsRequest, {})
      /\ Proper(GateOnMarketStatisticsRequest, {})
      /\ Proper(GateOnMarketDataRequest, {})
    BY DeclinedShape, CheckedFetchedLaterShape
       DEF GateOnHistoricalLiquidationsRequest, GateOnMarketStatisticsRequest,
           GateOnMarketDataRequest
<1>2. Handling(R, {})
    BY <1>1 DEF Handling
<1>3. Renewing(GateUpdateSecurityList, {})
    BY ListFromAddressShape DEF GateUpdateSecurityList
<1>4. GateExecutor = Executor(GateUpdateSecurityList, R)
    BY DEF GateExecutor
<1> HIDE DEF R
<1> QED
    BY <1>2, <1>3, <1>4, ExecutorFits

LEMMA GatefFits == Fits(GatefExecutor, {})
<1> DEFINE R == [historicalLiquidations |-> GatefOnHistoricalLiquidationsRequest,
                marketStatistics |-> GatefOnMarketStatisticsRequest,
                marketData |-> GatefOnMarketDataRequest]
<1>1. /\ Proper(GatefOnHistoricalLiquidationsRequest, {})
      /\ Proper(GatefOnMarketStatisticsRequest, {})
      /\ Proper(GatefOnMarketDataRequest, {})
    BY DeclinedShape, CheckedFetchedLaterShape
       DEF GatefOnHistoricalLiquidationsRequest, GatefOnMarketStatisticsRequest,
           GatefOnMarketDataRequest
<1>2. Handling(R, {})
    BY <1>1 DEF Handling
<1>3. Renewing(GatefUpdateSecurityList, {})
    BY ListFromAddressShape DEF GatefUpdateSecurityList
<1>4. GatefExecutor = Executor(GatefUpdateSecurityList, R)
    BY DEF GatefExecutor
<1> HIDE DEF R
<1> QED
    BY <1>2, <1>3, <1>4, ExecutorFits

LEMMA GeminiFits == Fits(GeminiExecutor, {})
BY ListFromAddressShape, ExecutorFits
   DEF Handling, GeminiExecutor, GeminiUpdateSecurityList, NoRequest

LEMMA HitbtcFits == Fits(HitbtcExecutor, {})
BY ListFromAddressShape, ExecutorFits
   DEF Handling, HitbtcExecutor, HitbtcUpdateSecurityList, NoRequest

LEMMA HuobiFits == Fits(HuobiExecutor, {})
BY ListFromAddressShape, ExecutorFits
   DEF Handling, HuobiExecutor, HuobiUpdateSecurityList, NoRequest

LEMMA HuobifFits == Fits(HuobifExecutor, {})
BY ListFromAddressShape, ExecutorFits
   DEF Handling, HuobifExecutor, HuobifUpdateSecurityList, NoRequest

LEMMA HuobilFits == Fits(HuobilExecutor, {})
<1> DEFINE R == [marketStatistics |-> HuobilOnMarketStatisticsRequest]
<1>1. /\ Proper(HuobilOnMarketStatisticsRequest, {})
    BY StatisticsReadShape
       DEF HuobilOnMarketStatisticsRequest
<1>2. Handling(R, {})
    BY <1>1 DEF Handling
<1>3. Renewing(HuobilUpdateSecurityList, {})
    BY ListFromAddressShape DEF HuobilUpdateSecurityList
<1>4. HuobilExecutor = Executor(HuobilUpdateSecurityList, R)
    BY DEF HuobilExecutor
<1> HIDE DEF R
<1> QED
    BY <1>2, <1>3, <1>4, ExecutorFits

LEMMA HuobipFits == Fits(HuobipExecutor, {})
<1> DEFINE R == [marketStatistics |-> HuobipOnMarketStatisticsRequest]
<1>1. /\ Proper(HuobipOnMarketStatisticsRequest, {})
    BY StatisticsReadShape
       DEF HuobipOnMarketStatisticsRequest
<1>2. Handling(R, {})
    BY <1>1 DEF Handling
<1>3. Renewing(HuobipUpdateSecurityList, {})
    BY ListFromAddressShape DEF HuobipUpdateSecurityList
<1>4. HuobipExecutor = Executor(HuobipUpdateSecurityList, R)
    BY DEF HuobipExecutor
<1> HIDE DEF R
<1> QED
    BY <1>2, <1>3, <1>4, ExecutorFits

LEMMA KrakenFits == Fits(KrakenExecutor, {})
<1> DEFINE R == [historicalLiquidations |-> KrakenOnHistoricalLiquidationsRequest,
                marketData |-> KrakenOnMarketDataRequest]
<1>1. /\ Proper(KrakenOnHistoricalLiquidationsRequest, {})
      /\ Proper(KrakenOnMarketDataRequest, {})
    BY DeclinedShape, CheckedFetchedLaterShape
       DEF KrakenOnHistoricalLiquidationsRequest, KrakenOnMarketDataRequest
<1>2. Handling(R, {})
    BY <1>1 DEF Handling
<1>3. Renewing(KrakenUpdateSecurityList, {})
    BY KrakenListShape
<1>4. KrakenExecutor = Executor(KrakenUpdateSecurityList, R)
    BY DEF KrakenExecutor
<1> HIDE DEF R
<1> QED
    BY <1>2, <1>3, <1>4, ExecutorFits

LEMMA OkcoinFits == Fits(OkcoinExecutor, {})
BY OkcoinListShape, ExecutorFits
   DEF Handling, OkcoinExecutor, NoRequest

LEMMA UpbitFits == Fits(UpbitExecutor, {})
<1> DEFINE R == [historicalLiquidations |-> UpbitOnHistoricalLiquidationsRequest,
                marketStatistics |-> UpbitOnMarketStatisticsRequest,
                marketData |-> UpbitOnMarketDataRequest,
                orderStatus |-> UpbitOnOrderStatusRequest,
                positions |-> UpbitOnPositionsRequest,
                balances |-> UpbitOnBalancesRequest,
                newOrderSingle |-> UpbitOnNewOrderSingleRequest,
                newOrderBulk |-> UpbitOnNewOrderBulkRequest,
                orderReplace |-> UpbitOnOrderReplaceRequest,
                orderBulkReplace |-> UpbitOnOrderBulkReplaceRequest,
                orderCancel |-> UpbitOnOrderCancelRequest,
                orderMassCancel |-> UpbitOnOrderMassCancelRequest]
<1>1. /\ Proper(UpbitOnHistoricalLiquidationsRequest, {})
      /\ Proper(UpbitOnMarketStatisticsRequest, {})
      /\ Proper(UpbitOnMarketDataRequest, {})
      /\ Proper(UpbitOnOrderStatusRequest, {})
      /\ Proper(UpbitOnPositionsRequest, {})
      /\ Proper(UpbitOnBalancesRequest, {})
      /\ Proper(UpbitOnNewOrderSingleRequest, {})
      /\ Proper(UpbitOnNewOrderBulkRequest, {})
      /\ Proper(UpbitOnOrderReplaceRequest, {})
      /\ Proper(UpbitOnOrderBulkReplaceRequest, {})
      /\ Proper(UpbitOnOrderCancelRequest, {})
      /\ Proper(UpbitOnOrderMassCancelRequest, {})
    BY DeclinedShape, IgnoredShape
       DEF UpbitOnHistoricalLiquidationsRequest, UpbitOnMarketStatisticsRequest,
           UpbitOnMarketDataRequest, UpbitOnOrderStatusRequest, UpbitOnPositionsRequest,
           UpbitOnBalancesRequest, UpbitOnNewOrderSingleRequest,
           UpbitOnNewOrderBulkRequest, UpbitOnOrderReplaceRequest,
           UpbitOnOrderBulkReplaceRequest, UpbitOnOrderCancelRequest,
           UpbitOnOrderMassCancelRequest
<1>2. Handling(R, {})
    BY <1>1 DEF Handling
<1>3. Renewing(UpbitUpdateSecurityList, {})
    BY ListFromAddressShape DEF UpbitUpdateSecurityList
<1>4. UpbitExecutor = Executor(UpbitUpdateSecurityList, R)
    BY DEF UpbitExecutor
<1> HIDE DEF R
<1> QED
    BY <1>2, <1>3, <1>4, ExecutorFits

\* Every executor has the shapes, each with the limits it counts under
\* without a look apart.
LEMMA AllFit ==
    /\ Fits(Executors["fbinance"], {"address"})
    /\ Fits(Executors["binance"], {})
    /\ Fits(Executors["krakenf"], {"address"})
    /\ Fits(Executors["bybitl"], {"post", "order"})
    /\ Fits(Executors["bitmex"], {})
    /\ Fits(Executors["dydx"], {"get"})
    /\ Fits(Executors["okex"], {})
    /\ Fits(Executors["okexp"], {})
    /\ Fits(Executors["bitfinex"], {})
    /\ Fits(Executors["bithumb"], {})
    /\ Fits(Executors["bithumbg"], {})
    /\ Fits(Executors["bitstamp"], {})
    /\ Fits(Executors["bitz"], {})
    /\ Fits(Executors["bybiti"], {})
    /\ Fits(Executors["bybits"], {})
    /\ Fits(Executors["coinbasepro"], {})
    /\ Fits(Executors["deribit"], {})
    /\ Fits(Executors["gate"], {})
    /\ Fits(Executors["gatef"], {})
    /\ Fits(Executors["gemini"], {})
    /\ Fits(Executors["hitbtc"], {})
    /\ Fits(Executors["huobi"], {})
    /\ Fits(Executors["huobif"], {})
    /\ Fits(Executors["huobil"], {})
    /\ Fits(Executors["huobip"], {})
    /\ Fits(Executors["kraken"], {})
    /\ Fits(Executors["okcoin"], {})
    /\ Fits(Executors["upbit"], {})
BY FbinanceFits, BinanceFits, KrakenfFits, BybitlFits, BitmexFits, DydxFits, OkexFits,
   OkexpFits, BitfinexFits, BithumbFits, BithumbgFits, BitstampFits, BitzFits,
   BybitiFits, BybitsFits, CoinbaseproFits, DeribitFits, GateFits, GatefFits,
   GeminiFits, HitbtcFits, HuobiFits, HuobifFits, HuobilFits, HuobipFits, KrakenFits,
   OkcoinFits, UpbitFits DEF Executors

LEMMA AllSuit ==
    ASSUME NEW v \in Venues
    PROVE  Suits(v)
<1>1. v \in DOMAIN Executors
    BY ExecutorAssumption
<1>2. v \in {"fbinance", "binance", "krakenf", "bybitl", "bitmex", "dydx", "okex",
             "okexp", "bitfinex", "bithumb", "bithumbg", "bitstamp", "bitz", "bybiti",
             "bybits", "coinbasepro", "deribit", "gate", "gatef", "gemini", "hitbtc",
             "huobi", "huobif", "huobil", "huobip", "kraken", "okcoin", "upbit"}
    BY <1>1 DEF Executors
<1>3. CASE v \in {"fbinance", "krakenf"}
  <2>1. Followed(v) \subseteq Limits \ {"address"}
      BY <1>3 DEF Followed, Unlooked
  <2>2. Fits(Executors[v], {"address"})
      BY <1>3, AllFit
  <2> QED
      BY <2>1, <2>2, FitsSuits
<1>4. CASE v \in {"binance", "bitmex", "okex", "okexp", "bitfinex", "bithumb",
                  "bithumbg", "bitstamp", "bitz", "bybiti", "bybits", "coinbasepro",
                  "deribit", "gate", "gatef", "gemini", "hitbtc", "huobi", "huobif",
                  "huobil", "huobip", "kraken", "okcoin", "upbit"}
  <2>1. Followed(v) \subseteq Limits \ {}
      BY <1>4 DEF Followed, Unlooked
  <2>2. Fits(Executors[v], {})
      BY <1>4, AllFit
  <2> QED
      BY <2>1, <2>2, FitsSuits
<1>5. CASE v \in {"bybitl"}
  <2>1. Followed(v) \subseteq Limits \ {"post", "order"}
      BY <1>5 DEF Followed, Unlooked
  <2>2. Fits(Executors[v], {"post", "order"})
      BY <1>5, AllFit
  <2> QED
      BY <2>1, <2>2, FitsSuits
<1>6. CASE v \in {"dydx"}
  <2>1. Followed(v) \subseteq Limits \ {"get"}
      BY <1>6 DEF Followed, Unlooked
  <2>2. Fits(Executors[v], {"get"})
      BY <1>6, AllFit
  <2> QED
      BY <2>1, <2>2, FitsSuits
<1> QED
    BY <1>2, <1>3, <1>4, <1>5, <1>6

(***************************************************************************)
(* The theorems.                                                            *)
(***************************************************************************)
\* What the invariant says holds of every behaviour.
THEOREM BaseAlways == Spec => [](Base /\ Counted)
<1>1. Init => Base /\ Counted
    BY InitHere, AllSuit
<1>2. Base /\ Counted /\ [Next]_vars => (Base /\ Counted)'
    BY NextHere, AllSuit
<1> QED
    BY <1>1, <1>2, PTL DEF Spec

\* What the invariant says of a request that is over.
LEMMA OverFacts ==
    ASSUME Base, NEW j \in Slots, Over(j)
    PROVE  /\ Once(venue, job[j]) /\ True(venue, job[j])
           /\ job[j].of \in Requests(venue) /\ Program(j) = Code(venue, job[j].of)
<1>1. Good(venue, j, job[j]) /\ job[j].mode = "over"
    BY DEF Base, Over, Everyone
<1> QED
    BY <1>1 DEF Good, Typed, Program, Executing, Code

\* A request is answered once, whatever is wrong with it, the limits or the
\* reply (OnXRequest of every executor; AnsweredOnce).
THEOREM RequestsAnsweredOnce == Spec => []AnsweredOnce
<1>1. Base /\ Counted => AnsweredOnce
  <2> SUFFICES ASSUME Base, NEW j \in Slots, Over(j)
      PROVE  /\ job[j].answers <= 1 \/ Program(j) \in AnsweredTwice
             /\ job[j].answers >= 1 \/ Program(j) \in NotAnswered
                    \/ job[j].failed \/ job[j].reply = "redirect"
      BY DEF AnsweredOnce
  <2> QED
      BY OverFacts DEF Once, Over
<1> QED
    BY <1>1, BaseAlways, PTL

\* No success is answered for a query that failed, and no command that the
\* venue carried out is answered as refused (AnswerIsTrue).
THEOREM AnswersAreTrue == Spec => []AnswerIsTrue
<1>1. Base /\ Counted => AnswerIsTrue
  <2> SUFFICES ASSUME Base, NEW j \in Slots, Over(j), Program(j) \notin Unchecked
      PROVE  /\ job[j].answer = "success" => job[j].reply \in {"fine", "odd"}
             /\ job[j].answer = "refused" => ~job[j].acted \/ job[j].reply = "odd"
      BY DEF AnswerIsTrue
  <2> QED
      BY OverFacts DEF True, Over
<1> QED
    BY <1>1, BaseAlways, PTL

\* However many requests look at a limit together, the queries of a window
\* exceed it by fewer than there are requests (WithinLimits).
THEOREM QueriesWithinLimits == Spec => []WithinLimits
<1>1. Base /\ Counted => WithinLimits
  <2> SUFFICES ASSUME Base, Counted, NEW l \in Limits,
                      ~(venue \in DOMAIN Unlooked /\ l \in Unlooked[venue])
      PROVE  spent[l] < Capacity[l] + Cardinality(Slots)
      BY DEF WithinLimits
  <2>1. l \in Followed(venue)
      BY DEF Followed
  <2>2. spent[l] + Cardinality(Looking(l)) < Capacity[l] + Cardinality(Slots)
      BY <2>1 DEF Counted
  <2>3. /\ Cardinality(Looking(l)) \in Nat /\ Cardinality(Slots) \in Nat
      BY LookingSet, LookingFew
  <2>4. spent[l] \in Nat /\ Capacity[l] \in Nat
      BY ExecutorAssumption DEF Base, Globals, Limits
  <2> QED
      BY <2>2, <2>3, <2>4
<1> QED
    BY <1>1, BaseAlways, PTL

\* The type invariant: one job at a time has the actor (TypeOK).
THEOREM ExecutorTypes == Spec => []TypeOK
<1>1. Base /\ Counted => TypeOK
  <2> SUFFICES ASSUME Base PROVE TypeOK
      OBVIOUS
  <2>1. venue \in DOMAIN Executors
      BY ExecutorAssumption DEF Base, Globals
  <2>2. \A j, k \in DOMAIN job :
            (job[j].mode = "actor" /\ job[k].mode = "actor") => j = k
      BY DEF Base, Globals, OneActor
  <2>3. ASSUME NEW j \in DOMAIN job
        PROVE  /\ job[j].of \in DOMAIN Executing.requests \cup {"none", "boot", "update"}
               /\ job[j].mode \in {"idle", "actor", "task", "await", "over"}
               /\ job[j].answer \in {"none", "success", "refused", "unsure"}
               /\ job[j].reply \in Replies
               /\ job[j].version \in 0 .. MaxVersions
    <3>1. job[j] \in Jobs(venue)
        BY DEF Base, Globals, Good, Typed
    <3> QED
        BY <3>1 DEF Jobs, Modes, Requests, Executing
  <2> QED
      BY <2>1, <2>2, <2>3 DEF TypeOK, Base, Globals
<1> QED
    BY <1>1, BaseAlways, PTL

(***************************************************************************)
(* The lists go forward.  With one timer one update is under way at a time; *)
(* a second boot sets a second timer, so that it need not be followed.      *)
(***************************************************************************)
\* No list in use is newer than the venue's.
Listable ==
    /\ \A j \in Everyone : job[j].version <= listed
    /\ \A j \in Updating : job[j].mode \in Active
    /\ held <= listed /\ known <= listed
    /\ \A i \in 1 .. Len(posted) : posted[i] <= listed

\* A list that is not empty is no older than those the parent has or will get.
Newer(v) == v = 0 \/ (known <= v /\ \A i \in 1 .. Len(posted) : posted[i] <= v)

\* The parent gets them in order.
InOrder ==
    \A i \in 1 .. Len(posted) :
        posted[i] = 0 \/ (known <= posted[i] /\ \A k \in 1 .. i - 1 : posted[k] <= posted[i])

\* The one update there is has a list as new as the one it will replace.
OneUpdate ==
    /\ \A j, k \in Updating : j = k
    /\ \A j \in Updating : LET v == job[j].version
                           IN  Newer(v) /\ (v = 0 \/ job[j].old \/ held <= v)

\* A boot replaces the empty list.
BootSyncs ==
    LET P == Code(venue, "boot") IN
    job[Boot].mode = "actor" =>
        held = 0 \/ \A k \in job[Boot].at .. Len(P) : P[k].do # "sync"

Forward ==
    /\ Listable
    /\ Prompt =>
        /\ chains = 0 => Updating = {} /\ known = 0 /\ posted = << >>
        /\ chains <= 1 => InOrder /\ OneUpdate /\ BootSyncs

\* Job r of an executor whose timers and lists are these is followed by q.
Continues(r, q) ==
    /\ q.of = "update" => /\ r.of = "update" /\ q.mode \in Active
                          /\ q.old = r.old \/ q.old
                          /\ q.version \in {0, r.version, listed}
    /\ q.version \in {0, r.version, listed, held}

\* A step that replaces no list, starts no update and sends the parent nothing.
Calm ==
    /\ UNCHANGED <<venue, lists>>
    /\ \A k \in Everyone : Continues(job[k], job'[k])
    /\ \/ /\ chains' = chains /\ held' \in {0, held}
          /\ job'[Boot].mode = "actor" =>
                held' = 0 \/ (job[Boot].mode = "actor" /\ job'[Boot].at >= job[Boot].at)
       \/ /\ chains' = IF chains < MaxChains THEN chains + 1 ELSE chains
          /\ job'[Boot].mode # "actor" /\ held' = held

\* What lists and jobs are, in numbers.
LEMMA ListTypes ==
    ASSUME Base
    PROVE  /\ listed \in Nat /\ held \in Nat /\ known \in Nat /\ chains \in Nat
           /\ posted \in Seq(Nat) /\ Len(posted) \in Nat
           /\ \A i \in 1 .. Len(posted) : posted[i] \in Nat
           /\ \A j \in Everyone : job[j].version \in Nat /\ job[j] \in Jobs(venue)
           /\ DOMAIN job = Everyone /\ Boot \in Everyone /\ Boot \notin Slots
           /\ Updating \subseteq Everyone \ {Boot}
<1>1. /\ MaxVersions \in Nat /\ MaxChains \in Nat /\ Boot \notin Slots
      /\ DOMAIN job = Everyone
    BY ExecutorAssumption DEF Base, Globals
<1>2. /\ listed \in Nat /\ held \in Nat /\ known \in Nat /\ chains \in Nat
    BY <1>1 DEF Base, Globals
<1>3. posted \in Seq(Nat)
  <2>1. posted \in Seq(0 .. MaxVersions)
      BY DEF Base, Globals
  <2>2. 0 .. MaxVersions \subseteq Nat
      BY <1>1
  <2>3. \A V, W : posted \in Seq(V) /\ V \subseteq W => posted \in Seq(W)
      OBVIOUS
  <2> QED
      BY <2>1, <2>2, <2>3
<1>4. \A j \in Everyone : job[j] \in Jobs(venue)
    BY DEF Base, Good, Typed
<1>5. \A j \in Everyone : job[j].version \in Nat
    BY <1>1, <1>4 DEF Jobs
<1>6. Updating \subseteq Everyone \ {Boot}
    BY <1>1 DEF Updating, Everyone
<1> QED
    BY <1>1, <1>2, <1>3, <1>4, <1>5, <1>6 DEF Everyone

\* The invariant holds at first.
LEMMA ForwardInit ==
    ASSUME Init
    PROVE  Forward
<1>1. Boot \notin Slots
    BY ExecutorAssumption
<1>2. /\ job = [j \in Everyone |-> IF j = Boot THEN Job("boot", "actor") ELSE Idle]
      /\ chains = 0 /\ listed = 1 /\ held = 0 /\ posted = << >> /\ known = 0
    BY DEF Init, Everyone
<1>3. \A j \in Everyone : job[j].version = 0 /\ job[j].of # "update"
    BY <1>2 DEF Job, Idle
<1>4. Updating = {}
    BY <1>3 DEF Updating, Everyone
<1>5. Len(posted) = 0
    BY <1>2
<1> QED
    BY <1>2, <1>3, <1>4, <1>5 DEF Forward, Listable, InOrder, OneUpdate, BootSyncs

\* A calm step keeps it.
LEMMA CalmKeeps ==
    ASSUME MaxChains \in Nat, MaxChains > 1, Base, Base', Forward, Calm
    PROVE  /\ Forward'
           /\ known' = known /\ (held' = held \/ held' = 0)
<1>1. /\ listed' = listed /\ posted' = posted /\ known' = known /\ venue' = venue
      /\ held' \in {0, held} /\ (chains' = chains \/ chains' = chains + 1 \/ chains' > 1)
    BY ListTypes DEF Calm, lists
<1>2. /\ listed \in Nat /\ held \in Nat /\ known \in Nat /\ chains \in Nat
      /\ \A i \in 1 .. Len(posted) : posted[i] \in Nat
      /\ \A j \in Everyone : job[j].version \in Nat
      /\ Updating \subseteq Everyone
    BY ListTypes
<1>3. \A j \in Everyone : Continues(job[j], job'[j])
    BY DEF Calm
<1>4. /\ Updating' \subseteq Updating
      /\ \A j \in Updating' : job'[j].mode \in Active
    BY <1>3 DEF Continues, Updating, Everyone
<1>5. Listable'
  <2>1. \A j \in Everyone : job'[j].version <= listed
      BY <1>2, <1>3 DEF Continues, Forward, Listable
  <2> QED
      BY <1>1, <1>2, <1>4, <2>1 DEF Forward, Listable, Everyone, Active, Updating
<1>6. ASSUME Prompt', chains' = 0
      PROVE  Updating' = {} /\ known' = 0 /\ posted' = << >>
  <2>1. Prompt /\ chains = 0
      BY <1>1, <1>2, <1>6 DEF Prompt, Executing
  <2> QED
      BY <1>1, <1>4, <2>1 DEF Forward
<1>7. ASSUME Prompt', chains' <= 1
      PROVE  InOrder' /\ OneUpdate' /\ BootSyncs'
  <2>1. Prompt /\ chains <= 1
      BY <1>1, <1>2, <1>7 DEF Prompt, Executing, Calm
  <2>2. InOrder /\ OneUpdate /\ BootSyncs
      BY <2>1 DEF Forward
  <2>3. InOrder'
      BY <1>1, <2>2 DEF InOrder
  <2>4. OneUpdate'
    <3>1. ASSUME NEW j \in Updating'
          PROVE  LET v == job'[j].version
                 IN  Newer(v) /\ (v = 0 \/ job'[j].old \/ held' <= v)
      <4>1. j \in Updating /\ j \in Everyone
          BY <1>2, <1>4
      <4>2. job'[j].version \in {0, job[j].version, listed}
            /\ (job'[j].old = job[j].old \/ job'[j].old)
          BY <1>3, <3>1, <4>1 DEF Continues, Updating
      <4>3. Newer(0) /\ Newer(listed) /\ held <= listed
          BY <2>1 DEF Forward, Listable, Newer
      <4>4. Newer(job[j].version)
            /\ (job[j].version = 0 \/ job[j].old \/ held <= job[j].version)
          BY <2>2, <4>1 DEF OneUpdate
      <4> QED
          BY <1>1, <1>2, <4>1, <4>2, <4>3, <4>4
    <3>2. \A j, k \in Updating' : j = k
        BY <1>4, <2>2 DEF OneUpdate
    <3> QED
        BY <1>1, <3>1, <3>2 DEF OneUpdate, Newer
  <2>5. BootSyncs'
    <3> SUFFICES ASSUME job'[Boot].mode = "actor", held' # 0
        PROVE  \A k \in job'[Boot].at .. Len(Code(venue, "boot")) :
                    Code(venue, "boot")[k].do # "sync"
        BY <1>1 DEF BootSyncs
    <3>1. job[Boot].mode = "actor" /\ job'[Boot].at >= job[Boot].at /\ held # 0
        BY <1>1 DEF Calm
    <3>2. job[Boot].at \in Nat /\ job'[Boot].at \in Nat
      <4>1. job[Boot] \in Jobs(venue) /\ job'[Boot] \in Jobs(venue)
          BY <1>1 DEF Base, Good, Typed, Everyone
      <4> QED
          BY <4>1 DEF Jobs
    <3>3. \A k \in job[Boot].at .. Len(Code(venue, "boot")) :
                    Code(venue, "boot")[k].do # "sync"
        BY <2>2, <3>1 DEF BootSyncs
    <3> QED
        BY <3>1, <3>2, <3>3
  <2> QED
      BY <2>3, <2>4, <2>5
<1> QED
    BY <1>1, <1>5, <1>6, <1>7 DEF Forward

(***************************************************************************)
(* Most steps are calm.                                                     *)
(***************************************************************************)
\* r is what job j was, further on, with a list it may have.
Alike(j, r) ==
    /\ r \in Jobs(venue) /\ r.mode \in Active
    /\ r.of = job[j].of /\ r.old = job[j].old /\ r.at >= job[j].at
    /\ r.version \in {0, job[j].version, listed, held}
    /\ job[j].of = "update" => r.version \in {0, job[j].version, listed}

\* Job j, which takes a step.
Acts(j) ==
    /\ job[j].mode \in Active
    /\ job[j].of \in Requests(venue) \cup {"boot", "update"}
    /\ IsList(j) <=> job[j].of \notin Requests(venue)
    /\ j = Boot => job[j].of = "boot" /\ job[j].mode = "actor"

LEMMA ActsWhenRuns ==
    ASSUME Suits(venue), Base, NEW j \in Everyone, NEW what, Runs(j, what)
    PROVE  Acts(j) /\ Alike(j, job[j])
<1>1. /\ job[j].mode \in {"actor", "task"} /\ job[j] \in Jobs(venue) /\ job[j].at \in Nat
      /\ job[j].of \in Requests(venue) \cup {"boot", "update"}
      /\ IsList(j) <=> job[j].of \notin Requests(venue)
      /\ j = Boot => job[j].of = "boot" /\ job[j].mode = "actor"
    BY RunsFacts
<1> QED
    BY <1>1 DEF Acts, Alike, Active

LEMMA AlikeOn ==
    ASSUME Base, NEW j \in Everyone, NEW r, Alike(j, r)
    PROVE  /\ Alike(j, [r EXCEPT !.at = @ + 1])
           /\ \A how \in {"success", "refused", "unsure"} : Alike(j, Answer(r, how))
<1>1. r \in Jobs(venue) /\ r.at \in Nat /\ job[j].at \in Nat
  <2>1. job[j] \in Jobs(venue) /\ r \in Jobs(venue)
      BY DEF Alike, Base, Good, Typed
  <2> QED
      BY <2>1 DEF Jobs
<1>2. Alike(j, [r EXCEPT !.at = @ + 1])
  <2> DEFINE q == [r EXCEPT !.at = @ + 1]
  <2>1. /\ q \in Jobs(venue) /\ q.at = r.at + 1 /\ q.of = r.of /\ q.mode = r.mode
        /\ q.old = r.old /\ q.version = r.version
      BY <1>1 DEF Jobs
  <2> HIDE DEF q
  <2>2. q.at >= job[j].at
      BY <1>1, <2>1 DEF Alike
  <2>3. Alike(j, q)
      BY <2>1, <2>2 DEF Alike
  <2> QED
      BY <2>3 DEF q
<1>3. ASSUME NEW how \in {"success", "refused", "unsure"}
      PROVE  Alike(j, Answer(r, how))
  <2> DEFINE a == Answer(r, how)
  <2>1. /\ a \in Jobs(venue) /\ a.at = r.at /\ a.of = r.of /\ a.mode = r.mode
        /\ a.old = r.old
      BY <1>1, Answers
  <2>2. a.version = r.version
      BY <1>1 DEF Jobs, Answer
  <2> HIDE DEF a
  <2>3. Alike(j, a)
      BY <2>1, <2>2 DEF Alike
  <2> QED
      BY <2>3 DEF a
<1> QED
    BY <1>2, <1>3

\* The jobs that take no step.
LEMMA StaysCalm ==
    ASSUME Base, Forward, NEW k \in Everyone
    PROVE  Continues(job[k], job[k])
<1>1. job[k].of = "update" => k \in Updating
  <2>1. k = Boot => job[k].of \in {"none", "boot"}
      BY DEF Base, Good, Typed
  <2> QED
      BY <2>1 DEF Updating, Everyone
<1> QED
    BY <1>1 DEF Continues, Forward, Listable

\* Job j alone changes, to q.
LEMMA CalmMove ==
    ASSUME Base, Forward, NEW j \in Everyone, NEW q, job' = [job EXCEPT ![j] = q],
           UNCHANGED <<venue, lists>>, Continues(job[j], q),
           \/ /\ UNCHANGED <<chains, held>>
              /\ j = Boot => q.mode # "actor" \/ (job[j].mode = "actor" /\ q.at >= job[j].at)
           \/ /\ j = Boot /\ q.mode # "actor" /\ held' = held
              /\ chains' = IF chains < MaxChains THEN chains + 1 ELSE chains
    PROVE  Calm
<1>1. /\ DOMAIN job = Everyone /\ Boot \in Everyone /\ job'[j] = q
      /\ \A k \in Everyone \ {j} : job'[k] = job[k]
    BY DEF Base, Globals, Everyone
<1>2. \A k \in Everyone : Continues(job[k], job'[k])
    BY <1>1, StaysCalm
<1>3. CASE UNCHANGED <<chains, held>>
           /\ (j = Boot => q.mode # "actor" \/ (job[j].mode = "actor" /\ q.at >= job[j].at))
  <2>1. job[Boot].at \in Nat
      BY <1>1 DEF Base, Good, Typed, Jobs
  <2>2. job'[Boot].mode = "actor" => job[Boot].mode = "actor" /\ job'[Boot].at >= job[Boot].at
      BY <1>1, <1>3, <2>1
  <2> QED
      BY <1>2, <1>3, <2>2 DEF Calm
<1>4. CASE /\ j = Boot /\ q.mode # "actor" /\ held' = held
           /\ chains' = IF chains < MaxChains THEN chains + 1 ELSE chains
    BY <1>1, <1>2, <1>4 DEF Calm
<1> QED
    BY <1>3, <1>4

LEMMA CalmAlike ==
    ASSUME Base, Forward, NEW j \in Everyone, Acts(j), NEW q, Alike(j, q),
           job' = [job EXCEPT ![j] = q], UNCHANGED <<venue, lists, chains, held>>
    PROVE  Calm
<1>1. Continues(job[j], q)
    BY DEF Alike, Continues
<1>2. j = Boot => job[j].mode = "actor" /\ q.at >= job[j].at
    BY DEF Acts, Alike
<1> QED
    BY <1>1, <1>2, CalmMove

LEMMA CalmGoOn ==
    ASSUME Base, Forward, NEW j \in Everyone, Acts(j), NEW r, Alike(j, r), GoOn(j, r),
           UNCHANGED <<venue, lists>>
    PROVE  Calm
<1> DEFINE q == [r EXCEPT !.at = @ + 1]
<1>1. Alike(j, q)
    BY AlikeOn
<1>2. job' = [job EXCEPT ![j] = q] /\ UNCHANGED <<venue, lists, chains, held>>
    BY DEF GoOn
<1> HIDE DEF q
<1> QED
    BY <1>1, <1>2, CalmAlike

LEMMA CalmEnd ==
    ASSUME Base, Forward, NEW j \in Everyone, Acts(j), NEW r, Alike(j, r), End(j, r),
           UNCHANGED <<venue, lists>>
    PROVE  Calm
<1>1. Idle.of = "none" /\ Idle.mode = "idle" /\ Idle.version = 0
    BY DEF Idle, Job
<1>2. CASE IsList(j)
  <2>1. job' = [job EXCEPT ![j] = Idle] /\ UNCHANGED <<chains, held>>
      BY <1>2 DEF End
  <2>2. Continues(job[j], Idle)
      BY <1>1 DEF Continues
  <2> QED
      BY <1>1, <2>1, <2>2, CalmMove
<1>3. CASE ~IsList(j)
  <2>1. job' = [job EXCEPT ![j] = Closed(r)] /\ UNCHANGED <<chains, held>>
      BY <1>3 DEF End, Closed
  <2>2. /\ Closed(r).of = r.of /\ Closed(r).mode = "over" /\ Closed(r).version = r.version
      BY DEF Alike, Closed, Jobs
  <2>3. r.of # "update"
      BY <1>3 DEF Alike, IsList
  <2>4. Continues(job[j], Closed(r))
      BY <2>2, <2>3 DEF Alike, Continues
  <2> QED
      BY <2>1, <2>2, <2>4, CalmMove
<1> QED
    BY <1>2, <1>3

LEMMA CalmBooted ==
    ASSUME Base, Forward, Booted, UNCHANGED <<venue, lists>>
    PROVE  Calm
<1>1. Idle.of = "none" /\ Idle.mode = "idle" /\ Idle.version = 0 /\ Boot \in Everyone
    BY DEF Idle, Job, Everyone
<1>2. Continues(job[Boot], Idle)
    BY <1>1 DEF Continues
<1>3. /\ job' = [job EXCEPT ![Boot] = Idle] /\ held' = held
      /\ chains' = IF chains < MaxChains THEN chains + 1 ELSE chains
    BY DEF Booted
<1> QED
    BY <1>1, <1>2, <1>3, CalmMove

\* The executor restarts: a request that fails it is over.
LEMMA CalmRestart ==
    ASSUME Base, Forward, NEW j \in Everyone, NEW jobs, Restart(jobs),
           DOMAIN jobs = Everyone, \A k \in Everyone \ {j} : jobs[k] = job[k],
           \/ jobs[j] = job[j]
           \/ /\ jobs[j] \in Jobs(venue)
              /\ jobs[j].of # "update" /\ jobs[j].version = job[j].version,
           UNCHANGED <<venue, lists>>
    PROVE  Calm
<1>1. /\ job'[Boot] = Job("boot", "actor") /\ held' = 0 /\ chains' = chains
      /\ \A k \in Everyone \ {Boot} : job'[k] = [jobs[k] EXCEPT !.old = TRUE]
    BY DEF Restart, Everyone
<1>2. ASSUME NEW k \in Everyone \ {Boot}
      PROVE  Continues(job[k], job'[k])
  <2>1. job[k] \in Jobs(venue) /\ jobs[k] \in Jobs(venue)
      BY DEF Base, Good, Typed
  <2> DEFINE q == [jobs[k] EXCEPT !.old = TRUE]
  <2>2. /\ q.of = jobs[k].of /\ q.mode = jobs[k].mode /\ q.version = jobs[k].version /\ q.old
      BY <2>1 DEF Jobs
  <2>3. job'[k] = q
      BY <1>1
  <2> HIDE DEF q
  <2>4. CASE jobs[k] = job[k]
      BY <2>2, <2>3, <2>4, StaysCalm DEF Continues
  <2>5. CASE jobs[k].of # "update" /\ jobs[k].version = job[k].version
      BY <2>2, <2>3, <2>5 DEF Continues
  <2> QED
      BY <2>4, <2>5
<1>3. Continues(job[Boot], job'[Boot])
    BY <1>1 DEF Continues, Job
<1> QED
    BY <1>1, <1>2, <1>3 DEF Calm

LEMMA CalmRefused ==
    ASSUME Base, Forward, NEW j \in Everyone, Acts(j), NEW r, Alike(j, r),
           NEW how \in {"refused", "unsure"}, Refused(j, r, how), UNCHANGED <<venue, lists>>
    PROVE  Calm
<1>1. CASE j # Boot
  <2>1. End(j, Answer(r, how)) /\ Alike(j, Answer(r, how))
      BY <1>1, AlikeOn DEF Refused
  <2> QED
      BY <2>1, CalmEnd
<1>2. CASE Booted
    BY <1>2, CalmBooted
<1>3. CASE Restart(job)
    BY <1>3, CalmRestart DEF Base, Globals
<1> QED
    BY <1>1, <1>2, <1>3 DEF Refused

LEMMA CalmSucceed ==
    ASSUME Base, Forward, NEW j \in Everyone, Acts(j), NEW r, Alike(j, r),
           Succeed(j, r), UNCHANGED <<venue, lists>>
    PROVE  Calm
<1>1. CASE j # Boot
  <2>1. End(j, Answer(r, "success")) /\ Alike(j, Answer(r, "success"))
      BY <1>1, AlikeOn DEF Succeed
  <2> QED
      BY <2>1, CalmEnd
<1>2. CASE j = Boot
    BY <1>2, CalmBooted DEF Succeed
<1> QED
    BY <1>1, <1>2

LEMMA CalmJudged ==
    ASSUME Suits(venue), Base, Forward, NEW j \in Everyone, Acts(j), NEW r, Alike(j, r),
           Doing(j).do \in Judging, Judged(j, r, Doing(j).verdict), UNCHANGED <<venue, lists>>
    PROVE  Calm
<1> DEFINE verdict == Doing(j).verdict
<1>1. r.reply \in DOMAIN verdict => verdict[r.reply] \in Verdicts
  <2>1. job[j].at \in Positions(Code(venue, job[j].of)) /\ Formed(Code(venue, job[j].of))
      BY Shapes DEF Acts, Base, Good, Typed
  <2> QED
      BY <2>1 DEF Formed, Doing
<1>2. Judged(j, r, verdict)
    OBVIOUS
<1> HIDE DEF verdict
<1>3. CASE GoOn(j, r)
    BY <1>3, CalmGoOn
<1>4. CASE GoOn(j, Answer(r, "unsure"))
    BY <1>4, AlikeOn, CalmGoOn
<1>5. CASE End(j, r)
    BY <1>5, CalmEnd
<1>6. CASE Refused(j, r, "refused") \/ Refused(j, r, "unsure")
    BY <1>6, CalmRefused
<1> QED
    BY <1>1, <1>2, <1>3, <1>4, <1>5, <1>6 DEF Judged, Verdicts

LEMMA CalmReplied ==
    ASSUME Suits(venue), Base, Forward, NEW j \in Everyone, Acts(j), StepOf(j) = Doing(j),
           Doing(j).do \in Judging, NEW reply \in Replies, Replied(j, reply),
           UNCHANGED <<venue, lists>>
    PROVE  Calm
<1>1. PICK carried \in BOOLEAN :
        Judged(j, [job[j] EXCEPT
                        !.reply = reply,
                        !.mode = IF @ = "await" THEN "actor" ELSE @,
                        !.acted = @ \/ (carried /\ StepOf(j).kind = "order"),
                        !.version = IF StepOf(j).kind # "list" THEN @
                                    ELSE IF reply = "fine" THEN listed ELSE 0],
                  StepOf(j).verdict)
    BY DEF Replied
<1> DEFINE w == IF Doing(j).kind # "list" THEN job[j].version
                ELSE IF reply = "fine" THEN listed ELSE 0
           r == Heard(j, reply, carried, w)
           m == IF job[j].mode = "await" THEN "actor" ELSE job[j].mode
           c == job[j].acted \/ (carried /\ Doing(j).kind = "order")
<1>2. job[j] \in Jobs(venue) /\ job[j].at \in Nat
  <2>1. job[j] \in Jobs(venue)
      BY DEF Base, Good, Typed
  <2> QED
      BY <2>1 DEF Jobs
<1>3. w \in 0 .. MaxVersions /\ w \in {0, job[j].version, listed}
  <2>1. listed \in 0 .. MaxVersions /\ 0 \in 0 .. MaxVersions
      BY ExecutorAssumption DEF Base, Globals
  <2> QED
      BY <1>2, <2>1 DEF Jobs
<1>4. Judged(j, r, Doing(j).verdict)
  <2>1. r = [job[j] EXCEPT
                        !.reply = reply,
                        !.mode = IF @ = "await" THEN "actor" ELSE @,
                        !.acted = @ \/ (carried /\ Doing(j).kind = "order"),
                        !.version = IF Doing(j).kind # "list" THEN @
                                    ELSE IF reply = "fine" THEN listed ELSE 0]
      BY <1>2 DEF Jobs, Heard
  <2> HIDE DEF r
  <2> QED
      BY <1>1, <2>1
<1>5. Alike(j, r)
  <2>1. m \in Active /\ m \in Modes /\ c \in BOOLEAN
      BY <1>2 DEF Acts, Active, Modes, Jobs
  <2>2. r = [job[j] EXCEPT !.reply = reply, !.mode = m, !.acted = c, !.version = w]
      BY <1>2 DEF Jobs, Heard
  <2> HIDE DEF m, c, w, r
  <2>3. /\ r \in Jobs(venue) /\ r.mode = m /\ r.of = job[j].of /\ r.old = job[j].old
        /\ r.at = job[j].at /\ r.version = w
      BY <1>2, <1>3, <2>1, <2>2 DEF Jobs
  <2> QED
      BY <1>2, <1>3, <2>1, <2>3 DEF Alike
<1> HIDE DEF r
<1> QED
    BY <1>4, <1>5, CalmJudged

\* The steps of a job that replace no list and send the parent nothing.
LEMMA StepCalm ==
    ASSUME Suits(venue), Base, Forward, NEW j \in Everyone, Step(j),
           ~SyncSecurities(j), ~Publishes(j), ~(Crashes(j) /\ job[j].answers # 0)
    PROVE  Calm
<1>1. ASSUME NEW what, Runs(j, what)
      PROVE  /\ Acts(j) /\ Alike(j, job[j]) /\ StepOf(j) = Doing(j) /\ Doing(j).do = what
             /\ job[j] \in Jobs(venue) /\ job[j].at \in Nat
             /\ job[j].of \in Requests(venue)
                    \/ what \in {"free", "take", "query", "judge", "registry", "sync", "publish"}
             /\ job[j].of \in Requests(venue) => job[j].of \notin {"boot", "update"} /\ j # Boot
    BY <1>1, ActsWhenRuns, RunsFacts, ListSteps, Shapes
<1>2. CASE Checks(j) \/ Declines(j)
  <2>1. Runs(j, "check") \/ Runs(j, "decline")
      BY <1>2 DEF Checks, Declines
  <2>2. UNCHANGED <<venue, lists>> /\ (GoOn(j, job[j]) \/ Refused(j, job[j], "refused"))
      BY <1>2 DEF Checks, Declines
  <2> QED
      BY <1>1, <2>1, <2>2, CalmGoOn, CalmRefused
<1>3. CASE Warns(j)
  <2>1. /\ Runs(j, "warn") /\ UNCHANGED <<venue, lists>>
        /\ GoOn(j, job[j]) \/ GoOn(j, Answer(job[j], "refused"))
      BY <1>3 DEF Warns
  <2>2. Acts(j) /\ Alike(j, job[j]) /\ Alike(j, Answer(job[j], "refused"))
      BY <1>1, <2>1, AlikeOn
  <2> QED
      BY <2>1, <2>2, CalmGoOn
<1>4. CASE Crashes(j)
  <2>1. Runs(j, "crash") /\ GoOn(j, job[j]) /\ UNCHANGED <<venue, lists>>
      BY <1>4 DEF Crashes, lists
  <2> QED
      BY <1>1, <2>1, CalmGoOn
<1>5. ASSUME NEW what \in {"build", "copy"}, Runs(j, what), UNCHANGED <<venue, lists>>,
             Restart([job EXCEPT ![j].mode = "over", ![j].failed = TRUE])
      PROVE  Calm
  <2> DEFINE q == [job[j] EXCEPT !.mode = "over", !.failed = TRUE]
             jobs == [job EXCEPT ![j].mode = "over", ![j].failed = TRUE]
  <2>1. job[j] \in Jobs(venue) /\ job[j].of # "update"
      BY <1>1, <1>5
  <2>2. q \in Jobs(venue) /\ q.of = job[j].of /\ q.version = job[j].version
    <3> DEFINE p == [job[j] EXCEPT !.mode = "over"]
    <3>1. p \in Jobs(venue) /\ p.of = job[j].of /\ p.version = job[j].version
        BY <2>1 DEF Jobs, Modes
    <3>2. q = [p EXCEPT !.failed = TRUE]
        BY <2>1 DEF Jobs
    <3> HIDE DEF p, q
    <3> QED
        BY <3>1, <3>2 DEF Jobs
  <2>3. DOMAIN job = Everyone
      BY DEF Base, Globals
  <2>4. DOMAIN jobs = Everyone /\ jobs[j] = q /\ \A k \in Everyone \ {j} : jobs[k] = job[k]
      BY <2>3
  <2>5. Restart(jobs)
      BY <1>5
  <2> HIDE DEF q, jobs
  <2> QED
      BY <1>5, <2>1, <2>2, <2>4, <2>5, CalmRestart
<1>6. CASE Builds(j)
  <2>1. Runs(j, "build") /\ UNCHANGED <<venue, lists>>
      BY <1>6 DEF Builds
  <2>2. \/ GoOn(j, job[j])
        \/ Restart([job EXCEPT ![j].mode = "over", ![j].failed = TRUE])
      BY <1>6 DEF Builds
  <2> QED
      BY <1>1, <1>5, <2>1, <2>2, CalmGoOn
<1>7. CASE Ignores(j)
  <2>1. Runs(j, "ignore") /\ End(j, job[j]) /\ UNCHANGED <<venue, lists>>
      BY <1>7 DEF Ignores
  <2> QED
      BY <1>1, <2>1, CalmEnd
<1>8. CASE Succeeds(j)
  <2>1. Runs(j, "done") /\ Succeed(j, job[j]) /\ UNCHANGED <<venue, lists>>
      BY <1>8 DEF Succeeds
  <2> QED
      BY <1>1, <2>1, CalmSucceed
<1>9. CASE Looks(j)
  <2>1. /\ Runs(j, "free") /\ UNCHANGED <<venue, lists>>
        /\ GoOn(j, job[j]) \/ Refused(j, job[j], "refused")
      BY <1>9 DEF Looks
  <2> QED
      BY <1>1, <2>1, CalmGoOn, CalmRefused
<1>10. CASE Takes(j) \/ Waits(j)
  <2>1. \E what \in {"take", "wait"} : Runs(j, what)
      BY <1>10 DEF Takes, Waits
  <2>2. /\ job' = [job EXCEPT ![j].at = @ + 1]
        /\ UNCHANGED <<venue, lists, chains, held>>
      BY <1>10 DEF Takes, Waits, Count
  <2> DEFINE q == [job[j] EXCEPT !.at = @ + 1]
  <2>3. Acts(j) /\ Alike(j, q) /\ job' = [job EXCEPT ![j] = q]
      BY <1>1, <2>1, <2>2, AlikeOn, SameVersion
  <2> HIDE DEF q
  <2> QED
      BY <2>2, <2>3, CalmAlike
<1>11. CASE Leaves(j)
  <2> DEFINE r == [job[j] EXCEPT !.mode = "task"]
             q == [r EXCEPT !.at = @ + 1]
  <2>1. /\ Runs(j, "task") /\ UNCHANGED <<venue, lists, chains, held>>
        /\ job' = [job EXCEPT ![j].mode = "task", ![j].at = @ + 1]
      BY <1>11 DEF Leaves
  <2>2. Acts(j) /\ Alike(j, job[j]) /\ job[j] \in Jobs(venue)
      BY <1>1, <2>1
  <2>3. /\ r \in Jobs(venue) /\ r.of = job[j].of /\ r.old = job[j].old /\ r.at = job[j].at
        /\ r.version = job[j].version /\ r.mode = "task"
      BY <2>2 DEF Jobs, Modes
  <2>4. job' = [job EXCEPT ![j] = q]
      BY <2>1, <2>2 DEF Jobs
  <2> HIDE DEF r
  <2>5. Alike(j, r)
      BY <2>2, <2>3 DEF Alike, Active
  <2>6. Alike(j, q)
      BY <2>5, AlikeOn
  <2> HIDE DEF q
  <2> QED
      BY <2>1, <2>2, <2>4, <2>6, CalmAlike
<1>12. CASE Sends(j)
  <2> DEFINE r == [job[j] EXCEPT !.mode = "await"]
  <2>1. /\ Runs(j, "future") /\ UNCHANGED <<venue, lists, chains, held>>
        /\ job' = [job EXCEPT ![j].mode = "await"]
      BY <1>12 DEF Sends
  <2>2. Acts(j) /\ Alike(j, job[j]) /\ job[j] \in Jobs(venue)
      BY <1>1, <2>1
  <2>3. /\ r \in Jobs(venue) /\ r.of = job[j].of /\ r.old = job[j].old /\ r.at = job[j].at
        /\ r.version = job[j].version /\ r.mode = "await"
      BY <2>2 DEF Jobs, Modes
  <2>4. job' = [job EXCEPT ![j] = r]
      BY <2>1
  <2> HIDE DEF r
  <2>5. Alike(j, r)
      BY <2>2, <2>3 DEF Alike, Active
  <2> QED
      BY <2>1, <2>2, <2>4, <2>5, CalmAlike
<1>13. CASE Skips(j)
  <2> DEFINE r == [job[j] EXCEPT !.at = @ + StepOf(j).count]
  <2>1. /\ Runs(j, "skip") /\ UNCHANGED <<venue, lists>>
        /\ GoOn(j, job[j]) \/ GoOn(j, r)
      BY <1>13 DEF Skips
  <2>2. /\ Acts(j) /\ Alike(j, job[j]) /\ job[j] \in Jobs(venue) /\ job[j].at \in Nat \ {0}
        /\ StepOf(j) = Doing(j) /\ Doing(j).do = "skip"
      BY <1>1, <2>1 DEF Jobs
  <2>3. Doing(j).count \in Nat
    <3>1. /\ job[j].at \in Positions(Code(venue, job[j].of))
          /\ job[j].of \in Requests(venue) \cup {"boot", "update"}
        BY <2>1, RunsFacts
    <3> QED
        BY <2>2, <3>1, Shapes DEF Formed, Doing
  <2>4. /\ r \in Jobs(venue) /\ r.of = job[j].of /\ r.old = job[j].old
        /\ r.at = job[j].at + Doing(j).count
        /\ r.version = job[j].version /\ r.mode = job[j].mode
      BY <2>2, <2>3 DEF Jobs
  <2> HIDE DEF r
  <2>5. Alike(j, r)
      BY <2>2, <2>3, <2>4 DEF Alike
  <2> QED
      BY <2>1, <2>2, <2>5, CalmGoOn
<1>14. CASE Queries(j)
  <2>1. Runs(j, "query") /\ UNCHANGED <<venue, lists>>
      BY <1>14 DEF Queries
  <2>2. PICK reply : /\ reply \in Trouble \cup {"fine"} \cup
                                  ({"redirect"} \cap DOMAIN StepOf(j).verdict)
                     /\ Replied(j, reply)
      BY <1>14 DEF Queries
  <2>3. reply \in Replies
      BY <2>2 DEF Replies, Trouble
  <2>4. Acts(j) /\ StepOf(j) = Doing(j) /\ Doing(j).do \in Judging
      BY <1>1, <2>1 DEF Judging, Asking
  <2> QED
      BY <2>1, <2>2, <2>3, <2>4, CalmReplied
<1>15. CASE JudgesAgain(j)
  <2>1. /\ Runs(j, "judge") /\ UNCHANGED <<venue, lists>>
        /\ Judged(j, job[j], StepOf(j).verdict)
      BY <1>15 DEF JudgesAgain
  <2>2. Acts(j) /\ Alike(j, job[j]) /\ StepOf(j) = Doing(j) /\ Doing(j).do \in Judging
      BY <1>1, <2>1 DEF Judging
  <2> QED
      BY <2>1, <2>2, CalmJudged
<1>16. CASE AsksRegistry(j)
  <2>1. /\ Runs(j, "registry") /\ UNCHANGED <<venue, lists>>
        /\ GoOn(j, job[j]) \/ Refused(j, job[j], "refused")
      BY <1>16 DEF AsksRegistry
  <2> QED
      BY <1>1, <2>1, CalmGoOn, CalmRefused
<1>17. CASE Measures(j)
  <2> DEFINE r == [job[j] EXCEPT !.version = held]
  <2>1. Runs(j, "measure") /\ GoOn(j, r) /\ UNCHANGED <<venue, lists>>
      BY <1>17 DEF Measures
  <2>2. /\ Acts(j) /\ Alike(j, job[j]) /\ job[j] \in Jobs(venue) /\ job[j].at \in Nat
        /\ job[j].of # "update"
      BY <1>1, <2>1
  <2>3. held \in 0 .. MaxVersions
      BY DEF Base, Globals
  <2>4. /\ r \in Jobs(venue) /\ r.of = job[j].of /\ r.old = job[j].old /\ r.at = job[j].at
        /\ r.version = held /\ r.mode = job[j].mode
      BY <2>2, <2>3 DEF Jobs
  <2> HIDE DEF r
  <2>5. Alike(j, r)
      BY <2>2, <2>4 DEF Alike
  <2> QED
      BY <2>1, <2>2, <2>5, CalmGoOn
<1>18. CASE Copies(j)
  <2>1. Runs(j, "copy") /\ UNCHANGED <<venue, lists>>
      BY <1>18 DEF Copies
  <2>2. \/ Succeed(j, job[j])
        \/ Restart([job EXCEPT ![j].mode = "over", ![j].failed = TRUE])
      BY <1>18 DEF Copies
  <2> QED
      BY <1>1, <1>5, <2>1, <2>2, CalmSucceed
<1> QED
    BY <1>2, <1>3, <1>4, <1>6, <1>7, <1>8, <1>9, <1>10, <1>11, <1>12, <1>13, <1>14, <1>15,
       <1>16, <1>17, <1>18 DEF Step

(***************************************************************************)
(* The steps that are not.                                                  *)
(***************************************************************************)
\* A job that replaces the list or publishes it is the boot or an update.
LEMMA ListJobs ==
    ASSUME Suits(venue), Base, Forward, NEW j \in Everyone, NEW what \in {"sync", "publish"},
           Runs(j, what)
    PROVE  /\ job[j].of \in {"boot", "update"} /\ IsList(j) /\ job[j] \in Jobs(venue)
           /\ job[j].at \in Nat /\ Doing(j).do = what
           /\ job[j].at \in Positions(Code(venue, job[j].of))
           /\ Len(Code(venue, job[j].of)) \in Nat
           /\ j = Boot => job[j].of = "boot" /\ job[j].mode = "actor"
           /\ j # Boot => j \in Updating /\ job[j].of = "update" /\ Boot # j
           /\ job[j].version \in Nat /\ job[j].version <= listed
<1>1. /\ job[j] \in Jobs(venue) /\ job[j].at \in Nat /\ Doing(j).do = what
      /\ job[j].of \in Requests(venue) \cup {"boot", "update"}
      /\ IsList(j) <=> job[j].of \notin Requests(venue)
      /\ job[j].at \in Positions(Code(venue, job[j].of))
      /\ j = Boot => job[j].of = "boot" /\ job[j].mode = "actor"
      /\ j # Boot => j \in Slots /\ job[j].of # "boot"
    BY RunsFacts
<1>2. job[j].of \notin Requests(venue)
  <2> SUFFICES ASSUME job[j].of \in Requests(venue) PROVE FALSE
      OBVIOUS
  <2>1. Answering(Code(venue, job[j].of))
      BY Shapes
  <2> QED
      BY <1>1, <2>1 DEF Answering, Doing
<1>3. Len(Code(venue, job[j].of)) \in Nat
    BY <1>1, Shapes DEF Formed
<1>4. job[j].version \in Nat /\ job[j].version <= listed
    BY ListTypes DEF Forward, Listable
<1> QED
    BY <1>1, <1>2, <1>3, <1>4 DEF Updating

LEMMA SyncKeeps ==
    ASSUME Suits(venue), Base, Base', Forward, NEW j \in Everyone, SyncSecurities(j)
    PROVE  /\ Forward' /\ known' = known
           /\ OneTimer /\ Prompt => held' >= held \/ held' = 0
<1>1. Runs(j, "sync")
    BY DEF SyncSecurities
<1>2. /\ held' = IF job[j].old THEN held ELSE job[j].version
      /\ job' = [job EXCEPT ![j].at = @ + 1]
      /\ UNCHANGED <<venue, chains, listed, posted, known>>
    BY DEF SyncSecurities, lists
<1>3. /\ job[j].of \in {"boot", "update"} /\ job[j] \in Jobs(venue) /\ job[j].at \in Nat
      /\ Doing(j).do = "sync" /\ job[j].at \in Positions(Code(venue, job[j].of))
      /\ Len(Code(venue, job[j].of)) \in Nat
      /\ j = Boot => job[j].of = "boot" /\ job[j].mode = "actor"
      /\ j # Boot => j \in Updating
      /\ job[j].version \in Nat /\ job[j].version <= listed
    BY <1>1, ListJobs
<1>4. /\ listed \in Nat /\ held \in Nat /\ known \in Nat /\ chains \in Nat
      /\ \A i \in 1 .. Len(posted) : posted[i] \in Nat
      /\ \A k \in Everyone : job[k].version \in Nat
      /\ DOMAIN job = Everyone /\ Boot \in Everyone /\ Updating \subseteq Everyone \ {Boot}
    BY ListTypes
<1>5. \A k \in Everyone : /\ job'[k].of = job[k].of /\ job'[k].mode = job[k].mode
                          /\ job'[k].version = job[k].version /\ job'[k].old = job[k].old
                          /\ job'[k].at = IF k = j THEN job[j].at + 1 ELSE job[k].at
  <2> DEFINE q == [job[j] EXCEPT !.at = @ + 1]
  <2>1. /\ q.of = job[j].of /\ q.mode = job[j].mode /\ q.version = job[j].version
        /\ q.old = job[j].old /\ q.at = job[j].at + 1
      BY <1>3 DEF Jobs
  <2>2. job' = [job EXCEPT ![j] = q]
      BY <1>1, <1>2, SameVersion
  <2> HIDE DEF q
  <2> QED
      BY <1>4, <2>1, <2>2
<1>6. Updating' = Updating
    BY <1>5 DEF Updating, Everyone
<1>7. held' \in Nat /\ held' <= listed
    BY <1>2, <1>3, <1>4 DEF Forward, Listable
<1>8. Listable'
    BY <1>2, <1>4, <1>5, <1>6, <1>7 DEF Forward, Listable, Everyone
<1>9. ASSUME Prompt, chains <= 1
      PROVE  /\ held' >= held \/ held' = 0
             /\ InOrder' /\ OneUpdate' /\ BootSyncs'
  <2>1. InOrder /\ OneUpdate /\ BootSyncs
      BY <1>9 DEF Forward
  <2>2. j = Boot => held = 0
      BY <1>3, <2>1 DEF BootSyncs, Doing, Positions
  <2>3. held' >= held \/ held' = 0
      BY <1>2, <1>3, <1>4, <2>1, <2>2 DEF OneUpdate
  <2>4. InOrder'
      BY <1>2, <2>1 DEF InOrder
  <2>5. ASSUME NEW k \in Updating
        PROVE  LET v == job[k].version
               IN  Newer(v) /\ (v = 0 \/ job[k].old \/ held' <= v)
    <3>1. Newer(job[k].version)
          /\ (job[k].version = 0 \/ job[k].old \/ held <= job[k].version)
        BY <2>1 DEF OneUpdate
    <3>2. CASE j # Boot
      <4>1. k = j
          BY <1>3, <2>1, <3>2 DEF OneUpdate
      <4> QED
          BY <1>2, <1>3, <3>1, <4>1
    <3>3. CASE j = Boot
      <4>1. k \in Slots /\ job[k].mode \in Active
          BY DEF Updating, Forward, Listable
      <4>2. job[k].old
          BY <1>3, <3>3, <4>1 DEF Base, BootsAlone, Active
      <4> QED
          BY <3>1, <4>2
    <3> QED
        BY <3>2, <3>3
  <2>6. OneUpdate'
      BY <1>2, <1>4, <1>5, <1>6, <2>1, <2>5 DEF OneUpdate, Newer
  <2>7. BootSyncs'
    <3> DEFINE P == Code(venue, "boot")
    <3> SUFFICES ASSUME job'[Boot].mode = "actor", held' # 0,
                        NEW k \in job'[Boot].at .. Len(P)
        PROVE  P[k].do # "sync"
        BY <1>2 DEF BootSyncs
    <3>1. job[Boot].mode = "actor"
        BY <1>4, <1>5
    <3>2. CASE j = Boot
      <4>1. /\ k \in job[Boot].at + 1 .. Len(P)
            /\ job[Boot].at \in Positions(P) /\ P[job[Boot].at].do = "sync"
          BY <1>3, <1>4, <1>5, <3>2 DEF Doing
      <4>2. Listing(P)
          BY Shapes
      <4> QED
          BY <4>1, <4>2 DEF Listing
    <3>3. CASE j # Boot
      <4>1. j \in Slots /\ job[j].mode \in Active
          BY <1>3, <3>3 DEF Updating, Forward, Listable
      <4>2. held' = held
          BY <1>2, <3>1, <4>1 DEF Base, BootsAlone, Active
      <4>3. job'[Boot].at = job[Boot].at
          BY <1>4, <1>5, <3>3
      <4> QED
          BY <2>1, <3>1, <4>2, <4>3 DEF BootSyncs
    <3> QED
        BY <3>2, <3>3
  <2> QED
      BY <2>3, <2>4, <2>6, <2>7
<1>10. Prompt' = Prompt
    BY <1>2 DEF Prompt, Executing
<1>11. ASSUME Prompt, chains = 0
       PROVE  Updating' = {} /\ known' = 0 /\ posted' = << >>
    BY <1>2, <1>6, <1>11 DEF Forward
<1>12. Forward'
    BY <1>2, <1>8, <1>9, <1>10, <1>11 DEF Forward
<1> QED
    BY <1>2, <1>9, <1>12 DEF OneTimer

LEMMA PublishKeeps ==
    ASSUME MaxChains \in Nat, MaxChains > 1, Suits(venue), Base, Base', Forward,
           NEW j \in Everyone, Publishes(j)
    PROVE  Forward' /\ known' = known /\ held' = held
<1> DEFINE v == job[j].version
<1>1. Runs(j, "publish") /\ Succeed(j, job[j])
    BY DEF Publishes
<1>2. /\ posted' = posted \/ posted' = Append(posted, v)
      /\ UNCHANGED <<venue, listed, known>>
    BY DEF Publishes
<1>3. /\ IsList(j)
      /\ j = Boot => job[j].mode = "actor"
      /\ j # Boot => j \in Updating
      /\ v \in Nat /\ v <= listed
    BY <1>1, ListJobs
<1> HIDE DEF v
<1>4. /\ listed \in Nat /\ held \in Nat /\ known \in Nat /\ chains \in Nat
      /\ Len(posted) \in Nat /\ posted \in Seq(Nat)
      /\ \A i \in 1 .. Len(posted) : posted[i] \in Nat
      /\ \A k \in Everyone : job[k].version \in Nat
      /\ DOMAIN job = Everyone /\ Boot \in Everyone /\ Updating \subseteq Everyone \ {Boot}
    BY ListTypes
<1>5. /\ job' = [job EXCEPT ![j] = Idle] /\ held' = held
      /\ chains' = IF j = Boot /\ chains < MaxChains THEN chains + 1 ELSE chains
    BY <1>1, <1>3 DEF Succeed, Booted, End
<1>6. /\ \A k \in Everyone \ {j} : job'[k] = job[k]
      /\ job'[j].of = "none" /\ job'[j].mode = "idle" /\ job'[j].version = 0
    BY <1>4, <1>5 DEF Idle, Job
<1>7. Updating' = Updating \ {j}
    BY <1>6 DEF Updating, Everyone
<1>8. \/ posted' = posted
      \/ /\ Len(posted') = Len(posted) + 1 /\ posted'[Len(posted) + 1] = v
         /\ \A i \in 1 .. Len(posted) : posted'[i] = posted[i]
    BY <1>2, <1>3, <1>4
<1>9. Listable'
  <2>1. \A i \in 1 .. Len(posted') : posted'[i] <= listed
      BY <1>3, <1>4, <1>8 DEF Forward, Listable
  <2>2. \A k \in Everyone : job'[k].version <= listed
      BY <1>4, <1>6 DEF Forward, Listable
  <2>3. \A k \in Updating' : job'[k].mode \in Active
      BY <1>4, <1>6, <1>7 DEF Forward, Listable
  <2> QED
      BY <1>2, <1>5, <2>1, <2>2, <2>3 DEF Forward, Listable, Everyone, Active
<1>10. Prompt' = Prompt
    BY <1>2 DEF Prompt, Executing
<1>11. CASE j = Boot
  <2>1. job'[Boot].mode # "actor" /\ BootSyncs'
      BY <1>6, <1>11 DEF BootSyncs
  <2>2. chains' # 0
      BY <1>4, <1>5, <1>11
  <2>3. ASSUME Prompt, chains' <= 1
        PROVE  InOrder' /\ OneUpdate'
    <3>1. chains = 0
        BY <1>4, <1>5, <1>11, <2>3
    <3>2. Updating = {} /\ known = 0 /\ posted = << >>
        BY <2>3, <3>1 DEF Forward
    <3>3. OneUpdate'
        BY <1>7, <3>2 DEF OneUpdate
    <3>4. \A i \in 1 .. Len(posted') : i = 1 /\ posted'[i] = v
      <4>1. Len(posted) = 0
          BY <3>2
      <4>2. CASE posted' = posted
          BY <4>1, <4>2
      <4>3. CASE Len(posted') = Len(posted) + 1 /\ posted'[Len(posted) + 1] = v
        <5>1. Len(posted') = 1 /\ posted'[1] = v
            BY <4>1, <4>3
        <5> QED
            BY <5>1
      <4> QED
          BY <1>8, <4>2, <4>3
    <3>5. InOrder'
        BY <1>2, <1>3, <3>2, <3>4 DEF InOrder
    <3> QED
        BY <3>3, <3>5
  <2> QED
      BY <1>2, <1>5, <1>9, <1>10, <2>1, <2>2, <2>3 DEF Forward
<1>12. CASE j # Boot
  <2>1. chains' = chains /\ j \in Updating
      BY <1>3, <1>5, <1>12
  <2>2. Prompt => chains # 0
      BY <2>1 DEF Forward
  <2>3. ASSUME Prompt, chains <= 1
        PROVE  InOrder' /\ OneUpdate' /\ BootSyncs'
    <3>1. InOrder /\ OneUpdate /\ BootSyncs
        BY <2>3 DEF Forward
    <3>2. Updating' = {}
        BY <1>7, <2>1, <3>1 DEF OneUpdate
    <3>3. OneUpdate'
        BY <3>2 DEF OneUpdate
    <3>4. BootSyncs'
        BY <1>2, <1>4, <1>5, <1>6, <1>12, <3>1 DEF BootSyncs
    <3>5. Newer(v)
        BY <2>1, <3>1 DEF OneUpdate, v
    <3>6. InOrder'
      <4>1. CASE posted' = posted
          BY <1>2, <3>1, <4>1 DEF InOrder
      <4>2. CASE /\ Len(posted') = Len(posted) + 1 /\ posted'[Len(posted) + 1] = v
                 /\ \A i \in 1 .. Len(posted) : posted'[i] = posted[i]
        <5> SUFFICES ASSUME NEW i \in 1 .. Len(posted')
            PROVE  \/ posted'[i] = 0
                   \/ known <= posted'[i] /\ \A k \in 1 .. i - 1 : posted'[k] <= posted'[i]
            BY <1>2 DEF InOrder
        <5>1. CASE i \in 1 .. Len(posted)
          <6>1. \A k \in 1 .. i - 1 : k \in 1 .. Len(posted)
              BY <1>4, <5>1
          <6> QED
              BY <3>1, <4>2, <5>1, <6>1 DEF InOrder
        <5>2. CASE i = Len(posted) + 1
          <6>1. \A k \in 1 .. i - 1 : k \in 1 .. Len(posted)
              BY <1>4, <5>2
          <6> QED
              BY <3>5, <4>2, <5>2, <6>1 DEF Newer
        <5> QED
            BY <1>4, <4>2, <5>1, <5>2
      <4> QED
          BY <1>8, <4>1, <4>2
    <3> QED
        BY <3>3, <3>4, <3>6
  <2> QED
      BY <1>2, <1>5, <1>9, <1>10, <2>1, <2>2, <2>3 DEF Forward
<1> QED
    BY <1>11, <1>12

\* The process ends: nothing is left of the lists and of the updates.
LEMMA CrashKeeps ==
    ASSUME Base, Base', Forward, NEW j \in Everyone, Crashes(j), job[j].answers # 0
    PROVE  Forward' /\ chains' = 0 /\ held' = 0
<1>1. /\ chains' = 0 /\ held' = 0 /\ posted' = << >> /\ known' = 0 /\ listed' = listed
      /\ venue' = venue
    BY DEF Crashes
<1>2. listed \in Nat /\ DOMAIN job = Everyone
    BY ListTypes
<1>3. ASSUME NEW k \in Everyone
      PROVE  job'[k].version <= listed /\ job'[k].of # "update"
             /\ (k = Boot => job'[k].mode = "actor")
  <2>1. job'[k] = IF k = Boot THEN Job("boot", "actor")
                  ELSE IF job[k].mode = "idle" \/ IsList(k) THEN Idle
                  ELSE [job[k] EXCEPT !.mode = "over", !.failed = TRUE]
      BY <1>2 DEF Crashes
  <2>2. Job("boot", "actor").version = 0 /\ Job("boot", "actor").of = "boot"
        /\ Job("boot", "actor").mode = "actor" /\ Idle.version = 0 /\ Idle.of = "none"
      BY DEF Job, Idle
  <2>3. CASE k = Boot \/ job[k].mode = "idle" \/ IsList(k)
      BY <1>2, <2>1, <2>2, <2>3
  <2>4. CASE ~(k = Boot \/ job[k].mode = "idle" \/ IsList(k))
    <3> DEFINE q == [job[k] EXCEPT !.mode = "over", !.failed = TRUE]
    <3>1. job[k] \in Jobs(venue) /\ job[k].version <= listed
        BY DEF Base, Good, Typed, Forward, Listable
    <3>2. q.of = job[k].of /\ q.version = job[k].version
        BY <3>1 DEF Jobs
    <3>3. job'[k] = q
        BY <2>1, <2>4
    <3> HIDE DEF q
    <3> QED
        BY <2>4, <3>1, <3>2, <3>3 DEF IsList
  <2> QED
      BY <2>3, <2>4
<1>4. Updating' = {}
    BY <1>3 DEF Updating, Everyone
<1>5. Len(posted') = 0
    BY <1>1
<1>6. Listable'
    BY <1>1, <1>2, <1>3, <1>4, <1>5 DEF Listable, Everyone
<1>7. InOrder' /\ OneUpdate' /\ BootSyncs'
    BY <1>1, <1>4, <1>5 DEF InOrder, OneUpdate, BootSyncs
<1> QED
    BY <1>1, <1>4, <1>6, <1>7 DEF Forward

\* A timer goes off when no other update is under way.
LEMMA TickKeeps ==
    ASSUME MaxChains \in Nat, Suits(venue), Base, Base', Forward, NEW j \in Slots, Tick(j)
    PROVE  Forward' /\ known' = known /\ held' = held
<1>1. /\ job' = [job EXCEPT ![j] = Job("update", "task")]
      /\ UNCHANGED <<venue, chains, held, listed, posted, known>> /\ posted = << >>
      /\ Cardinality({k \in Updating : StepOf(k).do # "registry"}) < chains
    BY DEF Tick, lists
<1>2. /\ listed \in Nat /\ held \in Nat /\ known \in Nat /\ chains \in Nat
      /\ \A k \in Everyone : job[k].version \in Nat
      /\ DOMAIN job = Everyone /\ Boot \in Everyone /\ Updating \subseteq Everyone \ {Boot}
      /\ j \in Everyone /\ j # Boot
    BY ListTypes, ExecutorAssumption DEF Everyone
<1>3. /\ \A k \in Everyone \ {j} : job'[k] = job[k]
      /\ job'[j].of = "update" /\ job'[j].mode = "task" /\ job'[j].version = 0
    BY <1>1, <1>2 DEF Job
<1>4. Updating' = Updating \cup {j}
    BY <1>3 DEF Updating, Everyone
<1>5. Listable'
  <2>1. \A k \in Everyone : job'[k].version <= listed
      BY <1>2, <1>3 DEF Forward, Listable
  <2>2. \A k \in Updating' : job'[k].mode \in Active
      BY <1>2, <1>3, <1>4 DEF Forward, Listable, Active
  <2> QED
      BY <1>1, <2>1, <2>2 DEF Forward, Listable, Everyone, Active
<1>6. Prompt' = Prompt
    BY <1>1 DEF Prompt, Executing
<1>7. IsFiniteSet(Updating)
    BY ExecutorAssumption, FS_Subset DEF Updating
<1>8. chains # 0
  <2> DEFINE S == {k \in Updating : StepOf(k).do # "registry"}
  <2>1. IsFiniteSet(S)
      BY <1>7, FS_Subset
  <2>2. Cardinality(S) \in Nat
      BY <2>1, FS_CardinalityType
  <2>3. Cardinality(S) < chains
      BY <1>1
  <2> HIDE DEF S
  <2> QED
      BY <1>2, <2>2, <2>3
<1>9. ASSUME Prompt, chains <= 1
      PROVE  InOrder' /\ OneUpdate' /\ BootSyncs'
  <2>1. InOrder /\ OneUpdate /\ BootSyncs
      BY <1>9 DEF Forward
  <2>2. ASSUME NEW k \in Updating
        PROVE  StepOf(k).do # "registry"
    <3>1. k \in Everyone /\ job[k].of = "update" /\ job[k].mode \in Active
        BY <1>2 DEF Updating, Forward, Listable
    <3>2. job[k].at \in Positions(Code(venue, "update"))
        BY <3>1 DEF Base, Good, Typed
    <3>3. Code(venue, "update") = Executing.update /\ StepOf(k) = Executing.update[job[k].at]
        BY <3>1 DEF Code, Executing, StepOf, Program
    <3>4. Formed(Code(venue, "update"))
        BY Shapes
    <3>5. job[k].at \in DOMAIN Executing.update
        BY <1>9, <3>2, <3>3, <3>4 DEF Positions, Formed, Prompt
    <3> QED
        BY <1>9, <3>3, <3>5 DEF Prompt
  <2>3. {k \in Updating : StepOf(k).do # "registry"} = Updating
      BY <2>2
  <2>4. Cardinality(Updating) = 0
    <3>1. Cardinality(Updating) \in Nat
        BY <1>7, FS_CardinalityType
    <3>2. Cardinality(Updating) < chains
        BY <1>1, <2>3
    <3> QED
        BY <1>2, <1>9, <3>1, <3>2
  <2>5. Updating = {}
      BY <1>7, <2>4, FS_EmptySet
  <2>6. Updating' = {j} /\ Newer(0)
      BY <1>4, <2>5 DEF Newer
  <2>7. OneUpdate'
      BY <1>1, <1>3, <2>6 DEF OneUpdate, Newer
  <2>8. InOrder'
      BY <1>1, <2>1 DEF InOrder
  <2>9. BootSyncs'
      BY <1>1, <1>2, <1>3, <2>1 DEF BootSyncs
  <2> QED
      BY <2>7, <2>8, <2>9
<1> QED
    BY <1>1, <1>5, <1>6, <1>8, <1>9 DEF Forward

\* The venue lists anew.
LEMMA RelistKeeps ==
    ASSUME Base, Base', Forward, Relist
    PROVE  Forward' /\ known' = known /\ held' = held
<1>1. listed' = listed + 1 /\ UNCHANGED <<venue, job, chains, held, posted, known>>
    BY DEF Relist
<1>2. /\ listed \in Nat /\ held \in Nat /\ known \in Nat
      /\ \A i \in 1 .. Len(posted) : posted[i] \in Nat
      /\ \A k \in Everyone : job[k].version \in Nat
    BY ListTypes
<1>3. Updating' = Updating /\ Prompt' = Prompt
    BY <1>1 DEF Updating, Prompt, Executing
<1>4. Listable'
    BY <1>1, <1>2, <1>3 DEF Forward, Listable
<1>5. InOrder' = InOrder /\ BootSyncs' = BootSyncs
    BY <1>1 DEF InOrder, BootSyncs
<1>6. OneUpdate' = OneUpdate
    BY <1>1, <1>3 DEF OneUpdate, Newer
<1> QED
    BY <1>1, <1>3, <1>4, <1>5, <1>6 DEF Forward

\* The parent takes the next list, unless it is empty.
LEMMA ParentKeeps ==
    ASSUME Base, Base', Forward, OnSecurityList
    PROVE  /\ Forward' /\ held' = held
           /\ OneTimer /\ Prompt => known' >= known
<1>1. /\ posted # << >> /\ posted' = Tail(posted)
      /\ known' = IF Head(posted) = 0 THEN known ELSE Head(posted)
      /\ UNCHANGED <<venue, job, chains, listed, held>>
    BY DEF OnSecurityList
<1>2. /\ listed \in Nat /\ held \in Nat /\ known \in Nat /\ chains \in Nat
      /\ posted \in Seq(Nat) /\ Len(posted) \in Nat
      /\ \A i \in 1 .. Len(posted) : posted[i] \in Nat
      /\ \A k \in Everyone : job[k].version \in Nat
      /\ Updating \subseteq Everyone
    BY ListTypes
<1>3. /\ Len(posted) >= 1 /\ Len(posted') = Len(posted) - 1 /\ Head(posted) = posted[1]
      /\ \A i \in 1 .. Len(posted') : posted'[i] = posted[i + 1] /\ i + 1 \in 1 .. Len(posted)
  <2>1. Len(posted) >= 1
      BY <1>1, <1>2
  <2>2. Len(posted') = Len(posted) - 1 /\ Head(posted) = posted[1]
      BY <1>1, <1>2, <2>1
  <2>3. \A i \in 1 .. Len(posted) - 1 : posted'[i] = posted[i + 1]
      BY <1>1, <1>2, <2>1
  <2> QED
      BY <1>2, <2>1, <2>2, <2>3
<1> DEFINE h == posted[1]
<1>4. h \in Nat /\ h <= listed /\ known' = IF h = 0 THEN known ELSE h
    BY <1>1, <1>2, <1>3 DEF Forward, Listable
<1>5. Updating' = Updating /\ Prompt' = Prompt
    BY <1>1 DEF Updating, Prompt, Executing
<1>6. Listable'
  <2>1. \A i \in 1 .. Len(posted') : posted'[i] <= listed
      BY <1>3 DEF Forward, Listable
  <2>2. known' <= listed
      BY <1>4 DEF Forward, Listable
  <2> QED
      BY <1>1, <1>5, <2>1, <2>2 DEF Forward, Listable
<1>7. ASSUME Prompt PROVE chains # 0
    BY <1>1, <1>7 DEF Forward
<1>8. ASSUME Prompt, chains <= 1
      PROVE  known' >= known /\ InOrder' /\ OneUpdate' /\ BootSyncs'
  <2>1. InOrder /\ OneUpdate /\ BootSyncs
      BY <1>8 DEF Forward
  <2>2. known' >= known
    <3>1. 1 \in 1 .. Len(posted)
        BY <1>2, <1>3
    <3>2. h = 0 \/ known <= h
        BY <2>1, <3>1 DEF InOrder
    <3> QED
        BY <1>2, <1>4, <3>2
  <2>3. ASSUME NEW i \in 1 .. Len(posted'), posted'[i] # 0
        PROVE  known' <= posted'[i] /\ \A k \in 1 .. i - 1 : posted'[k] <= posted'[i]
    <3>1. posted'[i] = posted[i + 1] /\ i + 1 \in 1 .. Len(posted)
        BY <1>3
    <3>2. known <= posted[i + 1] /\ \A k \in 1 .. i : posted[k] <= posted[i + 1]
        BY <2>1, <2>3, <3>1 DEF InOrder
    <3>3. 1 \in 1 .. i
        BY <1>2, <1>3
    <3>4. \A k \in 1 .. i - 1 : /\ k \in 1 .. Len(posted') /\ k + 1 \in 1 .. i
                                /\ posted'[k] = posted[k + 1]
        BY <1>2, <1>3
    <3> QED
        BY <1>4, <3>1, <3>2, <3>3, <3>4
  <2>4. InOrder'
      BY <2>3 DEF InOrder
  <2>5. ASSUME NEW w \in Nat, Newer(w)
        PROVE  w = 0 \/ (known' <= w /\ \A i \in 1 .. Len(posted') : posted'[i] <= w)
    <3>1. 1 \in 1 .. Len(posted)
        BY <1>2, <1>3
    <3> QED
        BY <1>3, <1>4, <2>5, <3>1 DEF Newer
  <2>6. OneUpdate'
      BY <1>1, <1>2, <1>5, <2>1, <2>5 DEF OneUpdate, Newer
  <2>7. BootSyncs'
      BY <1>1, <2>1 DEF BootSyncs
  <2> QED
      BY <2>2, <2>4, <2>6, <2>7
<1> HIDE DEF h
<1>9. Forward'
    BY <1>1, <1>5, <1>6, <1>7, <1>8 DEF Forward
<1> QED
    BY <1>1, <1>8, <1>9 DEF OneTimer

\* The others of the world are calm.
LEMMA WorldCalm ==
    ASSUME Suits(venue), Base, Forward,
           \/ \E j \in Slots : Ask(j) \/ Forget(j) \/ ComesBack(j)
           \/ \E l \in Limits : Window(l)
           \/ UNCHANGED vars
    PROVE  Calm
<1>1. Boot \notin Slots /\ Slots \subseteq Everyone
    BY ExecutorAssumption DEF Everyone
<1>2. ASSUME NEW j \in Slots, NEW h, NEW m, job' = [job EXCEPT ![j] = Job(h, m)],
             h # "update", UNCHANGED <<venue, lists, chains, held>>
      PROVE  Calm
  <2>1. Continues(job[j], Job(h, m))
      BY <1>2 DEF Continues, Job
  <2> QED
      BY <1>1, <1>2, <2>1, CalmMove
<1>3. ASSUME NEW j \in Slots, Ask(j)
      PROVE  Calm
  <2>1. PICK h \in Handlers[venue] : job' = [job EXCEPT ![j] = Job(h, "actor")]
      BY <1>3 DEF Ask
  <2>2. h \in Requests(venue)
    <3>1. venue \in DOMAIN Executors
        BY ExecutorAssumption DEF Base, Globals
    <3>2. \A R : {CHOOSE g \in DOMAIN R : R[g] = program :
                    program \in {R[g] : g \in DOMAIN R}} \subseteq DOMAIN R
        OBVIOUS
    <3> QED
        BY <2>1, <3>1, <3>2 DEF Handlers, Requests
  <2>3. h # "update"
      BY <2>2, Shapes
  <2> QED
      BY <1>2, <1>3, <2>1, <2>3 DEF Ask
<1>4. ASSUME NEW j \in Slots, Forget(j)
      PROVE  Calm
    BY <1>2, <1>4 DEF Forget, Idle
<1>5. ASSUME NEW j \in Slots, ComesBack(j)
      PROVE  Calm
  <2>1. j \in Everyone /\ j # Boot /\ Good(venue, j, job[j]) /\ job[j].mode = "await"
      BY <1>1, <1>5 DEF ComesBack, Base
  <2>2. Doing(j).do = "future" /\ job[j].of \in Requests(venue) \cup {"boot", "update"}
      BY <2>1 DEF Good, Typed, Jobs, Active, Doing
  <2>3. StepOf(j) = Doing(j)
      BY DEF StepOf, Program, Executing, Doing, Code
  <2>4. Acts(j)
      BY <2>1, <2>2, Shapes DEF Acts, Active, IsList
  <2>5. PICK reply \in Replies : Replied(j, reply)
      BY <1>5 DEF ComesBack
  <2>6. UNCHANGED <<venue, lists>> /\ Doing(j).do \in Judging
      BY <1>5, <2>2 DEF ComesBack, Judging, Asking
  <2> QED
      BY <2>1, <2>3, <2>4, <2>5, <2>6, CalmReplied
<1>6. ASSUME UNCHANGED <<venue, job, chains, held, lists>>
      PROVE  Calm
  <2>1. \A k \in Everyone : Continues(job[k], job'[k])
      BY <1>6, StaysCalm
  <2>2. job[Boot].at \in Nat
    <3>1. job[Boot] \in Jobs(venue)
        BY DEF Base, Good, Typed, Everyone
    <3> QED
        BY <3>1 DEF Jobs
  <2> QED
      BY <1>6, <2>1, <2>2 DEF Calm
<1>7. ASSUME NEW l \in Limits, Window(l)
      PROVE  Calm
    BY <1>6, <1>7 DEF Window
<1>8. CASE UNCHANGED vars
    BY <1>6, <1>8 DEF vars, lists
<1> QED
    BY <1>3, <1>4, <1>5, <1>7, <1>8

LEMMA ForwardNext ==
    ASSUME MaxChains \in Nat, MaxChains > 1, Suits(venue), Base, Base', Forward, [Next]_vars
    PROVE  /\ Forward'
           /\ OneTimer /\ Prompt => /\ known' >= known \/ chains' = 0
                                    /\ held' >= held \/ held' = 0
<1>1. held \in Nat /\ known \in Nat
    BY ListTypes
<1>2. ASSUME Forward', known' = known, held' = held \/ held' = 0
      PROVE  /\ Forward'
             /\ OneTimer /\ Prompt => /\ known' >= known \/ chains' = 0
                                      /\ held' >= held \/ held' = 0
    BY <1>1, <1>2
<1>3. Calm => Forward' /\ known' = known /\ (held' = held \/ held' = 0)
    BY CalmKeeps
<1>4. ASSUME NEW j \in Everyone, Step(j)
      PROVE  /\ Forward'
             /\ OneTimer /\ Prompt => /\ known' >= known \/ chains' = 0
                                      /\ held' >= held \/ held' = 0
  <2>1. CASE SyncSecurities(j)
      BY <1>1, <2>1, SyncKeeps
  <2>2. CASE Publishes(j)
      BY <1>2, <2>2, PublishKeeps
  <2>3. CASE Crashes(j) /\ job[j].answers # 0
      BY <2>3, CrashKeeps
  <2>4. CASE ~SyncSecurities(j) /\ ~Publishes(j) /\ ~(Crashes(j) /\ job[j].answers # 0)
    <3>1. Calm
        BY <1>4, <2>4, StepCalm
    <3> QED
        BY <1>2, <1>3, <3>1
  <2> QED
      BY <2>1, <2>2, <2>3, <2>4
<1>5. ASSUME NEW j \in Slots, Tick(j)
      PROVE  Forward' /\ known' = known /\ held' = held
    BY <1>5, TickKeeps
<1>6. CASE Relist
    BY <1>2, <1>6, RelistKeeps
<1>7. CASE OnSecurityList
    BY <1>1, <1>7, ParentKeeps
<1>8. CASE \/ \E j \in Slots : Ask(j) \/ Forget(j) \/ ComesBack(j)
           \/ \E l \in Limits : Window(l)
           \/ UNCHANGED vars
    BY <1>2, <1>3, <1>8, WorldCalm
<1> QED
    BY <1>2, <1>4, <1>5, <1>6, <1>7, <1>8 DEF Next, Everyone

(* ListsGoForward: with one timer, and no update that waits for the registry, *)
(* neither the executor nor the parent comes by an older list than it has;    *)
(* what starts again starts with none. A second boot must be seen to set a    *)
(* second timer.                                                              *)
THEOREM ListsForward ==
    ASSUME MaxChains > 1
    PROVE  Spec => ListsGoForward
<1>1. MaxChains \in Nat
    BY ExecutorAssumption
<1>2. Init => Forward
    BY ForwardInit
<1>3. Base /\ Base' /\ Forward /\ [Next]_vars =>
        /\ Forward'
        /\ [OneTimer /\ Prompt => /\ known' >= known \/ chains' = 0
                                  /\ held' >= held \/ held' = 0]_vars
  <2> SUFFICES ASSUME Base, Base', Forward, [Next]_vars
      PROVE  /\ Forward'
             /\ [OneTimer /\ Prompt => /\ known' >= known \/ chains' = 0
                                       /\ held' >= held \/ held' = 0]_vars
      OBVIOUS
  <2>1. Suits(venue)
      BY AllSuit, SuitsHere
  <2> QED
      BY <1>1, <2>1, ForwardNext
<1>4. Spec => []Base
  <2>1. Spec => [](Base /\ Counted)
      BY BaseAlways
  <2> QED
      BY <2>1, PTL
<1> QED
    BY <1>2, <1>3, <1>4, PTL DEF Spec, ListsGoForward
=============================================================================

---------------------------- MODULE HandlerSteps ----------------------------
(* What the handlers of the executors (exchanges/<venue>/executor.go) are    *)
(* made of: the steps that others can see. A handler checks the request,     *)
(* checks and counts a rate limit, leaves the actor for a goroutine, sends a *)
(* query, judges the reply, replaces the list of securities, publishes it,   *)
(* answers. What a query asks for and how its reply is converted is left     *)
(* out. VenueExecutor gives the steps their meaning.                         *)
EXTENDS Naturals, Sequences

(* Check: a malformed request is refused, and that is all. Warn: the same    *)
(* without the return, the handler goes on. Build: the query may not be      *)
(* built, and the handler fails and the actor with it. Crash: what a Warn    *)
(* let through is used. Ignore: no answer. Decline: an unsupported request   *)
(* is refused. Done: the success is answered.                                *)
Check   == [do |-> "check"]
Warn    == [do |-> "warn"]
Build   == [do |-> "build"]
Ignore  == [do |-> "ignore"]
Crash   == [do |-> "crash"]
Decline == [do |-> "decline"]
Done    == [do |-> "done"]

(* Free(l) refuses when limit l is spent, Take(l) counts one query under it, *)
(* Wait(l) sleeps until it is free and counts.                               *)
Free(l) == [do |-> "free", limit |-> l]
Take(l) == [do |-> "take", limit |-> l]
Wait(l) == [do |-> "wait", limit |-> l]

(* Task: the rest runs in a goroutine. Skip(n): the next n steps may not be  *)
(* needed, the reply was the last page or the request does not ask for them. *)
Task    == [do |-> "task"]
Skip(n) == [do |-> "skip", count |-> n]

(* A reply is fine, refused by the venue, odd (a symbol or a status that is  *)
(* not known, a body that is not what it should be), lost (the query carried *)
(* out or not), or a redirect: a status neither 200 nor an error. Some are   *)
(* judged: "refused" answers that the request is refused, "unsure" answers   *)
(* HTTPError, "warn" does too and goes on, "perhaps" refuses what the body   *)
(* of the reply makes it see, "drop" returns without an answer. A reply that *)
(* is not judged passes for a fine one.                                      *)
Refuse(S)  == [r \in S |-> "refused"]
Unsure(S)  == [r \in S |-> "unsure"]
Warned(S)  == [r \in S |-> "warn"]
Perhaps(S) == [r \in S |-> "perhaps"]
Drop(S)    == [r \in S |-> "drop"]
Trouble    == {"refused", "odd", "lost"}

\* the verdicts, or the handlers, of f, and where f has none those of g
f ++ g == [x \in DOMAIN f \cup DOMAIN g |-> IF x \in DOMAIN f THEN f[x] ELSE g[x]]

(* Query waits for the reply where it runs; Future leaves the actor, and its *)
(* continuation comes back for the reply; Judge judges it once more.         *)
Query(kind, verdict)  == [do |-> "query", kind |-> kind, verdict |-> verdict]
Future(kind, verdict) == [do |-> "future", kind |-> kind, verdict |-> verdict]
Judge(verdict)        == [do |-> "judge", verdict |-> verdict]

(* The list of securities: the static registry is asked for the historical   *)
(* ones, SyncSecurities replaces the executor's, the parent is sent the new. *)
Registry == [do |-> "registry"]
Sync     == [do |-> "sync"]
Publish  == [do |-> "publish"]

(* The list is given to a reader: its length is read, then, under the lock,  *)
(* the securities are copied to a slice of that length.                      *)
Measure == [do |-> "measure"]
Copy    == [do |-> "copy"]

(*************************** what many handlers share ***********************)

Read   == Query("read", Refuse(Trouble))
Fetch  == Future("read", Refuse(Trouble) ++ Drop({"redirect"}))
Listed == Query("list", Refuse(Trouble))

ReadTask(l)   == <<Check, Free(l), Take(l), Read, Done>>
\* statistics asked for one by one while the actor waits
Statistics(l) == <<Check, Skip(4), Build, Free(l), Take(l),
                   Query("read", Refuse(Trouble) ++ Drop({"redirect"})), Done>>
FetchLater(l) == <<Build, Free(l), Take(l), Fetch, Done>>
ListUpdate(l) == <<Free(l), Take(l), Listed, Sync, Publish>>

\* the list of a venue whose historical securities the registry keeps
FullUpdate(l) == <<Free(l), Take(l), Listed, Registry, Sync, Publish>>

\* an order command answered in place or by a continuation: a lost reply
\* says nothing, what the venue says does
Command      == Query("order", Unsure({"lost"}) ++ Refuse({"refused"}))

\* Mutant: of a lost reply it is said that the order is refused.
LostIsRefused == Query("order", Refuse(Trouble))

NewOrder == Query("order", Unsure({"lost"}) ++ Refuse({"refused", "odd"}))

LaterCommand == Future("order", Unsure({"lost", "refused"}) ++ Refuse({"odd"})
                                ++ Drop({"redirect"}))
=============================================================================
